--------------------------------- MODULE Netmask ---------------------------------
(***************************************************************************)
(* From a netmask to a prefix length, twice: the console counts the bits   *)
(* of whatever passes its format check (cli_engine.cpp), sync_network.sh,  *)
(* which sets the adapter again, looks the text up in a table.  A netmask  *)
(* is its four octets; a text in which zeros lead an octet, as in 000, is  *)
(* the same to the console and not in the table.                           *)
(***************************************************************************)
LOCAL INSTANCE Naturals
LOCAL INSTANCE FiniteSets

\* The loop over val.  No mask is refused, and a leading zero adds nothing.
CountBits(m) == Cardinality({b \in (1..4) \X (0..7) : (m[b[1]] \div 2^b[2]) % 2 = 1})

\* mask2cidr: row n is the mask for n, and 0.0.0.0 is for 0.
MaskTable == <<
    <<128,0,0,0>>, <<192,0,0,0>>, <<224,0,0,0>>, <<240,0,0,0>>,
    <<248,0,0,0>>, <<252,0,0,0>>, <<254,0,0,0>>, <<255,0,0,0>>,
    <<255,128,0,0>>, <<255,192,0,0>>, <<255,224,0,0>>, <<255,240,0,0>>,
    <<255,248,0,0>>, <<255,252,0,0>>, <<255,254,0,0>>, <<255,255,0,0>>,
    <<255,255,128,0>>, <<255,255,192,0>>, <<255,255,224,0>>, <<255,255,240,0>>,
    <<255,255,248,0>>, <<255,255,252,0>>, <<255,255,254,0>>, <<255,255,255,0>>,
    <<255,255,255,128>>, <<255,255,255,192>>, <<255,255,255,224>>, <<255,255,255,240>>,
    <<255,255,255,248>>, <<255,255,255,252>>, <<255,255,255,254>>, <<255,255,255,255>> >>
Rows(m) == {n \in 0..32 : IF n = 0 THEN m = <<0,0,0,0>> ELSE m = MaskTable[n]}
MaskToCidr(m) == IF Rows(m) = {} THEN 24 ELSE CHOOSE n \in Rows(m) : TRUE

--------------------------------------------------------------------------------
\* The netmask of prefix length n: its first n bits are set.
OctetOf(n, i) ==
    LET ones == IF n <= 8 * (i - 1) THEN 0 ELSE IF n >= 8 * i THEN 8 ELSE n - 8 * (i - 1)
    IN  256 - 2^(8 - ones)
MaskOf(n) == <<OctetOf(n, 1), OctetOf(n, 2), OctetOf(n, 3), OctetOf(n, 4)>>

\* Both conversions give every netmask that has a length this length, so that the
\* script sets what the console has set, and the models may keep a netmask as a
\* value.  (For others they differ: 255.0.255.0 is 16 for one, 24 for the other.)
ASSUME ConversionsAgree ==
    \A n \in 0..32 : CountBits(MaskOf(n)) = n /\ MaskToCidr(MaskOf(n)) = n
================================================================================
