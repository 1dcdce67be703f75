----------------------------- MODULE MCActivation ------------------------------
(***************************************************************************)
(* Small instances of Activation for TLC: the vendor's address, one of     *)
(* another server and one the daemon cannot parse.  A behaviour plays one  *)
(* scene.  "overlap": requests of an administrator who never changes a     *)
(* setting that works, while timer and manual runs go on beside them.      *)
(* "alone": requests of any kind and runs of the timer, one after the      *)
(* other, and a stop of the daemon at any point; the second key stands.    *)
(***************************************************************************)
EXTENDS Activation

CONSTANTS vendor, other, invalid, k1, k2
VARIABLE scene

mcVars == <<vars, scene>>

Behind == [u \in Urls |-> CASE u = vendor -> "vendor" [] u = other -> "other"
                            [] u = invalid -> "invalid"]

Ask(key, url, verify) == [key |-> key, url |-> url, verify |-> verify]

\* Any of the settings may be left out, and the address may lead anywhere.
Anything == {Ask(k, u, v) : k \in {k1, Empty}, u \in Urls \cup {Empty, Absent}, v \in Flags \cup {Absent}}

\* The machine does not trust the vendor's certificate, so that verifying is off.
Sensible == {Ask(k, vendor, "0") : k \in LicenceKeys}

\* A form that holds an empty address, sent after one that held the right one.
Emptied == {Ask(k1, vendor, "0"), Ask(k1, Empty, "0")}

\* Both scenes' requests, for the configuration.
Both == Anything \cup Sensible

Overlap ==
    /\ kills' = 0 /\ requests' <= 2
    /\ \A w \in Workers : areq'[w] \in Sensible \cup {NoRequest}
Alone ==
    /\ OneAtATime'
    /\ \A s \in Runs \ {TimerRun} : spc'[s] = "idle"
    /\ \A w \in Workers : areq'[w] \in Anything \cup {NoRequest}
    /\ licence'[k2] = "VALID"

Played(A) ==
    /\ A /\ UNCHANGED scene
    /\ \/ scene = "overlap" /\ Overlap
       \/ scene = "alone" /\ Alone

MCInit == Init /\ scene \in {"overlap", "alone"}
MCSpec == MCInit /\ [][Played(Next)]_mcVars

\* Fairness of Activation, in the scene played.
MCFairness ==
    /\ \A w \in Workers : WF_mcVars(Played(Activate(w)))
    /\ \A s \in Runs : WF_mcVars(Played(RunSteps(s)))
    /\ SF_mcVars(Played(StartRun(TimerRun))) /\ SF_mcVars(Played(BeatAnswered(TimerRun)))
FairMCSpec == MCSpec /\ MCFairness
================================================================================
