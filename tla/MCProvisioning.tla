----------------------------- MODULE MCProvisioning -----------------------------
(* Small instances of Provisioning for TLC. *)
EXTENDS Provisioning, TLC

\* Adapters, and addresses, are interchangeable to the console.
Symmetry == Permutations(Devices) \cup Permutations(Ips)
================================================================================
