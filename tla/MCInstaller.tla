------------------------------ MODULE MCInstaller ------------------------------
(* A small instance of FirstBoot for TLC: the configuration gives the constants. *)
EXTENDS FirstBoot
================================================================================
