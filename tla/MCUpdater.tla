------------------------------- MODULE MCUpdater -------------------------------
(* Small instances of Updater for TLC; the configurations give every constant. *)
EXTENDS Updater
================================================================================
