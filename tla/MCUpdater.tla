------------------------------- MODULE MCUpdater -------------------------------
(* Instances of Updater for TLC: the bounds are in the configurations. *)
EXTENDS Updater
=============================================================================
