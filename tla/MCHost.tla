-------------------------------- MODULE MCHost --------------------------------
(* Instances of Host for TLC: the bounds are in the configurations. *)
EXTENDS Host
=============================================================================
