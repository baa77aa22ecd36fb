------------------------------ MODULE MCActivity ------------------------------
(* Instances of Activity for TLC; the constants are in the cfg files. *)
EXTENDS Activity
=============================================================================
