----------------------------- MODULE MCTransport -----------------------------
(* Instances of Transport for TLC; the cfg files give the bounds. *)
EXTENDS Transport
=============================================================================
