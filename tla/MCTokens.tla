------------------------------- MODULE MCTokens -------------------------------
(* Instances of Tokens for TLC; the constants are in the cfg files. *)
EXTENDS Tokens
=============================================================================
