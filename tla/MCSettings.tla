------------------------------ MODULE MCSettings ------------------------------
(* Instances of Settings for TLC. *)
EXTENDS Settings

OldFile(v, w, cli) ==
  [version |-> v, width |-> w, secondary |-> FALSE, retention |-> 7, cli |-> cli]

Files == {None, Corrupt, OldFile(3, 320, "path"), OldFile(8, 900, "blank")}

PageChoices == {[width |-> w, secondary |-> FALSE, retention |-> r] :
                  w \in {100, 620}, r \in {30, 45}}
=============================================================================
