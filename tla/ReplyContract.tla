---------------------------- MODULE ReplyContract ----------------------------
(***************************************************************************)
(* What a caller of the App Server transport is promised, without threads, *)
(* queues or a pending map: a request is accepted while the transport is   *)
(* open, or refused once it is not, and comes back at most once; with an   *)
(* answer only if the server gave that answer to that request, as closed   *)
(* only if the transport is over, as timed out at any time.                *)
(***************************************************************************)
EXTENDS Integers

CONSTANT MaxId

VARIABLES open,       \* the transport has not ended
          answered,   \* <<id, kind>> of every answer the server has written
          outcome     \* what the caller knows of each request

vars == <<open, answered, outcome>>

Requests == 2..MaxId
Kinds == {"ok", "error"}

Init == open = TRUE /\ answered = {} /\ outcome = [id \in Requests |-> "none"]

Answer == /\ \E id \in 1..MaxId, kind \in Kinds : answered' = answered \cup {<<id, kind>>}
          /\ UNCHANGED <<open, outcome>>

Learn(id, result) ==
  outcome' = [outcome EXCEPT ![id] = result] /\ UNCHANGED <<open, answered>>

Accept(id) == outcome[id] = "none" /\ Learn(id, "waiting")
Refuse(id) == outcome[id] = "none" /\ ~open /\ Learn(id, "rejected")

Return(id, result) ==
  /\ outcome[id] = "waiting"
  /\ \/ result \in Kinds /\ <<id, result>> \in answered
     \/ result = "closed" /\ ~open
     \/ result = "timeout"
  /\ Learn(id, result)

End == open /\ open' = FALSE /\ UNCHANGED <<answered, outcome>>

Next ==
  \/ Answer \/ End
  \/ \E id \in Requests :
       \/ Accept(id) \/ Refuse(id)
       \/ \E result \in {"ok", "error", "closed", "timeout"} : Return(id, result)

Spec == Init /\ [][Next]_vars
=============================================================================
