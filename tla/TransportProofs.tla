--------------------------- MODULE TransportProofs ---------------------------
(***************************************************************************)
(* Proofs about module Transport, for every number of requests and frames. *)
(*                                                                         *)
(* 1. Types, and what a thread has at hand at each of its places.          *)
(* 2. Every request has one owner and at most one answer: OwnershipInv.    *)
(*    Whoever answers a request takes it from its only owner in the same   *)
(*    step (Moves), so no two threads can answer the same one, and a       *)
(*    request leaves its owner unanswered only when the transport is dead. *)
(* 3. The contract of the callers and the orderly end: ContractInv adds    *)
(*    what the messages under way say, an answer the server gave to that   *)
(*    request, a timeout, or the end of a transport that is over; and it   *)
(*    counts the reports of the end, those still to come from the thread   *)
(*    that won it included.                                                *)
(***************************************************************************)
EXTENDS Transport, TLAPS, FiniteSetTheorems

-----------------------------------------------------------------------------
(* Sequences and the set of their elements. *)

LEMMA AppendSet ==
  ASSUME NEW S, NEW s \in Seq(S), NEW e \in S
  PROVE  ToSet(Append(s, e)) = ToSet(s) \cup {e} /\ Append(s, e) \in Seq(S)
<1>1. DOMAIN Append(s, e) = 1..(Len(s) + 1) /\ DOMAIN s = 1..Len(s) /\ Len(s) \in Nat
  OBVIOUS
<1>2. \A i \in 1..Len(s) : Append(s, e)[i] = s[i]
  OBVIOUS
<1>3. Append(s, e)[Len(s) + 1] = e
  OBVIOUS
<1> QED BY <1>1, <1>2, <1>3 DEF ToSet

LEMMA TailSet ==
  ASSUME NEW S, NEW s \in Seq(S), s # <<>>
  PROVE  /\ ToSet(s) = ToSet(Tail(s)) \cup {Head(s)}
         /\ Head(s) \in S /\ Tail(s) \in Seq(S) /\ Head(s) \in ToSet(s)
<1>1. Len(s) \in Nat \ {0} /\ DOMAIN s = 1..Len(s) /\ DOMAIN Tail(s) = 1..(Len(s) - 1)
  OBVIOUS
<1>2. \A i \in 1..(Len(s) - 1) : Tail(s)[i] = s[i + 1]
  OBVIOUS
<1>3. Head(s) = s[1] /\ Tail(s) \in Seq(S) /\ Head(s) \in S
  OBVIOUS
<1>4. ToSet(s) \subseteq ToSet(Tail(s)) \cup {Head(s)}
  <2> SUFFICES ASSUME NEW i \in 1..Len(s)
               PROVE  s[i] = Head(s) \/ \E j \in 1..(Len(s) - 1) : s[i] = Tail(s)[j]
    BY <1>1 DEF ToSet
  <2>1. CASE i = 1
    BY <2>1, <1>3
  <2>2. CASE i # 1
    <3>1. i - 1 \in 1..(Len(s) - 1) /\ (i - 1) + 1 = i
      BY <2>2, <1>1
    <3> QED BY <3>1, <1>2
  <2> QED BY <2>1, <2>2
<1>5. ToSet(Tail(s)) \cup {Head(s)} \subseteq ToSet(s)
  BY <1>1, <1>2, <1>3 DEF ToSet
<1> QED BY <1>3, <1>4, <1>5

-----------------------------------------------------------------------------
(* Type correctness. *)

LEMMA InitTypes == Init => TypeOK
<1> SUFFICES ASSUME Init PROVE TypeOK
  OBVIOUS
<1> USE TransportAssumption DEF Init
<1>1. pending \subseteq Ids /\ nextId \in 2..(MaxId + 1) /\ written \in 0..MaxFrames
  OBVIOUS
<1>2. /\ events \in Seq(Events) /\ commands \in Seq(ReqIds \cup {CloseCommand})
      /\ outbound \in Seq(Ids \cup {InitializedNotice}) /\ inbox \in Seq(Frames)
  OBVIOUS
<1>3. replies \in [Ids -> Seq(Results)] /\ outcome \in [ReqIds -> Outcomes]
  BY DEF Outcomes
<1>4. pc \in [Threads -> Places]
  BY DEF Threads, Places
<1> QED BY <1>1, <1>2, <1>3, <1>4 DEF TypeOK, NoRequest

(* The literals of the specification belong to the sets they are drawn from. *)
LEMMA Names ==
  /\ {"idle", "submit", "close", "drain", "announce", "dropped", "start", "register",
      "initialize", "await", "initialized", "startupFailed", "startupTerminate", "startupDrain",
      "markReady", "emitReady", "loop", "recv", "check", "insert", "send", "sendFailed",
      "sendFailedDrain", "closing", "closingDrain", "exit", "done", "wait", "read", "emit",
      "run", "sleep"} \subseteq Places
  /\ {"client", "supervisor", "reader", "writer", "timer"} \subseteq Threads
BY DEF Places, Threads

LEMMA Domains ==
  /\ Ids \subseteq Nat /\ ReqIds \subseteq Ids /\ InitializeId \in Ids /\ InitializeId \notin ReqIds
  /\ CloseCommand \notin Ids /\ NoRequest \notin Ids /\ InitializedNotice \notin Ids
  /\ Results \subseteq Outcomes /\ {"none", "waiting", "rejected", "timeout", "closed"} \subseteq Outcomes
  /\ {"ok", "error", "timeout", "closed"} = Results
  /\ {"Ready", "Closed", "StartupFailed", "Eof", "IoError"} = Events
BY TransportAssumption DEF Ids, ReqIds, InitializeId, CloseCommand, NoRequest, InitializedNotice,
   Results, Outcomes, Events

LEMMA ReplyTypes ==
  ASSUME TypeOK, NEW S, NEW result \in Results, Reply(S, result)
  PROVE  replies' \in [Ids -> Seq(Results)]
BY DEF Reply, TypeOK

LEMMA HeadFrame ==
  ASSUME TypeOK, inbox # <<>>
  PROVE  Head(inbox).id \in Ids /\ Head(inbox).kind \in {"ok", "error"} /\ Tail(inbox) \in Seq(Frames)
<1>1. inbox \in Seq(Frames) /\ Head(inbox) \in Frames /\ Tail(inbox) \in Seq(Frames)
  BY TailSet DEF TypeOK
<1> QED BY <1>1 DEF Frames

LEMMA ClosedTypes ==
  ASSUME TypeOK, EmitClosed
  PROVE  events' \in Seq(Events) /\ closedSent' \in BOOLEAN
<1>1. "Closed" \in Events /\ events \in Seq(Events)
  BY Domains DEF TypeOK
<1>2. Append(events, "Closed") \in Seq(Events)
  BY <1>1
<1>3. CASE closedSent
  BY <1>1, <1>3 DEF EmitClosed
<1>4. CASE ~closedSent
  BY <1>2, <1>4 DEF EmitClosed, Emit
<1> QED BY <1>3, <1>4

LEMMA StepTypes == TypeOK /\ IdsAtHand /\ [Next]_vars => TypeOK'
<1> SUFFICES ASSUME TypeOK, IdsAtHand, [Next]_vars PROVE TypeOK'
  OBVIOUS
<1> USE Domains
<1>1. CASE ClientAllocate
  <2>1. pc' \in [Threads -> Places]
    BY <1>1, Names DEF ClientAllocate, At, Goto, TypeOK
  <2>2. nextId' \in 2..(MaxId + 1) /\ nextId \in ReqIds
    BY <1>1, TransportAssumption DEF ClientAllocate, TypeOK, ReqIds
  <2>3. outcome' \in [ReqIds -> Outcomes]
    BY <1>1, <2>2 DEF ClientAllocate, TypeOK
  <2> QED BY <1>1, <2>1, <2>2, <2>3 DEF ClientAllocate, At, shared, channels, server, TypeOK
<1>2. CASE ClientSubmit
  <2>1. pc' \in [Threads -> Places]
    BY <1>2, Names DEF ClientSubmit, At, Goto, TypeOK
  <2>2. nextId - 1 \in ReqIds
    BY <1>2 DEF ClientSubmit, IdsAtHand
  <2>3. Append(commands, nextId - 1) \in Seq(ReqIds \cup {CloseCommand})
    BY <1>2, <2>2, AppendSet DEF TypeOK
  <2>4. outcome' \in [ReqIds -> Outcomes]
    BY <1>2, <2>2 DEF ClientSubmit, TypeOK
  <2> QED BY <1>2, <2>1, <2>2, <2>3, <2>4 DEF ClientSubmit, At, shared, server, TypeOK
<1>3. ASSUME NEW id \in ReqIds, ClientReceive(id) PROVE TypeOK'
  <2>1. replies[id] \in Seq(Results)
    BY <1>3 DEF TypeOK
  <2>2. replies[id] # <<>> => Head(replies[id]) \in Outcomes
    BY <1>3, <2>1, TailSet
  <2>3. outcome' \in [ReqIds -> Outcomes]
    BY <1>3, <2>2 DEF ClientReceive, TypeOK
  <2> QED BY <1>3, <2>1, <2>2, <2>3 DEF ClientReceive, At, shared, channels, server, TypeOK
<1>4. ASSUME NEW id \in ReqIds, ClientGiveUp(id) PROVE TypeOK'
  BY <1>4 DEF ClientGiveUp, At, shared, channels, server, TypeOK
<1>5. CASE ClientClose
  <2>1. pc' \in [Threads -> Places]
    BY <1>5, Names DEF ClientClose, At, Goto, TypeOK
  <2> QED BY <1>5, <2>1 DEF ClientClose, At, shared, channels, clientVars, server, TypeOK
<1>6. CASE ClientCloseSend
  <2>1. pc' \in [Threads -> Places]
    BY <1>6, Names DEF ClientCloseSend, TerminateSwap, At, Goto, TypeOK
  <2>2. Append(commands, CloseCommand) \in Seq(ReqIds \cup {CloseCommand})
    BY <1>6, AppendSet DEF TypeOK
  <2> QED BY <1>6, <2>1, <2>2 DEF ClientCloseSend, TerminateSwap, At, shared, clientVars, server, TypeOK
<1>8. CASE ClientCloseAnnounce
  <2>1. pc' \in [Threads -> Places]
    BY <1>8, Names DEF ClientCloseAnnounce, EmitClosed, At, Goto, TypeOK
  <2>2. events' \in Seq(Events) /\ closedSent' \in BOOLEAN
    BY <1>8, ClosedTypes DEF ClientCloseAnnounce
  <2> QED BY <1>8, <2>1, <2>2 DEF ClientCloseAnnounce, At, channels, clientVars, server, TypeOK
<1>9. CASE ClientDrop
  <2>1. pc' \in [Threads -> Places]
    BY <1>9, Names DEF ClientDrop, At, Goto, TypeOK
  <2> QED BY <1>9, <2>1 DEF ClientDrop, At, shared, channels, clientVars, server, TypeOK
<1>10. CASE SupervisorInsertInitialize
  <2>1. pc' \in [Threads -> Places]
    BY <1>10, Names DEF SupervisorInsertInitialize, At, Goto, TypeOK
  <2> QED BY <1>10, <2>1 DEF SupervisorInsertInitialize, At, channels, clientVars, server, TypeOK
<1>11. CASE SupervisorRegister
  <2>1. pc' \in [Threads -> Places]
    BY <1>11, Names DEF SupervisorRegister, At, Goto, TypeOK
  <2> QED BY <1>11, <2>1 DEF SupervisorRegister, At, channels, clientVars, server, TypeOK
<1>12. CASE SupervisorSendInitialize
  <2>1. pc' \in [Threads -> Places]
    BY <1>12, Names DEF SupervisorSendInitialize, SupervisorWrite, At, Goto, TypeOK
  <2>2. Append(outbound, InitializeId) \in Seq(Ids \cup {InitializedNotice})
    BY <1>12, AppendSet DEF TypeOK
  <2> QED BY <1>12, <2>1, <2>2 DEF SupervisorSendInitialize, SupervisorWrite, At, shared, clientVars, server, TypeOK
<1>13. CASE SupervisorAwaitInitialize
  <2>1. pc' \in [Threads -> Places]
    BY <1>13, Names DEF SupervisorAwaitInitialize, At, Goto, TypeOK
  <2> QED BY <1>13, <2>1 DEF SupervisorAwaitInitialize, At, shared, channels, clientVars, server, TypeOK
<1>14. CASE SupervisorSendInitialized
  <2>1. pc' \in [Threads -> Places]
    BY <1>14, Names DEF SupervisorSendInitialized, SupervisorWrite, At, Goto, TypeOK
  <2>2. Append(outbound, InitializedNotice) \in Seq(Ids \cup {InitializedNotice})
    BY <1>14, AppendSet DEF TypeOK
  <2> QED BY <1>14, <2>1, <2>2 DEF SupervisorSendInitialized, SupervisorWrite, At, shared, clientVars, server, TypeOK
<1>15. CASE SupervisorStartupFailed
  <2>1. pc' \in [Threads -> Places]
    BY <1>15, Names DEF SupervisorStartupFailed, FailPending, At, Goto, TypeOK
  <2>2. replies' \in [Ids -> Seq(Results)]
    BY <1>15, ReplyTypes DEF SupervisorStartupFailed, FailPending, TypeOK, Frames
  <2>3. events' \in Seq(Events)
    BY <1>15 DEF SupervisorStartupFailed, FailPending, Emit, TypeOK
  <2> QED BY <1>15, <2>1, <2>2, <2>3 DEF SupervisorStartupFailed, FailPending, At, channels, clientVars, server, TypeOK
<1>16. CASE SupervisorStartupTerminate
  <2>1. pc' \in [Threads -> Places]
    BY <1>16, Names DEF SupervisorStartupTerminate, TerminateSwap, TerminateDrain, At, Goto, TypeOK
  <2>2. replies' \in [Ids -> Seq(Results)]
    BY <1>16, ReplyTypes DEF SupervisorStartupTerminate, TerminateSwap, TerminateDrain, TypeOK, Frames
  <2> QED BY <1>16, <2>1, <2>2 DEF SupervisorStartupTerminate, TerminateSwap, TerminateDrain, At, channels, clientVars, server, TypeOK
<1>17. CASE SupervisorMarkReady
  <2>1. pc' \in [Threads -> Places]
    BY <1>17, Names DEF SupervisorMarkReady, At, Goto, TypeOK
  <2> QED BY <1>17, <2>1 DEF SupervisorMarkReady, At, channels, clientVars, server, TypeOK
<1>18. CASE SupervisorEmitReady
  <2>1. pc' \in [Threads -> Places]
    BY <1>18, Names DEF SupervisorEmitReady, At, Goto, TypeOK
  <2>2. events' \in Seq(Events)
    BY <1>18 DEF SupervisorEmitReady, Emit, TypeOK
  <2> QED BY <1>18, <2>1, <2>2 DEF SupervisorEmitReady, At, shared, channels, clientVars, server, TypeOK
<1>19. CASE SupervisorCheckAlive
  <2>1. pc' \in [Threads -> Places]
    BY <1>19, Names DEF SupervisorCheckAlive, At, Goto, TypeOK
  <2> QED BY <1>19, <2>1 DEF SupervisorCheckAlive, At, shared, channels, clientVars, server, TypeOK
<1>20. CASE SupervisorReceive
  <2>1. pc' \in [Threads -> Places]
    BY <1>20, Names DEF SupervisorReceive, At, Goto, TypeOK
  <2>2. commands # <<>> => Head(commands) \in ReqIds \cup {CloseCommand} /\ Tail(commands) \in Seq(ReqIds \cup {CloseCommand})
    BY <1>20, TailSet DEF TypeOK
  <2> QED BY <1>20, <2>1, <2>2 DEF SupervisorReceive, At, shared, clientVars, server, TypeOK
<1>21. CASE SupervisorCheckRequest
  <2>1. pc' \in [Threads -> Places]
    BY <1>21, Names DEF SupervisorCheckRequest, At, Goto, TypeOK
  <2>2. replies' \in [Ids -> Seq(Results)]
    BY <1>21, ReplyTypes DEF SupervisorCheckRequest, TypeOK, Frames
  <2> QED BY <1>21, <2>1, <2>2 DEF SupervisorCheckRequest, At, shared, channels, clientVars, server, TypeOK
<1>22. CASE SupervisorInsert
  <2>1. pc' \in [Threads -> Places]
    BY <1>22, Names DEF SupervisorInsert, At, Goto, TypeOK
  <2>2. held \in Ids
    BY <1>22 DEF SupervisorInsert, At, IdsAtHand
  <2> QED BY <1>22, <2>1, <2>2 DEF SupervisorInsert, At, channels, clientVars, server, TypeOK
<1>23. CASE SupervisorSend
  <2>1. pc' \in [Threads -> Places]
    BY <1>23, Names DEF SupervisorSend, FailPending, At, Goto, TypeOK
  <2>2. replies' \in [Ids -> Seq(Results)]
    BY <1>23, ReplyTypes DEF SupervisorSend, FailPending, TypeOK, Frames
  <2>3. held \in Ids
    BY <1>23 DEF SupervisorSend, At, IdsAtHand
  <2>4. Append(outbound, held) \in Seq(Ids \cup {InitializedNotice})
    BY <1>23, <2>3, AppendSet DEF TypeOK
  <2> QED BY <1>23, <2>1, <2>2, <2>3, <2>4 DEF SupervisorSend, FailPending, At, clientVars, server, TypeOK
<1>24. CASE SupervisorSendFailed
  <2>1. pc' \in [Threads -> Places]
    BY <1>24, Names DEF SupervisorSendFailed, TerminateSwap, TerminateDrain, At, Goto, TypeOK
  <2>2. replies' \in [Ids -> Seq(Results)]
    BY <1>24, ReplyTypes DEF SupervisorSendFailed, TerminateSwap, TerminateDrain, TypeOK, Frames
  <2> QED BY <1>24, <2>1, <2>2 DEF SupervisorSendFailed, TerminateSwap, TerminateDrain, At, channels, clientVars, server, TypeOK
<1>25. CASE SupervisorClosing
  <2>1. pc' \in [Threads -> Places]
    BY <1>25, Names DEF SupervisorClosing, TerminateSwap, TerminateDrain, At, Goto, TypeOK
  <2>2. replies' \in [Ids -> Seq(Results)]
    BY <1>25, ReplyTypes DEF SupervisorClosing, TerminateSwap, TerminateDrain, TypeOK, Frames
  <2> QED BY <1>25, <2>1, <2>2 DEF SupervisorClosing, TerminateSwap, TerminateDrain, At, channels, clientVars, server, TypeOK
<1>26. CASE SupervisorAnnounce
  <2>1. pc' \in [Threads -> Places]
    BY <1>26, Names DEF SupervisorAnnounce, EmitClosed, At, Goto, TypeOK
  <2>2. events' \in Seq(Events) /\ closedSent' \in BOOLEAN
    BY <1>26, ClosedTypes DEF SupervisorAnnounce
  <2> QED BY <1>26, <2>1, <2>2 DEF SupervisorAnnounce, At, channels, clientVars, server, TypeOK
<1>27. CASE SupervisorDrainCommands
  <2>1. pc' \in [Threads -> Places]
    BY <1>27, Names DEF SupervisorDrainCommands, At, Goto, TypeOK
  <2>2. replies' \in [Ids -> Seq(Results)]
    BY <1>27, ReplyTypes DEF SupervisorDrainCommands, TypeOK, Frames
  <2>3. commands # <<>> => Tail(commands) \in Seq(ReqIds \cup {CloseCommand})
    BY <1>27, TailSet DEF TypeOK
  <2> QED BY <1>27, <2>1, <2>2, <2>3 DEF SupervisorDrainCommands, At, shared, clientVars, server, TypeOK
<1>28. CASE SupervisorExit
  <2>1. pc' \in [Threads -> Places]
    BY <1>28, Names DEF SupervisorExit, At, Goto, TypeOK
  <2>2. commands' \in Seq(ReqIds \cup {CloseCommand})
    BY <1>28 DEF SupervisorExit
  <2> QED BY <1>28, <2>1, <2>2 DEF SupervisorExit, At, shared, clientVars, server, TypeOK
<1>29. CASE ReaderWait
  <2>1. pc' \in [Threads -> Places]
    BY <1>29, Names DEF ReaderWait, At, Goto, TypeOK
  <2> QED BY <1>29, <2>1 DEF ReaderWait, At, shared, channels, clientVars, server, TypeOK
<1>30. CASE ReaderRead
  <2>1. Head(inbox).kind \in Results /\ inbox' \in Seq(Frames)
    BY <1>30, HeadFrame DEF ReaderRead
  <2>2. replies' \in [Ids -> Seq(Results)]
    <3>1. CASE Head(inbox).id \in pending
      <4>1. Reply(pending \cap {Head(inbox).id}, Head(inbox).kind)
        BY <1>30, <3>1 DEF ReaderRead, FailPending
      <4> QED BY <4>1, <2>1, ReplyTypes
    <3>2. CASE Head(inbox).id \notin pending
      BY <1>30, <3>2 DEF ReaderRead, TypeOK
    <3> QED BY <3>1, <3>2
  <2> QED BY <1>30, <2>1, <2>2 DEF ReaderRead, FailPending, At, channels, clientVars, TypeOK
<1>31. CASE ReaderEnd
  <2>1. pc' \in [Threads -> Places]
    BY <1>31, Names DEF ReaderEnd, TerminateSwap, At, Goto, TypeOK
  <2> QED BY <1>31, <2>1 DEF ReaderEnd, TerminateSwap, At, channels, clientVars, server, TypeOK
<1>32. CASE ReaderDrain
  <2>1. pc' \in [Threads -> Places]
    BY <1>32, Names DEF ReaderDrain, TerminateDrain, At, Goto, TypeOK
  <2>2. replies' \in [Ids -> Seq(Results)]
    BY <1>32, ReplyTypes DEF ReaderDrain, TerminateDrain, TypeOK, Frames
  <2> QED BY <1>32, <2>1, <2>2 DEF ReaderDrain, TerminateDrain, At, channels, clientVars, server, TypeOK
<1>33. CASE ReaderEmit
  <2>1. pc' \in [Threads -> Places]
    BY <1>33, Names DEF ReaderEmit, At, Goto, TypeOK
  <2>2. events' \in Seq(Events)
    BY <1>33 DEF ReaderEmit, Emit, TypeOK
  <2> QED BY <1>33, <2>1, <2>2 DEF ReaderEmit, At, shared, channels, clientVars, server, TypeOK
<1>34. CASE WriterWrite
  <2>1. outbound' \in Seq(Ids \cup {InitializedNotice}) /\ received' \subseteq Ids
    BY <1>34, TailSet DEF WriterWrite, TypeOK
  <2> QED BY <1>34, <2>1 DEF WriterWrite, At, shared, clientVars, TypeOK
<1>35. CASE WriterFail
  <2>1. pc' \in [Threads -> Places]
    BY <1>35, Names DEF WriterFail, TerminateSwap, At, Goto, TypeOK
  <2> QED BY <1>35, <2>1 DEF WriterFail, TerminateSwap, At, channels, clientVars, server, TypeOK
<1>36. CASE WriterDrain
  <2>1. pc' \in [Threads -> Places]
    BY <1>36, Names DEF WriterDrain, TerminateDrain, At, Goto, TypeOK
  <2>2. replies' \in [Ids -> Seq(Results)]
    BY <1>36, ReplyTypes DEF WriterDrain, TerminateDrain, TypeOK, Frames
  <2> QED BY <1>36, <2>1, <2>2 DEF WriterDrain, TerminateDrain, At, channels, clientVars, server, TypeOK
<1>37. CASE WriterEmit
  <2>1. pc' \in [Threads -> Places]
    BY <1>37, Names DEF WriterEmit, At, Goto, TypeOK
  <2>2. events' \in Seq(Events)
    BY <1>37 DEF WriterEmit, Emit, TypeOK
  <2> QED BY <1>37, <2>1, <2>2 DEF WriterEmit, At, shared, channels, clientVars, server, TypeOK
<1>38. CASE WriterExit
  <2>1. pc' \in [Threads -> Places]
    BY <1>38, Names DEF WriterExit, At, Goto, TypeOK
  <2>2. outbound' \in Seq(Ids \cup {InitializedNotice})
    BY <1>38 DEF WriterExit
  <2> QED BY <1>38, <2>1, <2>2 DEF WriterExit, At, shared, clientVars, server, TypeOK
<1>39. ASSUME NEW expired \in SUBSET pending, TimerScan(expired) PROVE TypeOK'
  <2>1. pc' \in [Threads -> Places]
    BY <1>39, Names DEF TimerScan, At, Goto, TypeOK
  <2>2. replies' \in [Ids -> Seq(Results)]
    BY <1>39, ReplyTypes DEF TimerScan, TypeOK, Frames
  <2> QED BY <1>39, <2>1, <2>2 DEF TimerScan, At, channels, clientVars, server, TypeOK
<1>40. CASE ServerSend
  <2>1. PICK id \in received, kind \in {"ok", "error"} : inbox' = Append(inbox, [kind |-> kind, id |-> id]) /\ answered' = answered \cup {<<id, kind>>}
    BY <1>40 DEF ServerSend
  <2>2. [kind |-> kind, id |-> id] \in Frames /\ <<id, kind>> \in Ids \X {"ok", "error"}
    BY <1>40 DEF TypeOK, Frames
  <2>3. inbox' \in Seq(Frames) /\ answered' \subseteq Ids \X {"ok", "error"}
    BY <1>40, <2>1, <2>2 DEF TypeOK
  <2>4. written' \in 0..MaxFrames
    BY <1>40, TransportAssumption DEF ServerSend, TypeOK
  <2> QED BY <1>40, <2>1, <2>2, <2>3, <2>4 DEF ServerSend, shared, channels, clientVars, TypeOK
<1>41. CASE ServerExit
  BY <1>41 DEF ServerExit, shared, channels, clientVars, TypeOK
<1>42. CASE UNCHANGED vars
  BY <1>42 DEF vars, shared, channels, clientVars, server, TypeOK
<1> QED
  BY <1>1, <1>2, <1>3, <1>4, <1>5, <1>6, <1>8, <1>9, <1>10, <1>11, <1>12, <1>13, <1>14, <1>15, <1>16, <1>17, <1>18, <1>19, <1>20, <1>21, <1>22, <1>23, <1>24, <1>25, <1>26, <1>27, <1>28, <1>29, <1>30, <1>31, <1>32, <1>33, <1>34, <1>35, <1>36, <1>37, <1>38, <1>39, <1>40, <1>41, <1>42 DEF Next, Client, ClientStep, Supervisor, Reader, Writer, Timer, Server

(* What a thread has at hand at each of its places: the id it is about to    *)
(* use, and, for a supervisor that no longer serves requests, a dead         *)
(* transport.                                                                *)
LEMMA InitPlaces == Init => IdsAtHand /\ GoneImpliesDead
BY DEF Init, IdsAtHand, GoneImpliesDead, SupervisorGone, At, Threads

LEMMA StepPlaces == TypeOK /\ IdsAtHand /\ GoneImpliesDead /\ [Next]_vars => (IdsAtHand /\ GoneImpliesDead)'
<1> SUFFICES ASSUME TypeOK, IdsAtHand, GoneImpliesDead, [Next]_vars
             PROVE  IdsAtHand' /\ GoneImpliesDead'
  OBVIOUS
<1> USE DEF IdsAtHand, GoneImpliesDead, SupervisorGone, At, Threads
<1>0. pc \in [Threads -> Places] /\ nextId \in 2..(MaxId + 1)
  BY DEF TypeOK
<1>1. CASE ClientAllocate
  <2>1. nextId \in ReqIds /\ nextId' - 1 = nextId
    BY <1>0, <1>1, TransportAssumption DEF ClientAllocate, ReqIds
  <2> QED BY <1>0, <1>1, <2>1 DEF ClientAllocate, Goto, shared, channels
<1>2. CASE ClientSubmit
  BY <1>0, <1>2 DEF ClientSubmit, Goto, shared
<1>3. ASSUME NEW id \in ReqIds, ClientReceive(id) PROVE IdsAtHand' /\ GoneImpliesDead'
  BY <1>0, <1>3 DEF ClientReceive, shared, channels
<1>4. ASSUME NEW id \in ReqIds, ClientGiveUp(id) PROVE IdsAtHand' /\ GoneImpliesDead'
  BY <1>0, <1>4 DEF ClientGiveUp, shared, channels
<1>5. CASE ClientClose
  BY <1>0, <1>5 DEF ClientClose, Goto, shared, channels, clientVars
<1>6. CASE ClientCloseSend
  BY <1>0, <1>6 DEF ClientCloseSend, TerminateSwap, Goto, shared, clientVars
<1>8. CASE ClientCloseAnnounce
  BY <1>0, <1>8 DEF ClientCloseAnnounce, Goto, channels, clientVars
<1>9. CASE ClientDrop
  BY <1>0, <1>9 DEF ClientDrop, Goto, shared, channels, clientVars
<1>10. CASE SupervisorInsertInitialize
  BY <1>0, <1>10 DEF SupervisorInsertInitialize, Goto, channels, clientVars
<1>11. CASE SupervisorRegister
  BY <1>0, <1>11 DEF SupervisorRegister, Goto, channels, clientVars
<1>12. CASE SupervisorSendInitialize
  BY <1>0, <1>12 DEF SupervisorSendInitialize, SupervisorWrite, Goto, shared, clientVars
<1>13. CASE SupervisorAwaitInitialize
  BY <1>0, <1>13 DEF SupervisorAwaitInitialize, Goto, shared, channels, clientVars
<1>14. CASE SupervisorSendInitialized
  BY <1>0, <1>14 DEF SupervisorSendInitialized, SupervisorWrite, Goto, shared, clientVars
<1>15. CASE SupervisorStartupFailed
  BY <1>0, <1>15 DEF SupervisorStartupFailed, Goto, channels, clientVars
<1>16. CASE SupervisorStartupTerminate
  BY <1>0, <1>16 DEF SupervisorStartupTerminate, TerminateSwap, TerminateDrain, Goto, channels, clientVars
<1>17. CASE SupervisorMarkReady
  BY <1>0, <1>17 DEF SupervisorMarkReady, Goto, channels, clientVars
<1>18. CASE SupervisorEmitReady
  BY <1>0, <1>18 DEF SupervisorEmitReady, Goto, shared, channels, clientVars
<1>19. CASE SupervisorCheckAlive
  BY <1>0, <1>19 DEF SupervisorCheckAlive, Goto, shared, channels, clientVars
<1>20. CASE SupervisorReceive
  <2>1. commands # <<>> => Head(commands) \in ReqIds \cup {CloseCommand}
    BY TailSet DEF TypeOK
  <2> QED BY <1>0, <1>20, <2>1 DEF SupervisorReceive, Goto, shared, clientVars
<1>21. CASE SupervisorCheckRequest
  BY <1>0, <1>21 DEF SupervisorCheckRequest, Goto, shared, channels, clientVars
<1>22. CASE SupervisorInsert
  BY <1>0, <1>22 DEF SupervisorInsert, Goto, channels, clientVars
<1>23. CASE SupervisorSend
  BY <1>0, <1>23 DEF SupervisorSend, Goto, clientVars
<1>24. CASE SupervisorSendFailed
  BY <1>0, <1>24 DEF SupervisorSendFailed, TerminateSwap, TerminateDrain, Goto, channels, clientVars
<1>25. CASE SupervisorClosing
  BY <1>0, <1>25 DEF SupervisorClosing, TerminateSwap, TerminateDrain, Goto, channels, clientVars
<1>26. CASE SupervisorAnnounce
  BY <1>0, <1>26 DEF SupervisorAnnounce, Goto, channels, clientVars
<1>27. CASE SupervisorDrainCommands
  BY <1>0, <1>27 DEF SupervisorDrainCommands, Goto, shared, clientVars
<1>28. CASE SupervisorExit
  BY <1>0, <1>28 DEF SupervisorExit, Goto, shared, clientVars
<1>29. CASE ReaderWait
  BY <1>0, <1>29 DEF ReaderWait, Goto, shared, channels, clientVars
<1>30. CASE ReaderRead
  BY <1>0, <1>30 DEF ReaderRead, channels, clientVars
<1>31. CASE ReaderEnd
  BY <1>0, <1>31 DEF ReaderEnd, TerminateSwap, Goto, channels, clientVars
<1>32. CASE ReaderDrain
  BY <1>0, <1>32 DEF ReaderDrain, TerminateDrain, Goto, channels, clientVars
<1>33. CASE ReaderEmit
  BY <1>0, <1>33 DEF ReaderEmit, Goto, shared, channels, clientVars
<1>34. CASE WriterWrite
  BY <1>0, <1>34 DEF WriterWrite, shared, clientVars
<1>35. CASE WriterFail
  BY <1>0, <1>35 DEF WriterFail, TerminateSwap, Goto, channels, clientVars
<1>36. CASE WriterDrain
  BY <1>0, <1>36 DEF WriterDrain, TerminateDrain, Goto, channels, clientVars
<1>37. CASE WriterEmit
  BY <1>0, <1>37 DEF WriterEmit, Goto, shared, channels, clientVars
<1>38. CASE WriterExit
  BY <1>0, <1>38 DEF WriterExit, Goto, shared, clientVars
<1>39. ASSUME NEW expired \in SUBSET pending, TimerScan(expired) PROVE IdsAtHand' /\ GoneImpliesDead'
  BY <1>0, <1>39 DEF TimerScan, Goto, channels, clientVars
<1>40. CASE ServerSend
  BY <1>0, <1>40 DEF ServerSend, shared, channels, clientVars
<1>41. CASE ServerExit
  BY <1>0, <1>41 DEF ServerExit, shared, channels, clientVars
<1>42. CASE UNCHANGED vars
  BY <1>42 DEF vars, shared, channels, clientVars
<1> QED
  BY <1>1, <1>2, <1>3, <1>4, <1>5, <1>6, <1>8, <1>9, <1>10, <1>11, <1>12, <1>13, <1>14, <1>15, <1>16, <1>17, <1>18, <1>19, <1>20, <1>21, <1>22, <1>23, <1>24, <1>25, <1>26, <1>27, <1>28, <1>29, <1>30, <1>31, <1>32, <1>33, <1>34, <1>35, <1>36, <1>37, <1>38, <1>39, <1>40, <1>41, <1>42 DEF Next, Client, ClientStep, Supervisor, Reader, Writer, Timer, Server

(* Every variable keeps its type: request ids stay in their range although   *)
(* the supervisor and the client pass them on step by step, and only known   *)
(* results and events are sent (transport.rs:413-428, 568-687).              *)
THEOREM TypeCorrect == Spec => []TypeOK
<1>1. Init => TypeOK /\ IdsAtHand /\ GoneImpliesDead
  BY InitTypes, InitPlaces
<1>2. TypeOK /\ IdsAtHand /\ GoneImpliesDead /\ [Next]_vars => (TypeOK /\ IdsAtHand /\ GoneImpliesDead)'
  BY StepTypes, StepPlaces
<1> QED BY <1>1, <1>2, PTL DEF Spec

-----------------------------------------------------------------------------
(* 2. Owners and answers. *)

(* The conjuncts of OwnershipInv that are about owners and answers. *)
Kept == OneOwner /\ OwnedIsEmpty /\ UnusedIsNowhere /\ AnsweredOnce /\ NoLostRequest

(* No id comes into use, no request becomes accepted, no transport revives. *)
Calm ==
  /\ \A id \in Ids : NotYetUsed(id)' => NotYetUsed(id)
  /\ \A id \in ReqIds : outcome'[id] = "waiting" => outcome[id] = "waiting"
  /\ alive' => alive

(* The step takes the requests of S from their owners and answers each once; *)
(* all others keep their owner, or the transport is dead.                    *)
Moves(S) ==
  /\ Calm
  /\ S \subseteq Owned /\ Owned' \subseteq Owned \ S
  /\ \A id \in Ids : id \in Owned \ S => id \in Owned' \/ ~alive'
  /\ \A id \in Ids : IF id \in S THEN Len(replies'[id]) = Len(replies[id]) + 1
                                 ELSE replies'[id] = replies[id]

-----------------------------------------------------------------------------
(* The owners, in plain sets. *)

LEMMA SenderIsOwner ==
  ASSUME NEW id \in ReqIds
  PROVE  HasSender(id) <=> id \in Owned
BY Domains DEF HasSender, Owned, Queued, InHand, NoRequest

LEMMA SenderIsOwnerNext ==
  ASSUME NEW id \in ReqIds
  PROVE  HasSender(id)' <=> id \in Owned'
BY Domains DEF HasSender, Owned, Queued, InHand, NoRequest

LEMMA EmptyIsShort ==
  ASSUME NEW s \in Seq(Results)
  PROVE  Len(s) \in Nat /\ (s = <<>> <=> Len(s) = 0)
OBVIOUS

LEMMA MovesKeep ==
  ASSUME OwnershipInv, TypeOK', NEW S, Moves(S), OneOwner'
  PROVE  Kept'
<1> USE Domains DEF OwnershipInv
<1>1. \A id \in Ids : /\ replies[id] \in Seq(Results) /\ replies'[id] \in Seq(Results)
                      /\ Len(replies[id]) \in Nat /\ Len(replies'[id]) \in Nat
                      /\ (replies[id] = <<>> <=> Len(replies[id]) = 0)
                      /\ (replies'[id] = <<>> <=> Len(replies'[id]) = 0)
  BY EmptyIsShort DEF TypeOK
<1>2. OwnedIsEmpty'
  <2> SUFFICES ASSUME NEW id \in Ids, id \in Owned' PROVE replies'[id] = <<>>
    BY DEF OwnedIsEmpty
  <2>1. id \in Owned /\ id \notin S
    BY DEF Moves
  <2> QED BY <2>1 DEF Moves, OwnedIsEmpty
<1>3. UnusedIsNowhere'
  <2> SUFFICES ASSUME NEW id \in Ids, NotYetUsed(id)' PROVE id \notin Owned' /\ replies'[id] = <<>>
    BY DEF UnusedIsNowhere
  <2>1. id \notin Owned /\ replies[id] = <<>>
    BY DEF Moves, Calm, UnusedIsNowhere
  <2> QED BY <2>1 DEF Moves
<1>4. AnsweredOnce'
  <2> SUFFICES ASSUME NEW id \in Ids PROVE Len(replies'[id]) <= 1
    BY DEF AnsweredOnce
  <2>1. CASE id \in S
    <3>1. Len(replies[id]) = 0
      BY <2>1, <1>1 DEF Moves, OwnedIsEmpty
    <3>2. Len(replies'[id]) = Len(replies[id]) + 1
      BY <2>1 DEF Moves
    <3> QED BY <3>1, <3>2
  <2>2. CASE id \notin S
    <3>1. replies'[id] = replies[id]
      BY <2>2 DEF Moves
    <3> QED BY <3>1 DEF AnsweredOnce
  <2> QED BY <2>1, <2>2
<1>5. NoLostRequest'
  <2> SUFFICES ASSUME NEW id \in ReqIds, outcome'[id] = "waiting", replies'[id] = <<>>, alive'
               PROVE  id \in Owned'
    BY SenderIsOwnerNext DEF NoLostRequest
  <2>1. id \notin S
    <3> SUFFICES ASSUME id \in S PROVE FALSE
      OBVIOUS
    <3>1. Len(replies'[id]) = Len(replies[id]) + 1
      BY DEF Moves
    <3> QED BY <1>1, <3>1
  <2>2. outcome[id] = "waiting" /\ alive /\ replies[id] = <<>>
    BY <2>1 DEF Moves, Calm
  <2>3. id \in Owned
    BY <2>2, SenderIsOwner DEF NoLostRequest
  <2> QED BY <2>1, <2>3 DEF Moves
<1> QED BY <1>2, <1>3, <1>4, <1>5 DEF Kept

-----------------------------------------------------------------------------
(* What happens to the queue. *)

LEMMA QueueTail ==
  ASSUME TypeOK, QueuedOnce, commands # <<>>, commands' = Tail(commands)
  PROVE  /\ QueuedOnce' /\ Queued = Queued' \cup {Head(commands)}
         /\ Head(commands) # CloseCommand => Head(commands) \notin Queued'
         /\ Head(commands) \in ReqIds \cup {CloseCommand}
<1>1. commands \in Seq(ReqIds \cup {CloseCommand}) /\ Len(commands) \in Nat \ {0}
  BY DEF TypeOK
<1>2. DOMAIN commands = 1..Len(commands) /\ DOMAIN commands' = 1..(Len(commands) - 1)
  BY <1>1
<1>3. /\ \A i \in 1..(Len(commands) - 1) : commands'[i] = commands[i + 1]
      /\ Head(commands) = commands[1]
  BY <1>1
<1>4. QueuedOnce'
  <2> SUFFICES ASSUME NEW i \in 1..(Len(commands) - 1), NEW j \in 1..(Len(commands) - 1),
                      commands'[i] = commands'[j], commands'[i] # CloseCommand
               PROVE  i = j
    BY <1>2 DEF QueuedOnce, CloseCommand
  <2>1. commands[i + 1] = commands[j + 1] /\ commands[i + 1] # CloseCommand
    BY <1>3
  <2>2. i + 1 \in DOMAIN commands /\ j + 1 \in DOMAIN commands
    BY <1>1, <1>2
  <2>3. i + 1 = j + 1
    BY <2>1, <2>2 DEF QueuedOnce
  <2> QED BY <1>1, <2>3
<1>5. Queued = Queued' \cup {Head(commands)} /\ Head(commands) \in ReqIds \cup {CloseCommand}
  BY <1>1, TailSet DEF Queued
<1>6. ASSUME Head(commands) # CloseCommand, Head(commands) \in Queued' PROVE FALSE
  <2>1. PICK i \in 1..(Len(commands) - 1) : commands'[i] = Head(commands)
    BY <1>2, <1>6 DEF Queued, ToSet
  <2>2. i + 1 \in DOMAIN commands /\ 1 \in DOMAIN commands /\ commands[i + 1] = commands[1]
    BY <1>1, <1>2, <1>3, <2>1
  <2>3. i + 1 = 1
    BY <2>2, <1>3, <1>6 DEF QueuedOnce
  <2> QED BY <2>3
<1> QED BY <1>4, <1>5, <1>6

LEMMA QueueAppend ==
  ASSUME TypeOK, QueuedOnce, NEW e \in ReqIds \cup {CloseCommand}, commands' = Append(commands, e),
         e \notin Queued \/ e = CloseCommand
  PROVE  QueuedOnce' /\ Queued' = Queued \cup {e}
<1>1. commands \in Seq(ReqIds \cup {CloseCommand}) /\ Len(commands) \in Nat
  BY DEF TypeOK
<1>2. DOMAIN commands = 1..Len(commands) /\ DOMAIN commands' = 1..(Len(commands) + 1)
  BY <1>1
<1>3. commands'[Len(commands) + 1] = e /\ \A i \in 1..Len(commands) : commands'[i] = commands[i]
  BY <1>1
<1>4. \A i \in 1..Len(commands) : commands[i] \in Queued
  BY <1>2 DEF Queued, ToSet
<1>5. QueuedOnce'
  <2> SUFFICES ASSUME NEW i \in 1..(Len(commands) + 1), NEW j \in 1..(Len(commands) + 1),
                      commands'[i] = commands'[j], commands'[i] # CloseCommand
               PROVE  i = j
    BY <1>2 DEF QueuedOnce, CloseCommand
  <2>1. CASE i \in 1..Len(commands) /\ j \in 1..Len(commands)
    BY <2>1, <1>2, <1>3 DEF QueuedOnce
  <2>2. CASE i = Len(commands) + 1 \/ j = Len(commands) + 1
    BY <2>2, <1>1, <1>3, <1>4
  <2> QED BY <2>1, <2>2, <1>1
<1>6. Queued' = Queued \cup {e}
  BY <1>1, AppendSet DEF Queued
<1> QED BY <1>5, <1>6

-----------------------------------------------------------------------------
(* The kinds of step. *)

LEMMA Answered ==
  ASSUME TypeOK, NEW S, NEW result \in Results, Reply(S, result)
  PROVE  \A id \in Ids : IF id \in S THEN Len(replies'[id]) = Len(replies[id]) + 1
                                     ELSE replies'[id] = replies[id]
<1> SUFFICES ASSUME NEW id \in Ids
             PROVE  IF id \in S THEN Len(replies'[id]) = Len(replies[id]) + 1
                                ELSE replies'[id] = replies[id]
  OBVIOUS
<1>1. replies[id] \in Seq(Results)
  BY DEF TypeOK
<1>2. Len(Append(replies[id], result)) = Len(replies[id]) + 1
  BY <1>1
<1> QED BY <1>2 DEF Reply

(* Pending entries are removed and answered; nothing else is taken. *)
LEMMA PendingAnswered ==
  ASSUME OwnershipInv, TypeOK', Calm, commands' = commands, InHand' = InHand,
         NEW S \in SUBSET pending, pending' = pending \ S,
         NEW result \in Results, Reply(S, result)
  PROVE  Kept'
<1>1. OneOwner'
  BY DEF OwnershipInv, OneOwner, QueuedOnce, Queued
<1>2. Owned' = Owned \ S /\ S \subseteq Owned
  BY DEF Owned, Queued, OwnershipInv, OneOwner
<1>3. Moves(S)
  BY <1>2, Answered DEF Moves, OwnershipInv
<1> QED BY <1>1, <1>3, MovesKeep

(* Nothing of the kind happens. *)
LEMMA Quiet ==
  ASSUME OwnershipInv, TypeOK', Calm, commands' = commands, InHand' = InHand,
         pending' = pending, replies' = replies
  PROVE  Kept'
<1>1. OneOwner' /\ Owned' = Owned
  BY DEF OwnershipInv, OneOwner, QueuedOnce, Queued, Owned
<1>2. Moves({})
  BY <1>1 DEF Moves
<1> QED BY <1>1, <1>2, MovesKeep

-----------------------------------------------------------------------------

LEMMA InitKept == Init => Kept
<1> SUFFICES ASSUME Init PROVE Kept
  OBVIOUS
<1>1. Queued = {} /\ pending = {} /\ InHand = {} /\ \A id \in Ids : replies[id] = <<>>
  BY DEF Init, Queued, ToSet, InHand, Threads
<1>2. OneOwner /\ OwnedIsEmpty /\ UnusedIsNowhere
  BY <1>1 DEF Init, OneOwner, QueuedOnce, OwnedIsEmpty, UnusedIsNowhere, Owned
<1>3. AnsweredOnce
  BY <1>1 DEF AnsweredOnce
<1>4. NoLostRequest
  BY DEF Init, NoLostRequest
<1> QED BY <1>2, <1>3, <1>4 DEF Kept

LEMMA StepKept == OwnershipInv /\ TypeOK' /\ [Next]_vars => Kept'
<1> SUFFICES ASSUME OwnershipInv, TypeOK', [Next]_vars PROVE Kept'
  OBVIOUS
<1>0. /\ TypeOK /\ IdsAtHand /\ QueuedOnce /\ pc \in [Threads -> Places] /\ pending \subseteq Ids
      /\ Queued \subseteq ReqIds \cup {CloseCommand}
  BY DEF OwnershipInv, TypeOK, Queued, ToSet, OneOwner
<1>1. CASE ClientAllocate
  <2>1. Calm
    <3>1. nextId' = nextId + 1 /\ nextId \in Nat /\ alive' = alive
      BY <1>0, <1>1, TransportAssumption DEF ClientAllocate, shared, TypeOK
    <3>2. pc'["supervisor"] = pc["supervisor"]
      BY <1>0, <1>1 DEF ClientAllocate, Goto, Threads
    <3>3. \A id \in Ids : NotYetUsed(id)' => NotYetUsed(id)
      BY <3>1, <3>2, Domains DEF NotYetUsed, At
    <3>4. \A id \in ReqIds : outcome'[id] = "waiting" => outcome[id] = "waiting"
      BY <1>0, <1>1 DEF ClientAllocate, TypeOK
    <3> QED BY <3>1, <3>3, <3>4 DEF Calm
  <2>2. commands' = commands /\ InHand' = InHand /\ pending' = pending /\ replies' = replies
    BY <1>0, <1>1 DEF ClientAllocate, Goto, shared, channels, InHand, At, Threads
  <2> QED BY <2>1, <2>2, Quiet
<1>2. ASSUME NEW id \in ReqIds, ClientReceive(id) PROVE Kept'
  <2>1. Calm
    BY <1>0, <1>2 DEF ClientReceive, shared, channels, Calm, NotYetUsed, At, Threads, TypeOK
  <2>2. commands' = commands /\ InHand' = InHand /\ pending' = pending /\ replies' = replies
    BY <1>0, <1>2 DEF ClientReceive, shared, channels, InHand, At, Threads
  <2> QED BY <2>1, <2>2, Quiet
<1>3. ASSUME NEW id \in ReqIds, ClientGiveUp(id) PROVE Kept'
  <2>1. Calm
    BY <1>0, <1>3 DEF ClientGiveUp, shared, channels, Calm, NotYetUsed, At, Threads, TypeOK
  <2>2. commands' = commands /\ InHand' = InHand /\ pending' = pending /\ replies' = replies
    BY <1>0, <1>3 DEF ClientGiveUp, shared, channels, InHand, At, Threads
  <2> QED BY <2>1, <2>2, Quiet
<1>4. CASE ClientClose
  <2>1. Calm
    BY <1>0, <1>4 DEF ClientClose, Goto, shared, channels, clientVars, Calm, NotYetUsed, At, Threads
  <2>2. commands' = commands /\ InHand' = InHand /\ pending' = pending /\ replies' = replies
    BY <1>0, <1>4 DEF ClientClose, Goto, shared, channels, clientVars, InHand, At, Threads
  <2> QED BY <2>1, <2>2, Quiet
<1>5. CASE ClientCloseAnnounce
  <2>1. Calm
    BY <1>0, <1>5 DEF ClientCloseAnnounce, EmitClosed, Goto, channels, clientVars, Calm, NotYetUsed, At, Threads
  <2>2. commands' = commands /\ InHand' = InHand /\ pending' = pending /\ replies' = replies
    BY <1>0, <1>5 DEF ClientCloseAnnounce, EmitClosed, Goto, channels, clientVars, InHand, At, Threads
  <2> QED BY <2>1, <2>2, Quiet
<1>6. CASE ClientDrop
  <2>1. Calm
    BY <1>0, <1>6 DEF ClientDrop, Goto, shared, channels, clientVars, Calm, NotYetUsed, At, Threads
  <2>2. commands' = commands /\ InHand' = InHand /\ pending' = pending /\ replies' = replies
    BY <1>0, <1>6 DEF ClientDrop, Goto, shared, channels, clientVars, InHand, At, Threads
  <2> QED BY <2>1, <2>2, Quiet
<1>7. CASE SupervisorRegister
  <2>1. Calm
    BY <1>0, <1>7 DEF SupervisorRegister, Goto, channels, clientVars, Calm, NotYetUsed, At, Threads
  <2>2. commands' = commands /\ InHand' = InHand /\ pending' = pending /\ replies' = replies
    BY <1>0, <1>7 DEF SupervisorRegister, Goto, channels, clientVars, InHand, At, Threads
  <2> QED BY <2>1, <2>2, Quiet
<1>8. CASE SupervisorSendInitialize
  <2>1. Calm
    BY <1>0, <1>8 DEF SupervisorSendInitialize, SupervisorWrite, Goto, shared, clientVars, Calm, NotYetUsed, At, Threads
  <2>2. commands' = commands /\ InHand' = InHand /\ pending' = pending /\ replies' = replies
    BY <1>0, <1>8 DEF SupervisorSendInitialize, SupervisorWrite, Goto, shared, clientVars, InHand, At, Threads
  <2> QED BY <2>1, <2>2, Quiet
<1>9. CASE SupervisorAwaitInitialize
  <2>1. Calm
    BY <1>0, <1>9 DEF SupervisorAwaitInitialize, Goto, shared, channels, clientVars, Calm, NotYetUsed, At, Threads
  <2>2. commands' = commands /\ InHand' = InHand /\ pending' = pending /\ replies' = replies
    BY <1>0, <1>9 DEF SupervisorAwaitInitialize, Goto, shared, channels, clientVars, InHand, At, Threads
  <2> QED BY <2>1, <2>2, Quiet
<1>10. CASE SupervisorSendInitialized
  <2>1. Calm
    BY <1>0, <1>10 DEF SupervisorSendInitialized, SupervisorWrite, Goto, shared, clientVars, Calm, NotYetUsed, At, Threads
  <2>2. commands' = commands /\ InHand' = InHand /\ pending' = pending /\ replies' = replies
    BY <1>0, <1>10 DEF SupervisorSendInitialized, SupervisorWrite, Goto, shared, clientVars, InHand, At, Threads
  <2> QED BY <2>1, <2>2, Quiet
<1>11. CASE SupervisorMarkReady
  <2>1. Calm
    BY <1>0, <1>11 DEF SupervisorMarkReady, Goto, channels, clientVars, Calm, NotYetUsed, At, Threads
  <2>2. commands' = commands /\ InHand' = InHand /\ pending' = pending /\ replies' = replies
    BY <1>0, <1>11 DEF SupervisorMarkReady, Goto, channels, clientVars, InHand, At, Threads
  <2> QED BY <2>1, <2>2, Quiet
<1>12. CASE SupervisorEmitReady
  <2>1. Calm
    BY <1>0, <1>12 DEF SupervisorEmitReady, Goto, shared, channels, clientVars, Calm, NotYetUsed, At, Threads
  <2>2. commands' = commands /\ InHand' = InHand /\ pending' = pending /\ replies' = replies
    BY <1>0, <1>12 DEF SupervisorEmitReady, Goto, shared, channels, clientVars, InHand, At, Threads
  <2> QED BY <2>1, <2>2, Quiet
<1>13. CASE SupervisorCheckAlive
  <2>1. Calm
    BY <1>0, <1>13 DEF SupervisorCheckAlive, Goto, shared, channels, clientVars, Calm, NotYetUsed, At, Threads
  <2>2. commands' = commands /\ InHand' = InHand /\ pending' = pending /\ replies' = replies
    BY <1>0, <1>13 DEF SupervisorCheckAlive, Goto, shared, channels, clientVars, InHand, At, Threads
  <2> QED BY <2>1, <2>2, Quiet
<1>14. CASE SupervisorAnnounce
  <2>1. Calm
    BY <1>0, <1>14 DEF SupervisorAnnounce, EmitClosed, Goto, channels, clientVars, Calm, NotYetUsed, At, Threads
  <2>2. commands' = commands /\ InHand' = InHand /\ pending' = pending /\ replies' = replies
    BY <1>0, <1>14 DEF SupervisorAnnounce, EmitClosed, Goto, channels, clientVars, InHand, At, Threads
  <2> QED BY <2>1, <2>2, Quiet
<1>15. CASE ReaderWait
  <2>1. Calm
    BY <1>0, <1>15 DEF ReaderWait, Goto, shared, channels, clientVars, Calm, NotYetUsed, At, Threads
  <2>2. commands' = commands /\ InHand' = InHand /\ pending' = pending /\ replies' = replies
    BY <1>0, <1>15 DEF ReaderWait, Goto, shared, channels, clientVars, InHand, At, Threads
  <2> QED BY <2>1, <2>2, Quiet
<1>16. CASE ReaderEnd
  <2>1. Calm
    BY <1>0, <1>16 DEF ReaderEnd, TerminateSwap, Goto, channels, clientVars, Calm, NotYetUsed, At, Threads
  <2>2. commands' = commands /\ InHand' = InHand /\ pending' = pending /\ replies' = replies
    BY <1>0, <1>16 DEF ReaderEnd, TerminateSwap, Goto, channels, clientVars, InHand, At, Threads
  <2> QED BY <2>1, <2>2, Quiet
<1>17. CASE ReaderEmit
  <2>1. Calm
    BY <1>0, <1>17 DEF ReaderEmit, Goto, shared, channels, clientVars, Calm, NotYetUsed, At, Threads
  <2>2. commands' = commands /\ InHand' = InHand /\ pending' = pending /\ replies' = replies
    BY <1>0, <1>17 DEF ReaderEmit, Goto, shared, channels, clientVars, InHand, At, Threads
  <2> QED BY <2>1, <2>2, Quiet
<1>18. CASE WriterWrite
  <2>1. Calm
    BY <1>0, <1>18 DEF WriterWrite, shared, clientVars, Calm, NotYetUsed, At, Threads
  <2>2. commands' = commands /\ InHand' = InHand /\ pending' = pending /\ replies' = replies
    BY <1>0, <1>18 DEF WriterWrite, shared, clientVars, InHand, At, Threads
  <2> QED BY <2>1, <2>2, Quiet
<1>19. CASE WriterFail
  <2>1. Calm
    BY <1>0, <1>19 DEF WriterFail, TerminateSwap, Goto, channels, clientVars, Calm, NotYetUsed, At, Threads
  <2>2. commands' = commands /\ InHand' = InHand /\ pending' = pending /\ replies' = replies
    BY <1>0, <1>19 DEF WriterFail, TerminateSwap, Goto, channels, clientVars, InHand, At, Threads
  <2> QED BY <2>1, <2>2, Quiet
<1>20. CASE WriterEmit
  <2>1. Calm
    BY <1>0, <1>20 DEF WriterEmit, Goto, shared, channels, clientVars, Calm, NotYetUsed, At, Threads
  <2>2. commands' = commands /\ InHand' = InHand /\ pending' = pending /\ replies' = replies
    BY <1>0, <1>20 DEF WriterEmit, Goto, shared, channels, clientVars, InHand, At, Threads
  <2> QED BY <2>1, <2>2, Quiet
<1>21. CASE WriterExit
  <2>1. Calm
    BY <1>0, <1>21 DEF WriterExit, Goto, shared, clientVars, Calm, NotYetUsed, At, Threads
  <2>2. commands' = commands /\ InHand' = InHand /\ pending' = pending /\ replies' = replies
    BY <1>0, <1>21 DEF WriterExit, Goto, shared, clientVars, InHand, At, Threads
  <2> QED BY <2>1, <2>2, Quiet
<1>22. CASE ServerSend
  <2>1. Calm
    BY <1>0, <1>22 DEF ServerSend, shared, channels, clientVars, Calm, NotYetUsed, At, Threads
  <2>2. commands' = commands /\ InHand' = InHand /\ pending' = pending /\ replies' = replies
    BY <1>0, <1>22 DEF ServerSend, shared, channels, clientVars, InHand, At, Threads
  <2> QED BY <2>1, <2>2, Quiet
<1>23. CASE ServerExit
  <2>1. Calm
    BY <1>0, <1>23 DEF ServerExit, shared, channels, clientVars, Calm, NotYetUsed, At, Threads
  <2>2. commands' = commands /\ InHand' = InHand /\ pending' = pending /\ replies' = replies
    BY <1>0, <1>23 DEF ServerExit, shared, channels, clientVars, InHand, At, Threads
  <2> QED BY <2>1, <2>2, Quiet
<1>24. CASE UNCHANGED vars
  BY <1>0, <1>24, Quiet DEF vars, shared, channels, clientVars, InHand, Calm, NotYetUsed, At, Threads
<1>26. CASE ReaderDrain
  <2>1. Calm
    BY <1>0, <1>26 DEF ReaderDrain, TerminateDrain, Goto, channels, clientVars, Calm, NotYetUsed, At, Threads
  <2>2. commands' = commands /\ InHand' = InHand /\ pending' = pending \ pending /\ Reply(pending, "closed")
    BY <1>0, <1>26 DEF ReaderDrain, TerminateDrain, Goto, channels, clientVars, InHand, At, Threads
  <2> QED BY <2>1, <2>2, PendingAnswered, Domains
<1>27. CASE WriterDrain
  <2>1. Calm
    BY <1>0, <1>27 DEF WriterDrain, TerminateDrain, Goto, channels, clientVars, Calm, NotYetUsed, At, Threads
  <2>2. commands' = commands /\ InHand' = InHand /\ pending' = pending \ pending /\ Reply(pending, "closed")
    BY <1>0, <1>27 DEF WriterDrain, TerminateDrain, Goto, channels, clientVars, InHand, At, Threads
  <2> QED BY <2>1, <2>2, PendingAnswered, Domains
<1>28. CASE SupervisorStartupTerminate
  <2>1. Calm
    BY <1>0, <1>28 DEF SupervisorStartupTerminate, TerminateSwap, TerminateDrain, Goto, channels, clientVars, Calm, NotYetUsed, At, Threads
  <2>2. commands' = commands /\ InHand' = InHand
    BY <1>0, <1>28 DEF SupervisorStartupTerminate, TerminateSwap, TerminateDrain, Goto, channels, clientVars, InHand, At, Threads
  <2>3. \/ pending' = pending /\ replies' = replies
        \/ pending' = pending \ pending /\ Reply(pending, "closed")
    BY <1>28 DEF SupervisorStartupTerminate, TerminateSwap, TerminateDrain, Goto, channels, clientVars
  <2> QED BY <2>1, <2>2, <2>3, Quiet, PendingAnswered, Domains
<1>29. CASE SupervisorSendFailed
  <2>1. Calm
    BY <1>0, <1>29 DEF SupervisorSendFailed, TerminateSwap, TerminateDrain, Goto, channels, clientVars, Calm, NotYetUsed, At, Threads
  <2>2. commands' = commands /\ InHand' = InHand
    BY <1>0, <1>29 DEF SupervisorSendFailed, TerminateSwap, TerminateDrain, Goto, channels, clientVars, InHand, At, Threads
  <2>3. \/ pending' = pending /\ replies' = replies
        \/ pending' = pending \ pending /\ Reply(pending, "closed")
    BY <1>29 DEF SupervisorSendFailed, TerminateSwap, TerminateDrain, Goto, channels, clientVars
  <2> QED BY <2>1, <2>2, <2>3, Quiet, PendingAnswered, Domains
<1>30. CASE SupervisorClosing
  <2>1. Calm
    BY <1>0, <1>30 DEF SupervisorClosing, TerminateSwap, TerminateDrain, Goto, channels, clientVars, Calm, NotYetUsed, At, Threads
  <2>2. commands' = commands /\ InHand' = InHand
    BY <1>0, <1>30 DEF SupervisorClosing, TerminateSwap, TerminateDrain, Goto, channels, clientVars, InHand, At, Threads
  <2>3. \/ pending' = pending /\ replies' = replies
        \/ pending' = pending \ pending /\ Reply(pending, "closed")
    BY <1>30 DEF SupervisorClosing, TerminateSwap, TerminateDrain, Goto, channels, clientVars
  <2> QED BY <2>1, <2>2, <2>3, Quiet, PendingAnswered, Domains
<1>31. CASE ClientSubmit
  <2> DEFINE new == nextId - 1
  <2>1. new \in ReqIds /\ NotYetUsed(new)
    BY <1>31, <1>0 DEF ClientSubmit, IdsAtHand, NotYetUsed
  <2>2. new \notin Owned /\ replies[new] = <<>>
    BY <2>1, Domains DEF OwnershipInv, UnusedIsNowhere
  <2>3. /\ pending' = pending /\ InHand' = InHand /\ replies' = replies /\ alive' = alive
        /\ \A id \in ReqIds \ {new} : outcome'[id] = outcome[id]
        /\ \A id \in Ids : NotYetUsed(id)' => NotYetUsed(id)
        /\ \A id \in Ids : NotYetUsed(id)' => id # new
    <3>1. nextId' = nextId /\ pending' = pending /\ replies' = replies /\ alive' = alive
      BY <1>31 DEF ClientSubmit, shared
    <3>2. pc' = [pc EXCEPT !["client"] = "idle"] /\ held' = held
      BY <1>31 DEF ClientSubmit, Goto
    <3>3. InHand' = InHand
      BY <1>0, <1>31, <3>2 DEF ClientSubmit, InHand, At, Threads
    <3>4. \A id \in ReqIds \ {new} : outcome'[id] = outcome[id]
      BY <1>31, <1>0 DEF ClientSubmit, TypeOK
    <3>5. /\ pc["client"] = "submit" /\ pc'["client"] = "idle"
          /\ pc'["supervisor"] = pc["supervisor"]
      BY <1>0, <1>31, <3>2 DEF ClientSubmit, At, Threads
    <3>6. \A id \in Ids : (NotYetUsed(id)' => NotYetUsed(id)) /\ (NotYetUsed(id)' => id # new)
      BY <1>0, <2>1, <3>1, <3>5, Domains DEF NotYetUsed, At, TypeOK
    <3> QED BY <3>1, <3>3, <3>4, <3>6
  <2>4. CASE commands' = commands /\ (outcome'[new] = "waiting" => outcome[new] = "waiting")
    <3>1. commands' = commands /\ (outcome'[new] = "waiting" => outcome[new] = "waiting")
      BY <2>4
    <3>2. Calm
      BY <2>3, <3>1 DEF Calm
    <3> QED BY <2>3, <3>1, <3>2, Quiet
  <2>5. CASE commands' = Append(commands, new)
    <3>1. commands' = Append(commands, new)
      BY <2>5
    <3>2. QueuedOnce' /\ Queued' = Queued \cup {new}
      BY <3>1, <2>1, <2>2, <1>0, QueueAppend DEF Owned
    <3>3. OneOwner' /\ Owned' = Owned \cup {new}
      BY <3>2, <2>2, <2>3 DEF OneOwner, Owned, OwnershipInv
    <3>4. OwnedIsEmpty' /\ UnusedIsNowhere' /\ AnsweredOnce'
      BY <3>3, <2>2, <2>3 DEF OwnedIsEmpty, UnusedIsNowhere, AnsweredOnce, OwnershipInv
    <3>5. NoLostRequest'
      BY <3>3, <2>3, SenderIsOwner, SenderIsOwnerNext DEF NoLostRequest, OwnershipInv
    <3> QED BY <3>3, <3>4, <3>5 DEF Kept
  <2>6. \/ commands' = commands /\ (outcome'[new] = "waiting" => outcome[new] = "waiting")
        \/ commands' = Append(commands, new)
    BY <1>31, <2>1, <1>0 DEF ClientSubmit, TypeOK
  <2> QED BY <2>4, <2>5, <2>6
<1>32. CASE ClientCloseSend
  <2>1. Calm
    BY <1>0, <1>32 DEF ClientCloseSend, TerminateSwap, Goto, shared, clientVars, Calm, NotYetUsed, At, Threads
  <2>2. CASE ~commandOpen
    <3>1. commands' = commands /\ InHand' = InHand /\ pending' = pending /\ replies' = replies
      BY <1>0, <1>32, <2>2 DEF ClientCloseSend, TerminateSwap, Goto, shared, clientVars, InHand, At, Threads
    <3> QED BY <2>1, <3>1, Quiet
  <2>3. CASE commandOpen
    <3>1. /\ commands' = Append(commands, CloseCommand)
          /\ InHand' = InHand /\ pending' = pending /\ replies' = replies
      BY <1>0, <1>32, <2>3 DEF ClientCloseSend, TerminateSwap, Goto, shared, clientVars, InHand, At, Threads
    <3>2. QueuedOnce' /\ Queued' = Queued \cup {CloseCommand}
      BY <3>1, <1>0, QueueAppend
    <3>3. CloseCommand \notin InHand
      BY <1>0, Domains DEF InHand, IdsAtHand
    <3>4. OneOwner' /\ Owned' = Owned \cup {CloseCommand}
      BY <3>1, <3>2, <3>3, <1>0, Domains DEF OneOwner, Owned, OwnershipInv
    <3>5. OwnedIsEmpty' /\ UnusedIsNowhere' /\ AnsweredOnce'
      BY <3>1, <3>4, <2>1, Domains DEF OwnedIsEmpty, UnusedIsNowhere, AnsweredOnce, OwnershipInv, Calm
    <3>6. NoLostRequest'
      BY <3>1, <3>4, <2>1, SenderIsOwner, SenderIsOwnerNext DEF NoLostRequest, OwnershipInv, Calm
    <3> QED BY <3>4, <3>5, <3>6 DEF Kept
  <2> QED BY <2>2, <2>3
<1>33. CASE SupervisorInsertInitialize
  <2>1. Calm
    BY <1>0, <1>33 DEF SupervisorInsertInitialize, Goto, channels, clientVars, Calm, NotYetUsed, At, Threads
  <2>2. /\ commands' = commands /\ InHand' = InHand /\ pending' = pending \cup {InitializeId}
        /\ replies' = replies /\ ~NotYetUsed(InitializeId)'
    <3>1. /\ nextId' = nextId /\ nextId \in Nat /\ nextId >= 2
          /\ pc'["client"] = pc["client"] /\ pc'["supervisor"] = "register"
      BY <1>0, <1>33, TransportAssumption DEF SupervisorInsertInitialize, Goto, clientVars, Threads, TypeOK
    <3>2. ~NotYetUsed(InitializeId)'
      BY <1>0, <3>1 DEF NotYetUsed, At, InitializeId, IdsAtHand, ReqIds
    <3>3. commands' = commands /\ InHand' = InHand /\ pending' = pending \cup {InitializeId} /\ replies' = replies
      BY <1>33, <3>1 DEF SupervisorInsertInitialize, channels, InHand, At
    <3> QED BY <3>2, <3>3
  <2>3. NotYetUsed(InitializeId)
    BY <1>33 DEF SupervisorInsertInitialize, NotYetUsed
  <2>4. InitializeId \notin Owned /\ replies[InitializeId] = <<>>
    BY <2>3, Domains DEF UnusedIsNowhere, OwnershipInv
  <2>5. OneOwner' /\ Owned' = Owned \cup {InitializeId}
    BY <2>2, <2>4 DEF OneOwner, QueuedOnce, Owned, Queued, OwnershipInv
  <2>6. OwnedIsEmpty' /\ UnusedIsNowhere' /\ AnsweredOnce'
    BY <2>1, <2>2, <2>4, <2>5 DEF OwnedIsEmpty, UnusedIsNowhere, AnsweredOnce, OwnershipInv, Calm
  <2>7. NoLostRequest'
    BY <2>1, <2>2, <2>5, SenderIsOwner, SenderIsOwnerNext DEF NoLostRequest, OwnershipInv, Calm
  <2> QED BY <2>5, <2>6, <2>7 DEF Kept
<1>34. CASE SupervisorStartupFailed
  <2>1. Calm
    BY <1>0, <1>34 DEF SupervisorStartupFailed, FailPending, Goto, channels, clientVars, Calm, NotYetUsed, At, Threads
  <2>2. /\ commands' = commands /\ InHand' = InHand
        /\ pending' = pending \ (pending \cap {InitializeId})
        /\ Reply(pending \cap {InitializeId}, "closed")
    BY <1>0, <1>34 DEF SupervisorStartupFailed, FailPending, Goto, channels, clientVars, InHand, At, Threads
  <2> QED BY <2>1, <2>2, PendingAnswered, Domains
<1>35. CASE SupervisorReceive
  <2>1. Calm
    BY <1>0, <1>35 DEF SupervisorReceive, Goto, shared, clientVars, Calm, NotYetUsed, At, Threads
  <2>2. InHand = {} /\ pending' = pending /\ replies' = replies
    BY <1>0, <1>35 DEF SupervisorReceive, Goto, shared, clientVars, InHand, At, Threads
  <2>3. CASE commands = <<>>
    <3>1. commands' = commands /\ InHand' = {}
      BY <1>0, <1>35, <2>3 DEF SupervisorReceive, Goto, shared, clientVars, InHand, At, Threads
    <3> QED BY <2>1, <2>2, <3>1, Quiet
  <2>4. CASE commands # <<>>
    <3>1. /\ commands' = Tail(commands)
          /\ InHand' = IF Head(commands) = CloseCommand THEN {} ELSE {Head(commands)}
      BY <1>0, <1>35, <2>4 DEF SupervisorReceive, Goto, shared, clientVars, InHand, At, Threads
    <3>2. /\ QueuedOnce' /\ Queued = Queued' \cup {Head(commands)}
          /\ Head(commands) # CloseCommand => Head(commands) \notin Queued'
      BY <3>1, <2>4, <1>0, QueueTail
    <3>3. OneOwner'
      BY <3>1, <3>2, <2>2 DEF OneOwner, OwnershipInv
    <3>4. Owned' \subseteq Owned /\ Owned \subseteq Owned' \cup {CloseCommand}
      BY <3>1, <3>2, <2>2 DEF Owned
    <3>5. Moves({})
      BY <3>4, <2>1, <2>2, Domains DEF Moves
    <3> QED BY <3>3, <3>5, MovesKeep
  <2> QED BY <2>3, <2>4
<1>36. CASE SupervisorCheckRequest
  <2>1. Calm
    BY <1>0, <1>36 DEF SupervisorCheckRequest, Goto, shared, channels, clientVars, Calm, NotYetUsed, At, Threads
  <2>2. commands' = commands /\ pending' = pending
    BY <1>36 DEF SupervisorCheckRequest, Goto, shared, channels, clientVars
  <2>3. CASE alive
    <3>1. InHand' = InHand /\ replies' = replies
      BY <1>0, <1>36, <2>3 DEF SupervisorCheckRequest, Goto, shared, channels, clientVars, InHand, At, Threads
    <3> QED BY <2>1, <2>2, <3>1, Quiet
  <2>4. CASE ~alive
    <3>1. InHand = {held} /\ InHand' = {} /\ Reply({held}, "closed")
      BY <1>0, <1>36, <2>4 DEF SupervisorCheckRequest, Goto, shared, channels, clientVars, InHand, At, Threads
    <3>2. OneOwner'
      BY <2>2, <3>1 DEF OneOwner, QueuedOnce, Queued, OwnershipInv
    <3>3. {held} \subseteq Owned /\ Owned' = Owned \ {held}
      BY <2>2, <3>1 DEF Owned, Queued, OneOwner, OwnershipInv
    <3>4. Moves({held})
      BY <1>0, <2>1, <3>1, <3>3, Answered, Domains DEF Moves
    <3> QED BY <3>2, <3>4, MovesKeep
  <2> QED BY <2>3, <2>4
<1>37. CASE SupervisorInsert
  <2>1. Calm
    BY <1>0, <1>37 DEF SupervisorInsert, Goto, channels, clientVars, Calm, NotYetUsed, At, Threads
  <2>2. /\ commands' = commands /\ pending' = pending \cup {held} /\ replies' = replies
        /\ InHand = {held} /\ InHand' = {}
    BY <1>0, <1>37 DEF SupervisorInsert, Goto, channels, clientVars, InHand, At, Threads
  <2>3. OneOwner' /\ Owned' = Owned
    BY <2>2 DEF OneOwner, QueuedOnce, Queued, Owned, OwnershipInv
  <2>4. Moves({})
    BY <2>1, <2>2, <2>3 DEF Moves
  <2> QED BY <2>3, <2>4, MovesKeep
<1>38. CASE SupervisorSend
  <2>1. Calm
    BY <1>0, <1>38 DEF SupervisorSend, FailPending, Goto, clientVars, Calm, NotYetUsed, At, Threads
  <2>2. commands' = commands /\ InHand' = InHand
    BY <1>0, <1>38 DEF SupervisorSend, FailPending, Goto, clientVars, InHand, At, Threads
  <2>3. \/ pending' = pending /\ replies' = replies
        \/ pending' = pending \ (pending \cap {held}) /\ Reply(pending \cap {held}, "closed")
    BY <1>38 DEF SupervisorSend, FailPending, Goto, clientVars
  <2> QED BY <2>1, <2>2, <2>3, Quiet, PendingAnswered, Domains
<1>39. CASE SupervisorDrainCommands
  <2>1. Calm
    BY <1>0, <1>39 DEF SupervisorDrainCommands, Goto, shared, clientVars, Calm, NotYetUsed, At, Threads
  <2>2. InHand = {} /\ InHand' = {} /\ pending' = pending
    BY <1>0, <1>39 DEF SupervisorDrainCommands, Goto, shared, clientVars, InHand, At, Threads
  <2>3. CASE commands = <<>>
    BY <1>39, <2>1, <2>2, <2>3, Quiet DEF SupervisorDrainCommands
  <2>4. CASE commands # <<>>
    <3> DEFINE S == {Head(commands)} \cap Ids
    <3>1. commands' = Tail(commands) /\ Reply(S, "closed")
      BY <1>39, <2>4 DEF SupervisorDrainCommands
    <3>2. /\ QueuedOnce' /\ Queued = Queued' \cup {Head(commands)}
          /\ Head(commands) # CloseCommand => Head(commands) \notin Queued'
          /\ Head(commands) \in ReqIds \cup {CloseCommand}
      BY <3>1, <2>4, <1>0, QueueTail
    <3>3. OneOwner'
      BY <3>2, <2>2 DEF OneOwner, OwnershipInv
    <3>4. Head(commands) # CloseCommand => Head(commands) \notin pending
      BY <3>2 DEF OneOwner, OwnershipInv
    <3>5. S \subseteq Owned /\ Owned' \subseteq Owned \ S /\ Owned \subseteq Owned' \cup S \cup {CloseCommand}
      BY <3>2, <3>4, <2>2, Domains DEF Owned
    <3>6. Moves(S)
      <4>1. \A id \in Ids : IF id \in S THEN Len(replies'[id]) = Len(replies[id]) + 1
                                     ELSE replies'[id] = replies[id]
        BY <3>1, <1>0, Answered, Domains
      <4> QED BY <4>1, <3>5, <2>1, Domains DEF Moves
    <3> QED BY <3>3, <3>6, MovesKeep
  <2> QED BY <2>3, <2>4
<1>40. CASE SupervisorExit
  <2>1. Calm
    BY <1>0, <1>40 DEF SupervisorExit, Goto, shared, clientVars, Calm, NotYetUsed, At, Threads
  <2>2. /\ commands' = <<>> /\ pending' = pending /\ replies' = replies
        /\ InHand = {} /\ InHand' = {} /\ ~alive'
    BY <1>0, <1>40 DEF SupervisorExit, Goto, shared, clientVars, InHand, At, Threads, OwnershipInv, GoneImpliesDead, SupervisorGone
  <2>3. Queued' = {} /\ QueuedOnce'
    BY <2>2 DEF Queued, QueuedOnce, ToSet
  <2>4. OneOwner' /\ Owned' \subseteq Owned
    BY <2>2, <2>3 DEF OneOwner, Owned
  <2>5. Moves({})
    BY <2>1, <2>2, <2>4 DEF Moves
  <2> QED BY <2>4, <2>5, MovesKeep
<1>41. CASE ReaderRead
  <2>1. Calm
    BY <1>0, <1>41 DEF ReaderRead, FailPending, channels, clientVars, Calm, NotYetUsed, At, Threads
  <2>2. commands' = commands /\ InHand' = InHand
    BY <1>41 DEF ReaderRead, FailPending, channels, clientVars, InHand
  <2>3. CASE Head(inbox).id \in pending
    <3>1. Head(inbox).kind \in Results
      BY <1>41, <1>0, HeadFrame, Domains DEF ReaderRead
    <3>2. /\ pending' = pending \ (pending \cap {Head(inbox).id})
          /\ Reply(pending \cap {Head(inbox).id}, Head(inbox).kind)
      BY <1>41, <2>3 DEF ReaderRead, FailPending
    <3> QED BY <2>1, <2>2, <3>1, <3>2, PendingAnswered
  <2>4. CASE Head(inbox).id \notin pending
    BY <1>41, <2>1, <2>2, <2>4, Quiet DEF ReaderRead
  <2> QED BY <2>3, <2>4
<1>42. ASSUME NEW expired \in SUBSET pending, TimerScan(expired) PROVE Kept'
  <2>1. Calm
    BY <1>0, <1>42 DEF TimerScan, Goto, channels, clientVars, Calm, NotYetUsed, At, Threads
  <2>2. /\ commands' = commands /\ InHand' = InHand /\ pending' = pending \ expired
        /\ Reply(expired, "timeout")
    BY <1>0, <1>42 DEF TimerScan, Goto, channels, clientVars, InHand, At, Threads
  <2> QED BY <2>1, <2>2, PendingAnswered, Domains
<1> QED
  BY <1>1, <1>2, <1>3, <1>4, <1>5, <1>6, <1>7, <1>8, <1>9, <1>10, <1>11, <1>12, <1>13, <1>14, <1>15, <1>16, <1>17, <1>18, <1>19, <1>20, <1>21, <1>22, <1>23, <1>24, <1>26, <1>27, <1>28, <1>29, <1>30, <1>31, <1>32, <1>33, <1>34, <1>35, <1>36, <1>37, <1>38, <1>39, <1>40, <1>41, <1>42 DEF Next, Client, ClientStep, Supervisor, Reader, Writer, Timer, Server

LEMMA Inductive ==
  /\ Init => OwnershipInv
  /\ OwnershipInv /\ [Next]_vars => OwnershipInv'
<1>1. Init => OwnershipInv
  BY InitTypes, InitPlaces, InitKept DEF OwnershipInv, Kept
<1>2. ASSUME OwnershipInv, [Next]_vars PROVE OwnershipInv'
  <2>1. TypeOK' /\ IdsAtHand' /\ GoneImpliesDead'
    BY <1>2, StepTypes, StepPlaces DEF OwnershipInv
  <2>2. Kept'
    BY <1>2, <2>1, StepKept
  <2> QED BY <2>1, <2>2 DEF OwnershipInv, Kept
<1> QED BY <1>1, <1>2

(* A request is answered at most once, whichever of the reader, the timer,   *)
(* the drain of terminate, fail_pending and drain_commands gets to it first  *)
(* (transport.rs:266-302, 538-550, 695-703, 715).                            *)
THEOREM AnswersAtMostOnce == Spec => []AnsweredOnce
<1>1. OwnershipInv => AnsweredOnce
  BY DEF OwnershipInv
<1> QED BY <1>1, Inductive, PTL DEF Spec

(* An accepted request keeps a sender for its reply channel until it is      *)
(* answered, so recv cannot find the channel disconnected while the          *)
(* transport lives (transport.rs:218-230, 459-468, 654-675).                 *)
THEOREM RequestsNeverLost == Spec => []NoLostRequest
<1>1. OwnershipInv => NoLostRequest
  BY DEF OwnershipInv
<1> QED BY <1>1, Inductive, PTL DEF Spec

-----------------------------------------------------------------------------
(* 3. The contract and the end. *)

(* What a reply may say: the server's answer to that request, a timeout, or  *)
(* the end of the transport once it is over.                                 *)
Told(id, result) ==
  \/ result = "timeout"
  \/ result = "closed" /\ (~alive \/ id = InitializeId)
  \/ result \in {"ok", "error"} /\ <<id, result>> \in answered
RepliesTold == \A id \in Ids : \A i \in DOMAIN replies[id] : Told(id, replies[id][i])
InboxTold   == \A i \in DOMAIN inbox : <<inbox[i].id, inbox[i].kind>> \in answered

(* Whoever is past the end of the transport has seen it, and its two queues  *)
(* are closed behind it.                                                     *)
EndSeen ==
  /\ pc["reader"] \in {"drain", "emit"} => ~alive
  /\ pc["writer"] \in {"drain", "emit", "exit", "done"} => ~alive
  /\ outboundOpen \/ ~alive
  /\ commandOpen \/ ~alive

OutcomesTold ==
  /\ \A id \in ReqIds : id >= nextId \/ (id = nextId - 1 /\ At("client", "submit")) => outcome[id] = "none"
  /\ alive => \A id \in ReqIds : outcome[id] \notin {"closed", "rejected"}

Heard(id) == id \in pending \/ replies[id] # <<>>
HeardBeforeSent ==
  /\ \A id \in ReqIds : id \in received \/ id \in ToSet(outbound) => Heard(id)
  /\ At("supervisor", "send") => Heard(held)

(* The thread that won the end of the transport has yet to report it.        *)
Reporting(t) == IF pc[t] \in {"drain", "emit"} THEN 1 ELSE 0
Reports == Occurrences({"Eof", "IoError"}) + Reporting("reader") + Reporting("writer")
ReportsCounted ==
  /\ Occurrences({"Closed"}) = IF closedSent THEN 1 ELSE 0
  /\ Reports <= 1 /\ (alive => Reports = 0)

ContractInv ==
  /\ OwnershipInv /\ RepliesTold /\ InboxTold /\ EndSeen /\ OutcomesTold /\ HeardBeforeSent /\ ReportsCounted

-----------------------------------------------------------------------------
(* Which thread moves where, and that the transport ends once. *)

LEMMA ThreadsApart ==
  ASSUME TypeOK, [Next]_vars
  PROVE  /\ alive' => alive
         /\ Client \/ Timer \/ Server \/ vars' = vars =>
              pc'["reader"] = pc["reader"] /\ pc'["writer"] = pc["writer"] /\ pc'["supervisor"] = pc["supervisor"]
         /\ Supervisor => pc'["reader"] = pc["reader"] /\ pc'["writer"] = pc["writer"] /\ pc'["client"] = pc["client"]
         /\ Reader => pc'["writer"] = pc["writer"] /\ pc'["supervisor"] = pc["supervisor"] /\ pc'["client"] = pc["client"]
         /\ Writer => pc'["reader"] = pc["reader"] /\ pc'["supervisor"] = pc["supervisor"] /\ pc'["client"] = pc["client"]
<1> USE DEF At, Goto, shared, clientVars, channels, server, TypeOK, Threads, TerminateSwap, TerminateDrain
<1>1. alive' => alive
  BY DEF Next, Client, ClientStep, Supervisor, Reader, Writer, Timer, Server, vars,
         ClientAllocate, ClientSubmit, ClientReceive, ClientGiveUp, ClientClose, ClientCloseSend,
         ClientCloseAnnounce, ClientDrop, SupervisorInsertInitialize, SupervisorRegister, SupervisorWrite,
         SupervisorSendInitialize, SupervisorAwaitInitialize, SupervisorSendInitialized,
         SupervisorStartupFailed, SupervisorStartupTerminate, SupervisorMarkReady, SupervisorEmitReady,
         SupervisorCheckAlive, SupervisorReceive, SupervisorCheckRequest, SupervisorInsert, SupervisorSend,
         SupervisorSendFailed, SupervisorClosing, SupervisorAnnounce, SupervisorDrainCommands,
         SupervisorExit, ReaderWait, ReaderRead, ReaderEnd, ReaderDrain, ReaderEmit, WriterWrite, WriterFail,
         WriterDrain, WriterEmit, WriterExit, TimerScan, ServerSend, ServerExit
<1>2. Client \/ Timer \/ Server \/ vars' = vars =>
        pc'["reader"] = pc["reader"] /\ pc'["writer"] = pc["writer"] /\ pc'["supervisor"] = pc["supervisor"]
  BY DEF Client, ClientStep, Timer, Server, vars,
         ClientAllocate, ClientSubmit, ClientReceive, ClientGiveUp, ClientClose, ClientCloseSend,
         ClientCloseAnnounce, ClientDrop, TimerScan, ServerSend, ServerExit
<1>3. Supervisor => pc'["reader"] = pc["reader"] /\ pc'["writer"] = pc["writer"] /\ pc'["client"] = pc["client"]
  BY DEF Supervisor, SupervisorInsertInitialize, SupervisorRegister, SupervisorWrite,
         SupervisorSendInitialize, SupervisorAwaitInitialize, SupervisorSendInitialized,
         SupervisorStartupFailed, SupervisorStartupTerminate, SupervisorMarkReady, SupervisorEmitReady,
         SupervisorCheckAlive, SupervisorReceive, SupervisorCheckRequest, SupervisorInsert, SupervisorSend,
         SupervisorSendFailed, SupervisorClosing, SupervisorAnnounce, SupervisorDrainCommands, SupervisorExit
<1>4. Reader => pc'["writer"] = pc["writer"] /\ pc'["supervisor"] = pc["supervisor"] /\ pc'["client"] = pc["client"]
  BY DEF Reader, ReaderWait, ReaderRead, ReaderEnd, ReaderDrain, ReaderEmit
<1>5. Writer => pc'["reader"] = pc["reader"] /\ pc'["supervisor"] = pc["supervisor"] /\ pc'["client"] = pc["client"]
  BY DEF Writer, WriterWrite, WriterFail, WriterDrain, WriterEmit, WriterExit
<1> QED BY <1>1, <1>2, <1>3, <1>4, <1>5

LEMMA EndSeenStep ==
  ASSUME ContractInv, [Next]_vars
  PROVE  EndSeen'
<1>1. TypeOK /\ EndSeen /\ GoneImpliesDead /\ (alive' => alive)
  BY ThreadsApart DEF ContractInv, OwnershipInv
<1>2. CASE Client \/ Timer \/ Server \/ vars' = vars
  <2>1. pc'["reader"] = pc["reader"] /\ pc'["writer"] = pc["writer"]
    BY <1>1, <1>2, ThreadsApart
  <2>2. outboundOpen' = outboundOpen /\ commandOpen' = commandOpen
    BY <1>2 DEF Client, ClientStep, Timer, Server, vars, channels, shared,
         ClientAllocate, ClientSubmit, ClientReceive, ClientGiveUp, ClientClose, ClientCloseSend,
         ClientCloseAnnounce, ClientDrop, TimerScan, ServerSend, ServerExit
  <2> QED BY <1>1, <2>1, <2>2 DEF EndSeen
<1>3. CASE Supervisor
  <2>1. pc'["reader"] = pc["reader"] /\ pc'["writer"] = pc["writer"]
    BY <1>1, <1>3, ThreadsApart
  <2>2. outboundOpen' = outboundOpen /\ (commandOpen' = commandOpen \/ At("supervisor", "exit"))
    BY <1>3 DEF Supervisor, channels, SupervisorInsertInitialize, SupervisorRegister, SupervisorWrite,
         SupervisorSendInitialize, SupervisorAwaitInitialize, SupervisorSendInitialized,
         SupervisorStartupFailed, SupervisorStartupTerminate, SupervisorMarkReady, SupervisorEmitReady,
         SupervisorCheckAlive, SupervisorReceive, SupervisorCheckRequest, SupervisorInsert, SupervisorSend,
         SupervisorSendFailed, SupervisorClosing, SupervisorAnnounce, SupervisorDrainCommands, SupervisorExit
  <2>3. At("supervisor", "exit") => ~alive
    BY <1>1 DEF At, GoneImpliesDead, SupervisorGone
  <2> QED BY <1>1, <2>1, <2>2, <2>3 DEF EndSeen
<1>4. CASE Reader
  <2>1. pc'["writer"] = pc["writer"] /\ UNCHANGED <<outboundOpen, commandOpen>>
    BY <1>1, <1>4, ThreadsApart DEF Reader, ReaderWait, ReaderRead, ReaderEnd, ReaderDrain, ReaderEmit, channels
  <2>2. pc'["reader"] \in {"drain", "emit"} => ~alive'
    BY <1>1, <1>4 DEF Reader, ReaderWait, ReaderRead, ReaderEnd, ReaderDrain, ReaderEmit, TerminateSwap,
         TerminateDrain, Goto, At, TypeOK, Threads, EndSeen, shared
  <2> QED BY <1>1, <2>1, <2>2 DEF EndSeen
<1>5. CASE Writer
  <2>1. pc'["reader"] = pc["reader"] /\ commandOpen' = commandOpen
    BY <1>1, <1>5, ThreadsApart DEF Writer, WriterWrite, WriterFail, WriterDrain, WriterEmit, WriterExit, channels
  <2>2. pc'["writer"] \in {"drain", "emit", "exit", "done"} => ~alive'
    BY <1>1, <1>5 DEF Writer, WriterWrite, WriterFail, WriterDrain, WriterEmit, WriterExit, TerminateSwap,
         TerminateDrain, Goto, At, TypeOK, Threads, EndSeen, shared, GoneImpliesDead, SupervisorGone
  <2>3. outboundOpen' \/ ~alive'
    BY <1>1, <1>5, <2>2 DEF Writer, WriterWrite, WriterFail, WriterDrain, WriterEmit, WriterExit, Goto, TypeOK,
         Threads, EndSeen, channels
  <2> QED BY <1>1, <2>1, <2>2, <2>3 DEF EndSeen
<1> QED BY <1>2, <1>3, <1>4, <1>5 DEF Next

-----------------------------------------------------------------------------
(* Every step sends one message on the channels of a set of requests, none    *)
(* of them untrue, and forgets no request without sending it one.             *)

Speaks ==
  \E S \in SUBSET Ids, result \in Results :
    Reply(S, result) /\ pending \subseteq pending' \cup S /\ \A id \in S : Told(id, result)

LEMMA SaysNothing ==
  ASSUME TypeOK, replies' = replies, pending \subseteq pending'
  PROVE  Speaks
<1>1. Reply({}, "timeout") /\ {} \in SUBSET Ids /\ "timeout" \in Results
  BY Domains DEF Reply, TypeOK
<1> QED BY <1>1 DEF Speaks

LEMMA SaysClosed ==
  ASSUME NEW S \in SUBSET Ids, Reply(S, "closed"), pending \subseteq pending' \cup S,
         ~alive \/ S \subseteq {InitializeId}
  PROVE  Speaks
BY Domains DEF Speaks, Told

LEMMA DrainSays ==
  ASSUME TypeOK, ~alive, NEW t, NEW next, TerminateDrain(t, next)
  PROVE  Speaks
BY SaysClosed DEF TerminateDrain, TypeOK

LEMMA StepSpeaks ==
  ASSUME ContractInv, [Next]_vars
  PROVE  Speaks
<1> USE DEF shared, clientVars, channels, server
<1>0. /\ TypeOK /\ EndSeen /\ IdsAtHand /\ (pc["supervisor"] \in SupervisorGone => ~alive)
      /\ pending \subseteq Ids
  BY DEF ContractInv, OwnershipInv, GoneImpliesDead, TypeOK
<1>1. CASE Client \/ Server \/ vars' = vars
  <2>1. replies' = replies /\ pending' = pending
    BY <1>1 DEF Client, ClientStep, Server, vars, TerminateSwap,
         ClientAllocate, ClientSubmit, ClientReceive, ClientGiveUp, ClientClose, ClientCloseSend,
         ClientCloseAnnounce, ClientDrop, ServerSend, ServerExit
  <2> QED BY <1>0, <2>1, SaysNothing
<1>2. ASSUME NEW expired \in SUBSET pending, TimerScan(expired) PROVE Speaks
  BY <1>0, <1>2, Domains DEF TimerScan, Speaks, Told
<1>3. CASE ReaderRead
  <2>1. CASE Head(inbox).id \in pending
    <3>1. /\ inbox \in Seq(Frames) /\ inbox # <<>> /\ Reply(pending \cap {Head(inbox).id}, Head(inbox).kind)
          /\ pending' = pending \ {Head(inbox).id}
      BY <1>0, <1>3, <2>1 DEF ReaderRead, FailPending, TypeOK
    <3>2. 1 \in DOMAIN inbox /\ Head(inbox) = inbox[1] /\ Head(inbox).kind \in {"ok", "error"}
      BY <1>0, <3>1, HeadFrame
    <3>3. <<Head(inbox).id, Head(inbox).kind>> \in answered
      BY <3>2 DEF ContractInv, InboxTold
    <3>4. \A id \in pending \cap {Head(inbox).id} : Told(id, Head(inbox).kind)
      BY <3>2, <3>3 DEF Told
    <3> QED BY <1>0, <3>1, <3>2, <3>4, Domains DEF Speaks
  <2>2. CASE Head(inbox).id \notin pending
    BY <1>0, <1>3, <2>2, SaysNothing DEF ReaderRead
  <2> QED BY <2>1, <2>2
<1>4. CASE ReaderDrain
  BY <1>0, <1>4, DrainSays DEF ReaderDrain, At, EndSeen
<1>5. CASE WriterDrain
  BY <1>0, <1>5, DrainSays DEF WriterDrain, At, EndSeen
<1>6. CASE ReaderWait \/ ReaderEnd \/ ReaderEmit \/ WriterWrite \/ WriterFail \/ WriterEmit \/ WriterExit
  <2>1. replies' = replies /\ pending' = pending
    BY <1>6 DEF ReaderWait, ReaderEnd, ReaderEmit, WriterWrite, WriterFail, WriterEmit, WriterExit, TerminateSwap
  <2> QED BY <1>0, <2>1, SaysNothing
<1>7. CASE SupervisorStartupFailed
  BY <1>0, <1>7, SaysClosed DEF SupervisorStartupFailed, FailPending
<1>8. CASE SupervisorStartupTerminate
  <2>1. CASE TerminateSwap("supervisor", "startupDrain", "drain")
    BY <1>0, <2>1, SaysNothing DEF TerminateSwap
  <2>2. CASE At("supervisor", "startupDrain") /\ TerminateDrain("supervisor", "drain")
    BY <1>0, <2>2, DrainSays DEF At, SupervisorGone
  <2> QED BY <1>8, <2>1, <2>2 DEF SupervisorStartupTerminate
<1>9. CASE SupervisorSendFailed
  <2>1. CASE TerminateSwap("supervisor", "sendFailedDrain", "exit")
    BY <1>0, <2>1, SaysNothing DEF TerminateSwap
  <2>2. CASE At("supervisor", "sendFailedDrain") /\ TerminateDrain("supervisor", "exit")
    BY <1>0, <2>2, DrainSays DEF At, SupervisorGone
  <2> QED BY <1>9, <2>1, <2>2 DEF SupervisorSendFailed
<1>10. CASE SupervisorClosing
  <2>1. CASE TerminateSwap("supervisor", "closingDrain", "announce")
    BY <1>0, <2>1, SaysNothing DEF TerminateSwap
  <2>2. CASE At("supervisor", "closingDrain") /\ TerminateDrain("supervisor", "announce")
    BY <1>0, <2>2, DrainSays DEF At, SupervisorGone
  <2> QED BY <1>10, <2>1, <2>2 DEF SupervisorClosing
<1>11. CASE SupervisorCheckRequest
  <2>1. CASE alive
    BY <1>0, <1>11, <2>1, SaysNothing DEF SupervisorCheckRequest
  <2>2. CASE ~alive
    <3>1. held \in Ids /\ Reply({held}, "closed") /\ pending' = pending
      BY <1>0, <1>11, <2>2, Domains DEF SupervisorCheckRequest, At, IdsAtHand
    <3> QED BY <2>2, <3>1, SaysClosed
  <2> QED BY <2>1, <2>2
<1>12. CASE SupervisorSend
  <2>1. CASE outboundOpen
    BY <1>0, <1>12, <2>1, SaysNothing DEF SupervisorSend
  <2>2. CASE ~outboundOpen
    <3>1. ~alive /\ Reply(pending \cap {held}, "closed") /\ pending' = pending \ {held}
      BY <1>0, <1>12, <2>2 DEF SupervisorSend, FailPending, EndSeen
    <3> QED BY <1>0, <3>1, SaysClosed
  <2> QED BY <2>1, <2>2
<1>13. CASE SupervisorDrainCommands
  <2>1. CASE commands = <<>>
    BY <1>0, <1>13, <2>1, SaysNothing DEF SupervisorDrainCommands
  <2>2. CASE commands # <<>>
    <3>1. ~alive /\ Reply({Head(commands)} \cap Ids, "closed") /\ pending' = pending
      BY <1>0, <1>13, <2>2 DEF SupervisorDrainCommands, At, SupervisorGone
    <3> QED BY <3>1, SaysClosed
  <2> QED BY <2>1, <2>2
<1>14. CASE \/ SupervisorInsertInitialize \/ SupervisorRegister \/ SupervisorSendInitialize
            \/ SupervisorAwaitInitialize \/ SupervisorSendInitialized \/ SupervisorMarkReady
            \/ SupervisorEmitReady \/ SupervisorCheckAlive \/ SupervisorReceive \/ SupervisorInsert
            \/ SupervisorAnnounce \/ SupervisorExit
  <2>1. replies' = replies /\ pending \subseteq pending'
    BY <1>14
       DEF SupervisorInsertInitialize, SupervisorRegister, SupervisorWrite, SupervisorSendInitialize,
           SupervisorAwaitInitialize, SupervisorSendInitialized, SupervisorMarkReady, SupervisorEmitReady,
           SupervisorCheckAlive, SupervisorReceive, SupervisorInsert, SupervisorAnnounce, SupervisorExit
  <2> QED BY <1>0, <2>1, SaysNothing
<1> QED BY <1>1, <1>2, <1>3, <1>4, <1>5, <1>6, <1>7, <1>8, <1>9, <1>10, <1>11, <1>12, <1>13, <1>14
        DEF Next, Supervisor, Reader, Writer, Timer

(* What was heard stays heard, and true. *)
ToldNext(id, result) ==
  \/ result = "timeout"
  \/ result = "closed" /\ (~alive' \/ id = InitializeId)
  \/ result \in {"ok", "error"} /\ <<id, result>> \in answered'

LEMMA SpeechKeeps ==
  ASSUME TypeOK, RepliesTold, Speaks, alive' => alive, answered \subseteq answered'
  PROVE  RepliesTold' /\ \A id \in Ids : Heard(id) => Heard(id)'
<1>1. PICK S \in SUBSET Ids, result \in Results :
        Reply(S, result) /\ pending \subseteq pending' \cup S /\ \A id \in S : Told(id, result)
  BY DEF Speaks
<1>2. \A id, r : Told(id, r) => ToldNext(id, r)
  BY DEF Told, ToldNext
<1>3. ASSUME NEW id \in Ids
      PROVE  /\ \A i \in DOMAIN replies'[id] : ToldNext(id, replies'[id][i])
             /\ Heard(id) => Heard(id)'
  <2>1. replies[id] \in Seq(Results)
    BY DEF TypeOK
  <2>2. CASE id \notin S
    <3>1. replies'[id] = replies[id]
      BY <1>1, <2>2 DEF Reply
    <3>2. \A i \in DOMAIN replies[id] : ToldNext(id, replies[id][i])
      BY <1>2 DEF RepliesTold
    <3>3. Heard(id) => Heard(id)'
      BY <1>1, <2>2, <3>1 DEF Heard
    <3> QED BY <3>1, <3>2, <3>3
  <2>3. CASE id \in S
    <3>1. replies'[id] = Append(replies[id], result)
      BY <1>1, <2>3 DEF Reply
    <3>2. /\ DOMAIN replies'[id] = 1..(Len(replies[id]) + 1) /\ DOMAIN replies[id] = 1..Len(replies[id])
          /\ Len(replies[id]) \in Nat /\ replies'[id][Len(replies[id]) + 1] = result
          /\ \A i \in DOMAIN replies[id] : replies'[id][i] = replies[id][i]
      BY <2>1, <3>1
    <3>3. ASSUME NEW i \in DOMAIN replies'[id] PROVE ToldNext(id, replies'[id][i])
      <4>1. i \in DOMAIN replies[id] \/ i = Len(replies[id]) + 1
        BY <3>2
      <4>2. CASE i \in DOMAIN replies[id]
        <5>1. Told(id, replies[id][i])
          BY <4>2 DEF RepliesTold
        <5> QED BY <1>2, <3>2, <4>2, <5>1
      <4>3. CASE i = Len(replies[id]) + 1
        BY <1>1, <1>2, <2>3, <3>2, <4>3
      <4> QED BY <4>1, <4>2, <4>3
    <3>4. replies'[id] # <<>>
      BY <2>1, <3>1
    <3> QED BY <3>3, <3>4 DEF Heard
  <2> QED BY <2>2, <2>3
<1>4. RepliesTold'
  BY <1>3 DEF RepliesTold, Told, ToldNext
<1> QED BY <1>3, <1>4

(* The lines on their way from the server are answers it has given.          *)
LEMMA InboxStep ==
  ASSUME ContractInv, [Next]_vars
  PROVE  InboxTold' /\ answered \subseteq answered'
<1>0. TypeOK /\ InboxTold /\ inbox \in Seq(Frames)
  BY DEF ContractInv, OwnershipInv, TypeOK
<1>1. CASE ServerSend
  <2>1. PICK id \in received, kind \in {"ok", "error"} :
          inbox' = Append(inbox, [kind |-> kind, id |-> id]) /\ answered' = answered \cup {<<id, kind>>}
    BY <1>1 DEF ServerSend
  <2>2. DEFINE frame == [kind |-> kind, id |-> id]
  <2>3. frame \in Frames /\ frame.id = id /\ frame.kind = kind
    BY <1>0 DEF TypeOK, Frames
  <2> HIDE DEF frame
  <2>4. /\ DOMAIN inbox' = 1..(Len(inbox) + 1) /\ DOMAIN inbox = 1..Len(inbox) /\ Len(inbox) \in Nat
        /\ inbox'[Len(inbox) + 1] = frame /\ \A i \in DOMAIN inbox : inbox'[i] = inbox[i]
    BY <1>0, <2>1, <2>3 DEF frame
  <2>5. ASSUME NEW i \in DOMAIN inbox' PROVE <<inbox'[i].id, inbox'[i].kind>> \in answered'
    <3>1. i \in DOMAIN inbox \/ i = Len(inbox) + 1
      BY <2>4
    <3>2. CASE i \in DOMAIN inbox
      BY <1>0, <2>1, <2>4, <3>2 DEF InboxTold
    <3>3. CASE i = Len(inbox) + 1
      BY <2>1, <2>3, <2>4, <3>3
    <3> QED BY <3>1, <3>2, <3>3
  <2> QED BY <2>1, <2>5 DEF InboxTold
<1>2. CASE ReaderRead
  <2>1. inbox # <<>> /\ inbox' = Tail(inbox) /\ answered' = answered
    BY <1>2 DEF ReaderRead
  <2>2. \A i \in DOMAIN inbox' : i + 1 \in DOMAIN inbox /\ inbox'[i] = inbox[i + 1]
    BY <1>0, <2>1
  <2> QED BY <1>0, <2>1, <2>2 DEF InboxTold
<1>3. CASE ~ServerSend /\ ~ReaderRead
  <2>1. inbox' = inbox /\ answered' = answered
    BY <1>3 DEF Next, Client, ClientStep, Supervisor, Reader, Writer, Timer, Server, vars, server,
         ClientAllocate, ClientSubmit, ClientReceive, ClientGiveUp, ClientClose, ClientCloseSend,
         ClientCloseAnnounce, ClientDrop, SupervisorInsertInitialize, SupervisorRegister, SupervisorWrite,
         SupervisorSendInitialize, SupervisorAwaitInitialize, SupervisorSendInitialized,
         SupervisorStartupFailed, SupervisorStartupTerminate, SupervisorMarkReady, SupervisorEmitReady,
         SupervisorCheckAlive, SupervisorReceive, SupervisorCheckRequest, SupervisorInsert, SupervisorSend,
         SupervisorSendFailed, SupervisorClosing, SupervisorAnnounce, SupervisorDrainCommands,
         SupervisorExit, ReaderWait, ReaderEnd, ReaderDrain, ReaderEmit, WriterWrite, WriterFail,
         WriterDrain, WriterEmit, WriterExit, TimerScan, ServerExit
  <2> QED BY <1>0, <2>1 DEF InboxTold
<1> QED BY <1>1, <1>2, <1>3

(* A request's bytes come from the hand of a supervisor that registered it.  *)
LEMMA HeardStep ==
  ASSUME ContractInv, [Next]_vars, \A id \in Ids : Heard(id) => Heard(id)'
  PROVE  HeardBeforeSent'
<1>0. /\ TypeOK /\ HeardBeforeSent /\ outbound \in Seq(Ids \cup {InitializedNotice})
      /\ pc["supervisor"] \in {"check", "insert", "send"} => held \in ReqIds
  BY DEF ContractInv, OwnershipInv, IdsAtHand, TypeOK
<1>1. CASE WriterWrite
  <2>1. /\ ToSet(outbound) = ToSet(outbound') \cup {Head(outbound)}
        /\ received' \subseteq received \cup {Head(outbound)}
    BY <1>0, <1>1, TailSet DEF WriterWrite
  <2>2. pc' = pc /\ held' = held
    BY <1>1 DEF WriterWrite
  <2> QED BY <1>0, <2>1, <2>2, Domains DEF HeardBeforeSent, At
<1>2. CASE WriterExit
  <2>1. outbound' = <<>> /\ received' = received /\ held' = held /\ ToSet(outbound') = {}
    BY <1>2 DEF WriterExit, server, ToSet
  <2>2. At("supervisor", "send")' => At("supervisor", "send")
    BY <1>0, <1>2, ThreadsApart DEF Writer, At
  <2> QED BY <1>0, <2>1, <2>2, Domains DEF HeardBeforeSent, At
<1>3. CASE SupervisorSend
  <2>1. /\ outbound' = outbound \/ outbound' = Append(outbound, held)
        /\ held \in ReqIds /\ Heard(held) /\ received' = received
    BY <1>0, <1>3 DEF SupervisorSend, server, At, HeardBeforeSent
  <2>2. ToSet(outbound') \subseteq ToSet(outbound) \cup {held}
    <3>1. held \in Ids \cup {InitializedNotice}
      BY <2>1, Domains
    <3>2. ToSet(Append(outbound, held)) = ToSet(outbound) \cup {held}
      BY <1>0, <3>1, AppendSet
    <3> QED BY <2>1, <3>2
  <2>3. ~At("supervisor", "send")'
    BY <1>0, <1>3 DEF SupervisorSend, At, Goto, TypeOK, Threads
  <2> QED BY <1>0, <2>1, <2>2, <2>3, Domains DEF HeardBeforeSent
<1>4. CASE SupervisorSendInitialize \/ SupervisorSendInitialized
  <2>1. PICK bytes \in {InitializeId, InitializedNotice} :
          /\ outbound' = outbound \/ outbound' = Append(outbound, bytes)
          /\ received' = received
    BY <1>4 DEF SupervisorSendInitialize, SupervisorSendInitialized, SupervisorWrite, server
  <2>2. ToSet(outbound') \subseteq ToSet(outbound) \cup {bytes} /\ bytes \notin ReqIds
    <3>1. bytes \in Ids \cup {InitializedNotice} /\ bytes \notin ReqIds
      BY Domains
    <3>2. ToSet(Append(outbound, bytes)) = ToSet(outbound) \cup {bytes}
      BY <1>0, <3>1, AppendSet
    <3> QED BY <2>1, <3>1, <3>2
  <2>3. ~At("supervisor", "send")'
    BY <1>0, <1>4 DEF SupervisorSendInitialize, SupervisorSendInitialized, SupervisorWrite, At, Goto,
         TypeOK, Threads
  <2> QED BY <1>0, <2>1, <2>2, <2>3, Domains DEF HeardBeforeSent
<1>5. CASE ~WriterWrite /\ ~WriterExit /\ ~SupervisorSend /\ ~SupervisorSendInitialize /\ ~SupervisorSendInitialized
  <2>1. outbound' = outbound /\ received' = received
    BY <1>5 DEF Next, Client, ClientStep, Supervisor, Reader, Writer, Timer, Server, vars, server, channels,
         ClientAllocate, ClientSubmit, ClientReceive, ClientGiveUp, ClientClose, ClientCloseSend,
         ClientCloseAnnounce, ClientDrop, SupervisorInsertInitialize, SupervisorRegister,
         SupervisorAwaitInitialize, SupervisorStartupFailed, SupervisorStartupTerminate, SupervisorMarkReady,
         SupervisorEmitReady, SupervisorCheckAlive, SupervisorReceive, SupervisorCheckRequest,
         SupervisorInsert, SupervisorSendFailed, SupervisorClosing, SupervisorAnnounce,
         SupervisorDrainCommands, SupervisorExit, ReaderWait, ReaderRead, ReaderEnd, ReaderDrain, ReaderEmit,
         WriterFail, WriterDrain, WriterEmit, TimerScan, ServerSend, ServerExit
  <2>2. At("supervisor", "send")' => (At("supervisor", "send") /\ held' = held) \/ SupervisorInsert
    <3>1. CASE Supervisor
      BY <1>0, <1>5, <3>1 DEF Supervisor, At, Goto, TypeOK, Threads, SupervisorInsertInitialize,
         SupervisorRegister, SupervisorAwaitInitialize, SupervisorStartupFailed, SupervisorStartupTerminate,
         SupervisorMarkReady, SupervisorEmitReady, SupervisorCheckAlive, SupervisorReceive,
         SupervisorCheckRequest, SupervisorSendFailed, SupervisorClosing, SupervisorAnnounce,
         SupervisorDrainCommands, SupervisorExit, TerminateSwap, TerminateDrain
    <3>2. CASE Client \/ Reader \/ Writer \/ Timer \/ Server \/ vars' = vars
      <4>1. pc'["supervisor"] = pc["supervisor"]
        BY <1>0, <3>2, ThreadsApart
      <4>2. held' = held
        BY <3>2 DEF Client, ClientStep, Reader, Writer, Timer, Server, vars,
         ClientAllocate, ClientSubmit, ClientReceive, ClientGiveUp, ClientClose, ClientCloseSend,
         ClientCloseAnnounce, ClientDrop, ReaderWait, ReaderRead, ReaderEnd, ReaderDrain, ReaderEmit,
         WriterWrite, WriterFail, WriterDrain, WriterEmit, WriterExit, TimerScan, ServerSend, ServerExit
      <4> QED BY <4>1, <4>2 DEF At
    <3> QED BY <3>1, <3>2 DEF Next
  <2>3. At("supervisor", "send")' => Heard(held)'
    <3>1. SupervisorInsert => held' \in pending'
      BY DEF SupervisorInsert
    <3>2. At("supervisor", "send") => held \in Ids /\ Heard(held)
      BY <1>0, Domains DEF At, HeardBeforeSent
    <3> QED BY <2>2, <3>1, <3>2 DEF Heard
  <2> QED BY <1>0, <2>1, <2>3, Domains DEF HeardBeforeSent
<1> QED BY <1>1, <1>2, <1>3, <1>4, <1>5

(* Nobody is told of a failure, or refused, before the end.                  *)
LEMMA OutcomesStep ==
  ASSUME ContractInv, [Next]_vars
  PROVE  OutcomesTold'
<1>0. /\ TypeOK /\ OutcomesTold /\ (alive' => alive) /\ nextId \in 2..(MaxId + 1)
      /\ At("client", "submit") => nextId - 1 \in ReqIds
  BY ThreadsApart DEF ContractInv, OwnershipInv, IdsAtHand, TypeOK
<1>1. CASE ClientAllocate
  <2>1. /\ nextId \in ReqIds /\ nextId' = nextId + 1 /\ alive' = alive /\ ~At("client", "submit")
        /\ At("client", "submit")' => alive
    BY <1>0, <1>1 DEF ClientAllocate, At, Goto, TypeOK, Threads, ReqIds, shared
  <2>2. outcome' = outcome \/ (~alive /\ outcome' = [outcome EXCEPT ![nextId] = "rejected"])
    BY <1>1 DEF ClientAllocate
  <2>3. \A id \in ReqIds : id \in Nat
    BY Domains
  <2>4. ASSUME NEW id \in ReqIds, id >= nextId' \/ (id = nextId' - 1 /\ At("client", "submit")')
        PROVE  outcome'[id] = "none"
    <3>1. id >= nextId /\ (~alive => id # nextId)
      BY <1>0, <2>1, <2>3, <2>4
    <3> QED BY <1>0, <2>2, <3>1 DEF OutcomesTold, TypeOK
  <2>5. alive' => \A id \in ReqIds : outcome'[id] \notin {"closed", "rejected"}
    BY <1>0, <2>1, <2>2 DEF OutcomesTold
  <2> QED BY <2>4, <2>5 DEF OutcomesTold
<1>2. CASE ClientSubmit
  <2>1. /\ nextId - 1 \in ReqIds /\ nextId' = nextId /\ alive' = alive /\ ~At("client", "submit")'
    BY <1>0, <1>2 DEF ClientSubmit, At, Goto, TypeOK, Threads, shared
  <2>2. \/ outcome' = outcome
        \/ \E r \in {"waiting", "rejected"} :
             outcome' = [outcome EXCEPT ![nextId - 1] = r] /\ (r = "rejected" => ~alive)
    BY <1>2 DEF ClientSubmit, ContractInv, EndSeen
  <2>3. ASSUME NEW id \in ReqIds, id >= nextId PROVE outcome'[id] = "none"
    <3>1. id # nextId - 1
      BY <1>0, <2>3, Domains
    <3> QED BY <1>0, <2>2, <2>3, <3>1 DEF OutcomesTold, TypeOK
  <2>4. alive' => \A id \in ReqIds : outcome'[id] \notin {"closed", "rejected"}
    BY <1>0, <2>1, <2>2 DEF OutcomesTold, TypeOK
  <2> QED BY <2>1, <2>3, <2>4 DEF OutcomesTold
<1>3. ASSUME NEW id \in ReqIds, ClientReceive(id) \/ ClientGiveUp(id) PROVE OutcomesTold'
  <2>1. outcome[id] = "waiting" /\ nextId' = nextId /\ alive' = alive /\ pc' = pc
    BY <1>3 DEF ClientReceive, ClientGiveUp, shared
  <2>2. PICK r : outcome' = [outcome EXCEPT ![id] = r] /\ (alive => r \notin {"closed", "rejected"})
    <3>1. CASE ClientGiveUp(id)
      <4>1. outcome' = [outcome EXCEPT ![id] = "timeout"] /\ "timeout" \notin {"closed", "rejected"}
        BY <3>1 DEF ClientGiveUp
      <4> QED BY <4>1
    <3>2. CASE ClientReceive(id) /\ replies[id] # <<>>
      <4>1. replies[id] \in Seq(Results) /\ id \in Ids /\ id # InitializeId
        BY <1>0, Domains DEF TypeOK
      <4>2. 1 \in DOMAIN replies[id] /\ Head(replies[id]) = replies[id][1]
        BY <3>2, <4>1
      <4>3. Told(id, Head(replies[id])) /\ Head(replies[id]) # "rejected"
        BY <4>1, <4>2 DEF ContractInv, RepliesTold, Told
      <4> QED BY <3>2, <4>1, <4>3 DEF ClientReceive, Told
    <3>3. CASE ClientReceive(id) /\ replies[id] = <<>>
      <4>1. ~HasSender(id) /\ outcome' = [outcome EXCEPT ![id] = "closed"]
        BY <3>3 DEF ClientReceive
      <4> QED BY <2>1, <3>3, <4>1 DEF ContractInv, OwnershipInv, NoLostRequest
    <3> QED BY <1>3, <3>1, <3>2, <3>3
  <2> QED BY <1>0, <2>1, <2>2 DEF OutcomesTold, At, TypeOK
<1>4. CASE Client /\ ~ClientAllocate /\ ~ClientSubmit /\ ~(\E id \in ReqIds : ClientReceive(id) \/ ClientGiveUp(id))
  <2>1. outcome' = outcome /\ nextId' = nextId /\ ~At("client", "submit")'
    BY <1>0, <1>4 DEF Client, ClientStep, ClientClose, ClientCloseSend, TerminateSwap,
         ClientCloseAnnounce, ClientDrop, clientVars, At, Goto, TypeOK, Threads
  <2> QED BY <1>0, <2>1 DEF OutcomesTold
<1>5. CASE Supervisor \/ Reader \/ Writer \/ Timer \/ Server \/ vars' = vars
  <2>1. outcome' = outcome /\ nextId' = nextId
    BY <1>5 DEF Supervisor, Reader, Writer, Timer, Server, vars, clientVars,
         SupervisorInsertInitialize, SupervisorRegister, SupervisorWrite,
         SupervisorSendInitialize, SupervisorAwaitInitialize, SupervisorSendInitialized,
         SupervisorStartupFailed, SupervisorStartupTerminate, SupervisorMarkReady, SupervisorEmitReady,
         SupervisorCheckAlive, SupervisorReceive, SupervisorCheckRequest, SupervisorInsert, SupervisorSend,
         SupervisorSendFailed, SupervisorClosing, SupervisorAnnounce, SupervisorDrainCommands,
         SupervisorExit, ReaderWait, ReaderRead, ReaderEnd, ReaderDrain, ReaderEmit, WriterWrite, WriterFail,
         WriterDrain, WriterEmit, WriterExit, TimerScan, ServerSend, ServerExit
  <2>2. pc'["client"] = pc["client"]
    <3>1. CASE Timer \/ Server \/ vars' = vars
      BY <1>0, <3>1 DEF Timer, Server, vars, TimerScan, ServerSend, ServerExit, Goto, TypeOK, Threads
    <3> QED BY <1>0, <1>5, <3>1, ThreadsApart
  <2> QED BY <1>0, <2>1, <2>2 DEF OutcomesTold, At
<1> QED BY <1>1, <1>2, <1>3, <1>4, <1>5 DEF Next

-----------------------------------------------------------------------------
(* Counting the reports. *)

LEMMA Counts ==
  ASSUME TypeOK, NEW kinds
  PROVE  Occurrences(kinds) \in Nat
<1>1. DOMAIN events = 1..Len(events) /\ Len(events) \in Nat
  BY DEF TypeOK
<1>2. IsFiniteSet(1..Len(events)) /\ {i \in DOMAIN events : events[i] \in kinds} \in SUBSET (1..Len(events))
  BY <1>1, FS_Interval
<1> QED BY <1>2, FS_Subset, FS_CardinalityType DEF Occurrences

LEMMA CountsAppend ==
  ASSUME TypeOK, NEW kinds, NEW e, events' = Append(events, e)
  PROVE  Occurrences(kinds)' = Occurrences(kinds) + (IF e \in kinds THEN 1 ELSE 0)
<1> DEFINE before == {i \in DOMAIN events : events[i] \in kinds}
           after  == {i \in DOMAIN events' : events'[i] \in kinds}
           last   == Len(events) + 1
<1>1. /\ events \in Seq(Events) /\ Len(events) \in Nat
      /\ DOMAIN events = 1..Len(events) /\ DOMAIN events' = 1..last
      /\ events'[last] = e /\ \A i \in DOMAIN events : events'[i] = events[i]
  BY DEF TypeOK
<1>2. IsFiniteSet(before)
  <2>1. IsFiniteSet(1..Len(events)) /\ before \in SUBSET (1..Len(events))
    BY <1>1, FS_Interval
  <2> HIDE DEF before
  <2> QED BY <2>1, FS_Subset
<1>3. after = before \cup (IF e \in kinds THEN {last} ELSE {}) /\ last \notin before
  BY <1>1
<1>4. Cardinality(before) \in Nat
  BY <1>2, FS_CardinalityType
<1>5. Cardinality(after) = Cardinality(before) + (IF e \in kinds THEN 1 ELSE 0)
  <2> HIDE DEF before, after, last
  <2>1. CASE e \in kinds
    <3>1. after = before \cup {last}
      BY <1>3, <2>1
    <3> QED BY <1>2, <1>3, <2>1, <3>1, FS_AddElement
  <2>2. CASE e \notin kinds
    <3>1. after = before
      BY <1>3, <2>2
    <3> QED BY <1>4, <2>2, <3>1
  <2> QED BY <2>1, <2>2
<1> QED BY <1>5 DEF Occurrences

(* Nothing is reported, and nobody wins or loses the duty to report.         *)
LEMMA CountsStay ==
  ASSUME ContractInv, alive' => alive, UNCHANGED <<events, closedSent>>,
         Reporting("reader")' = Reporting("reader"), Reporting("writer")' = Reporting("writer")
  PROVE  ReportsCounted'
BY DEF ContractInv, ReportsCounted, Reports, Occurrences

(* A report that is not of the end. *)
LEMMA CountsOther ==
  ASSUME ContractInv, alive' => alive, closedSent' = closedSent,
         Reporting("reader")' = Reporting("reader"), Reporting("writer")' = Reporting("writer"),
         NEW e \in {"Ready", "StartupFailed"}, events' = Append(events, e)
  PROVE  ReportsCounted'
<1>1. TypeOK /\ ReportsCounted
  BY DEF ContractInv, OwnershipInv
<1>2. /\ Occurrences({"Eof", "IoError"})' = Occurrences({"Eof", "IoError"})
      /\ Occurrences({"Closed"})' = Occurrences({"Closed"})
  BY <1>1, CountsAppend, Counts
<1> QED BY <1>1, <1>2 DEF ReportsCounted, Reports

LEMMA CountsClosed ==
  ASSUME ContractInv, alive' => alive, EmitClosed,
         Reporting("reader")' = Reporting("reader"), Reporting("writer")' = Reporting("writer")
  PROVE  ReportsCounted'
<1>1. TypeOK /\ ReportsCounted
  BY DEF ContractInv, OwnershipInv
<1>2. CASE closedSent
  BY <1>2, CountsStay DEF EmitClosed
<1>3. CASE ~closedSent
  <2>1. closedSent' = TRUE /\ events' = Append(events, "Closed")
    BY <1>3 DEF EmitClosed, Emit
  <2>2. /\ Occurrences({"Eof", "IoError"})' = Occurrences({"Eof", "IoError"})
        /\ Occurrences({"Closed"})' = Occurrences({"Closed"}) + 1
    BY <1>1, <2>1, CountsAppend, Counts
  <2> QED BY <1>1, <1>3, <2>1, <2>2 DEF ReportsCounted, Reports
<1> QED BY <1>2, <1>3

(* The one winner of terminate takes the duty to report; reporting fulfils it. *)
LEMMA CountsWinner ==
  ASSUME ContractInv, [Next]_vars, Reader \/ Writer
  PROVE  ReportsCounted'
<1>1. /\ TypeOK /\ ReportsCounted /\ EndSeen /\ (alive' => alive)
      /\ Occurrences({"Eof", "IoError"}) \in Nat
      /\ Reporting("reader") \in 0..1 /\ Reporting("writer") \in 0..1
  BY ThreadsApart, Counts DEF ContractInv, OwnershipInv, Reporting
<1>2. CASE ReaderEnd \/ WriterFail
  <2>1. /\ events' = events /\ closedSent' = closedSent /\ ~alive'
        /\ Occurrences({"Eof", "IoError"})' = Occurrences({"Eof", "IoError"})
        /\ Occurrences({"Closed"})' = Occurrences({"Closed"})
    BY <1>2 DEF ReaderEnd, WriterFail, TerminateSwap, Occurrences
  <2>2. CASE alive
    <3>1. Occurrences({"Eof", "IoError"}) = 0 /\ Reporting("reader") = 0 /\ Reporting("writer") = 0
      BY <1>1, <2>2 DEF ReportsCounted, Reports
    <3>2. CASE ReaderEnd
      <4>1. pc'["reader"] = "drain" /\ pc'["writer"] = pc["writer"]
        BY <1>1, <2>2, <3>2 DEF ReaderEnd, TerminateSwap, Goto, TypeOK, Threads
      <4>2. Reporting("reader")' = 1 /\ Reporting("writer")' = 0
        BY <3>1, <4>1 DEF Reporting
      <4> QED BY <1>1, <2>1, <3>1, <4>2 DEF ReportsCounted, Reports
    <3>3. CASE WriterFail
      <4>1. pc'["writer"] = "drain" /\ pc'["reader"] = pc["reader"]
        BY <1>1, <2>2, <3>3 DEF WriterFail, TerminateSwap, Goto, TypeOK, Threads
      <4>2. Reporting("reader")' = 0 /\ Reporting("writer")' = 1
        BY <3>1, <4>1 DEF Reporting
      <4> QED BY <1>1, <2>1, <3>1, <4>2 DEF ReportsCounted, Reports
    <3> QED BY <1>2, <3>2, <3>3
  <2>3. CASE ~alive
    <3>1. Reporting("reader")' = Reporting("reader") /\ Reporting("writer")' = Reporting("writer")
      BY <1>1, <1>2, <2>3 DEF ReaderEnd, WriterFail, TerminateSwap, At, Goto, TypeOK, Threads, Reporting
    <3> QED BY <1>1, <2>1, <3>1, CountsStay
  <2> QED BY <2>2, <2>3
<1>3. CASE ReaderEmit \/ WriterEmit
  <2>1. PICK e \in {"Eof", "IoError"} : events' = Append(events, e)
    BY <1>3 DEF ReaderEmit, WriterEmit, Emit
  <2>2. /\ Occurrences({"Eof", "IoError"})' = Occurrences({"Eof", "IoError"}) + 1
        /\ Occurrences({"Closed"})' = Occurrences({"Closed"})
    BY <1>1, <2>1, CountsAppend, Counts
  <2>3. /\ alive' = alive /\ ~alive /\ closedSent' = closedSent
        /\ Reporting("reader")' + Reporting("writer")' = Reporting("reader") + Reporting("writer") - 1
    BY <1>1, <1>3 DEF ReaderEmit, WriterEmit, At, Goto, TypeOK, Threads, Reporting, EndSeen, shared
  <2> QED BY <1>1, <2>2, <2>3 DEF ReportsCounted, Reports, Reporting
<1>4. CASE ReaderWait \/ ReaderRead \/ ReaderDrain \/ WriterWrite \/ WriterDrain \/ WriterExit
  <2>1. UNCHANGED <<events, closedSent>>
    BY <1>4 DEF ReaderWait, ReaderRead, ReaderDrain, WriterWrite, WriterDrain, WriterExit, TerminateDrain, shared
  <2>2. Reporting("reader")' = Reporting("reader") /\ Reporting("writer")' = Reporting("writer")
    BY <1>1, <1>4 DEF ReaderWait, ReaderRead, ReaderDrain, WriterWrite, WriterDrain, WriterExit, TerminateDrain,
         At, Goto, TypeOK, Threads, Reporting
  <2> QED BY <1>1, <2>1, <2>2, CountsStay
<1> QED BY <1>2, <1>3, <1>4 DEF Reader, Writer

LEMMA CountsStep ==
  ASSUME ContractInv, [Next]_vars
  PROVE  ReportsCounted'
<1>0. TypeOK /\ (alive' => alive)
  BY ThreadsApart DEF ContractInv, OwnershipInv
<1>1. CASE Client \/ Supervisor \/ Timer \/ Server \/ vars' = vars
  <2>1. Reporting("reader")' = Reporting("reader") /\ Reporting("writer")' = Reporting("writer")
    BY <1>0, <1>1, ThreadsApart DEF Reporting
  <2>2. CASE SupervisorAnnounce \/ ClientCloseAnnounce
    BY <1>0, <2>1, <2>2, CountsClosed DEF SupervisorAnnounce, ClientCloseAnnounce
  <2>3. CASE SupervisorEmitReady \/ SupervisorStartupFailed
    <3>1. PICK e \in {"Ready", "StartupFailed"} : events' = Append(events, e) /\ closedSent' = closedSent
      BY <2>3 DEF SupervisorEmitReady, SupervisorStartupFailed, Emit, shared
    <3> QED BY <1>0, <2>1, <3>1, CountsOther
  <2>4. CASE ~SupervisorAnnounce /\ ~ClientCloseAnnounce /\ ~SupervisorEmitReady /\ ~SupervisorStartupFailed
    <3>1. UNCHANGED <<events, closedSent>>
      BY <1>1, <2>4 DEF Client, ClientStep, Supervisor, Timer, Server, vars, shared,
         ClientAllocate, ClientSubmit, ClientReceive, ClientGiveUp, ClientClose, ClientCloseSend,
         ClientDrop, SupervisorInsertInitialize, SupervisorRegister, SupervisorWrite,
         SupervisorSendInitialize, SupervisorAwaitInitialize, SupervisorSendInitialized,
         SupervisorStartupTerminate, SupervisorMarkReady,
         SupervisorCheckAlive, SupervisorReceive, SupervisorCheckRequest, SupervisorInsert, SupervisorSend,
         SupervisorSendFailed, SupervisorClosing, SupervisorDrainCommands, SupervisorExit,
         TerminateSwap, TerminateDrain, TimerScan, ServerSend, ServerExit
    <3> QED BY <1>0, <2>1, <3>1, CountsStay
  <2> QED BY <2>2, <2>3, <2>4
<1>2. CASE Reader \/ Writer
  BY <1>2, CountsWinner
<1> QED BY <1>1, <1>2 DEF Next

-----------------------------------------------------------------------------

LEMMA ContractInductive ==
  /\ Init => ContractInv
  /\ ContractInv /\ [Next]_vars => ContractInv'
<1>1. ASSUME Init PROVE ContractInv
  <2>1. OwnershipInv /\ TypeOK
    BY <1>1, Inductive DEF OwnershipInv
  <2>2. RepliesTold /\ InboxTold /\ EndSeen
    BY <1>1 DEF Init, RepliesTold, InboxTold, EndSeen, Threads
  <2>3. OutcomesTold
    BY <1>1 DEF Init, OutcomesTold
  <2>4. HeardBeforeSent
    BY <1>1 DEF Init, HeardBeforeSent, ToSet, At, Threads
  <2>5. ReportsCounted
    <3>1. \A kinds : Occurrences(kinds) = 0
      <4>1. events = <<>>
        BY <1>1 DEF Init
      <4>2. \A kinds : {i \in DOMAIN events : events[i] \in kinds} = {}
        BY <4>1
      <4> QED BY <4>2, FS_EmptySet DEF Occurrences
    <3>2. Reporting("reader") = 0 /\ Reporting("writer") = 0 /\ closedSent = FALSE
      BY <1>1 DEF Init, Reporting, Threads
    <3> QED BY <3>1, <3>2 DEF ReportsCounted, Reports
  <2> QED BY <2>1, <2>2, <2>3, <2>4, <2>5 DEF ContractInv
<1>2. ASSUME ContractInv, [Next]_vars PROVE ContractInv'
  <2>1. OwnershipInv' /\ TypeOK /\ RepliesTold /\ (alive' => alive)
    BY <1>2, Inductive, ThreadsApart DEF ContractInv, OwnershipInv
  <2>2. InboxTold' /\ answered \subseteq answered'
    BY <1>2, InboxStep
  <2>3. RepliesTold' /\ \A id \in Ids : Heard(id) => Heard(id)'
    BY <1>2, <2>1, <2>2, StepSpeaks, SpeechKeeps
  <2>4. EndSeen' /\ OutcomesTold' /\ HeardBeforeSent' /\ ReportsCounted'
    BY <1>2, <2>3, EndSeenStep, OutcomesStep, HeardStep, CountsStep
  <2> QED BY <2>1, <2>2, <2>3, <2>4 DEF ContractInv
<1> QED BY <1>1, <1>2

(* The end of the transport is orderly whichever threads meet it first: what *)
(* was written is registered, close and the winner of terminate report it    *)
(* once, and nobody is told of a failure before it                           *)
(* (transport.rs:266-282, 432-444, 644-675).                                 *)
THEOREM EndIsOrderly == Spec => []OrderlyEnd
<1>1. ASSUME ContractInv PROVE OrderlyEnd
  <2>1. TypeOK /\ RegisteredBeforeWritten
    BY <1>1 DEF ContractInv, OwnershipInv, HeardBeforeSent, Heard, RegisteredBeforeWritten
  <2>2. /\ Occurrences({"Eof", "IoError"}) \in Nat
        /\ Reporting("reader") \in 0..1 /\ Reporting("writer") \in 0..1
    BY <2>1, Counts DEF Reporting
  <2>3. EndReportedOnce /\ (alive => Occurrences({"Eof", "IoError"}) = 0)
    BY <1>1, <2>2 DEF ContractInv, ReportsCounted, Reports, EndReportedOnce
  <2>4. ASSUME alive, NEW id \in ReqIds PROVE replies[id] # <<"closed">> /\ outcome[id] \notin {"closed", "rejected"}
    <3>1. replies[id] = <<"closed">> => 1 \in DOMAIN replies[id] /\ replies[id][1] = "closed"
      OBVIOUS
    <3>2. id \in Ids /\ id # InitializeId
      BY Domains
    <3> QED BY <1>1, <2>4, <3>1, <3>2 DEF ContractInv, RepliesTold, Told, OutcomesTold
  <2> QED BY <2>1, <2>3, <2>4 DEF OrderlyEnd, FailureImpliesDead
<1> QED BY <1>1, ContractInductive, PTL DEF Spec

-----------------------------------------------------------------------------
(* The contract: every step is one of its steps, or none of its business. *)

LEMMA OutcomeSteps ==
  ASSUME ContractInv, Client, outcome' # outcome
  PROVE  \E id \in Contract!Requests :
           \/ Contract!Accept(id) \/ Contract!Refuse(id)
           \/ \E result \in {"ok", "error", "closed", "timeout"} : Contract!Return(id, result)
<1> USE DEF Contract!Requests, Contract!Learn
<1>0. TypeOK /\ OutcomesTold /\ RepliesTold /\ EndSeen /\ Contract!Requests = ReqIds
  BY DEF ContractInv, OwnershipInv, ReqIds
<1>1. CASE ClientAllocate
  <2>1. /\ nextId \in ReqIds /\ ~alive /\ outcome' = [outcome EXCEPT ![nextId] = "rejected"]
        /\ UNCHANGED <<alive, answered>>
    BY <1>0, <1>1, TransportAssumption DEF ClientAllocate, TypeOK, ReqIds, shared, server
  <2>2. outcome[nextId] = "none"
    <3>1. nextId >= nextId
      BY <1>0 DEF TypeOK
    <3> QED BY <1>0, <2>1, <3>1 DEF OutcomesTold
  <2>3. Contract!Refuse(nextId)
    BY <2>1, <2>2 DEF Contract!Refuse
  <2> QED BY <1>0, <2>1, <2>3
<1>2. CASE ClientSubmit
  <2>1. nextId - 1 \in ReqIds /\ At("client", "submit") /\ UNCHANGED <<alive, answered>>
    BY <1>2 DEF ClientSubmit, shared, server, ContractInv, OwnershipInv, IdsAtHand
  <2>2. outcome[nextId - 1] = "none"
    BY <1>0, <2>1 DEF OutcomesTold
  <2>3. CASE commandOpen /\ outcome' = [outcome EXCEPT ![nextId - 1] = "waiting"]
    <3>1. Contract!Accept(nextId - 1)
      BY <1>2, <2>1, <2>2, <2>3 DEF ClientSubmit, Contract!Accept
    <3> QED BY <1>0, <2>1, <3>1
  <2>4. CASE ~commandOpen /\ outcome' = [outcome EXCEPT ![nextId - 1] = "rejected"]
    <3>1. Contract!Refuse(nextId - 1)
      BY <1>0, <1>2, <2>1, <2>2, <2>4 DEF ClientSubmit, EndSeen, Contract!Refuse
    <3> QED BY <1>0, <2>1, <3>1
  <2>5. outcome' # outcome
    BY <1>2
  <2> QED BY <1>2, <2>3, <2>4, <2>5 DEF ClientSubmit
<1>3. ASSUME NEW id \in ReqIds, ClientReceive(id) \/ ClientGiveUp(id)
      PROVE  \E result \in {"ok", "error", "closed", "timeout"} : Contract!Return(id, result)
  <2>1. outcome[id] = "waiting" /\ UNCHANGED <<alive, answered>>
    BY <1>3 DEF ClientReceive, ClientGiveUp, shared, server
  <2>2. CASE ClientGiveUp(id)
    <3>1. Contract!Return(id, "timeout")
      BY <2>1, <2>2 DEF ClientGiveUp, Contract!Return, Contract!Kinds
    <3> QED BY <3>1
  <2>3. CASE ClientReceive(id) /\ replies[id] # <<>>
    <3>1. replies[id] \in Seq(Results) /\ id \in Ids /\ id # InitializeId
      BY <1>0, Domains DEF TypeOK
    <3>2. 1 \in DOMAIN replies[id] /\ Head(replies[id]) = replies[id][1]
      BY <2>3, <3>1
    <3>3. Told(id, Head(replies[id]))
      BY <1>0, <3>1, <3>2 DEF RepliesTold
    <3>4. PICK result : result = Head(replies[id]) /\ Told(id, result) /\ outcome' = [outcome EXCEPT ![id] = result]
      BY <2>3, <3>1, <3>3 DEF ClientReceive
    <3>5. result \in {"ok", "error", "closed", "timeout"}
      BY <3>4 DEF Told
    <3>6. Contract!Return(id, result)
      BY <2>1, <3>1, <3>4 DEF Told, Contract!Return, Contract!Kinds
    <3> QED BY <3>5, <3>6
  <2>4. CASE ClientReceive(id) /\ replies[id] = <<>>
    <3>1. ~HasSender(id) /\ outcome' = [outcome EXCEPT ![id] = "closed"]
      BY <2>4 DEF ClientReceive
    <3>2. ~alive
      BY <2>1, <2>4, <3>1 DEF ContractInv, OwnershipInv, NoLostRequest
    <3>3. Contract!Return(id, "closed")
      BY <2>1, <3>1, <3>2 DEF Contract!Return, Contract!Kinds
    <3> QED BY <3>3
  <2> QED BY <1>3, <2>2, <2>3, <2>4
<1>4. ClientClose \/ ClientCloseSend \/ ClientCloseAnnounce \/ ClientDrop => outcome' = outcome
  BY DEF ClientClose, ClientCloseSend, ClientCloseAnnounce, ClientDrop, clientVars
<1> QED BY <1>0, <1>1, <1>2, <1>3, <1>4 DEF Client, ClientStep

LEMMA ContractStep ==
  ASSUME ContractInv, [Next]_vars
  PROVE  [Contract!Next]_Contract!vars
<1>1. CASE Client /\ outcome' # outcome
  BY <1>1, OutcomeSteps DEF Contract!Next
<1>2. CASE ServerSend
  <2>1. PICK id \in received, kind \in {"ok", "error"} : answered' = answered \cup {<<id, kind>>}
    BY <1>2 DEF ServerSend
  <2>2. id \in 1..MaxId /\ UNCHANGED <<alive, outcome>>
    BY <1>2 DEF ServerSend, shared, clientVars, ContractInv, OwnershipInv, TypeOK, Ids
  <2>3. Contract!Answer
    BY <2>1, <2>2 DEF Contract!Answer, Contract!Kinds
  <2> QED BY <2>3 DEF Contract!Next
<1>3. CASE ~ServerSend /\ (Client => outcome' = outcome)
  <2>1. outcome' = outcome
    BY <1>3 DEF Next, Supervisor, Reader, Writer, Timer, Server, vars, clientVars,
         SupervisorInsertInitialize, SupervisorRegister, SupervisorWrite,
         SupervisorSendInitialize, SupervisorAwaitInitialize, SupervisorSendInitialized,
         SupervisorStartupFailed, SupervisorStartupTerminate, SupervisorMarkReady, SupervisorEmitReady,
         SupervisorCheckAlive, SupervisorReceive, SupervisorCheckRequest, SupervisorInsert, SupervisorSend,
         SupervisorSendFailed, SupervisorClosing, SupervisorAnnounce, SupervisorDrainCommands,
         SupervisorExit, ReaderWait, ReaderRead, ReaderEnd, ReaderDrain, ReaderEmit, WriterWrite, WriterFail,
         WriterDrain, WriterEmit, WriterExit, TimerScan, ServerExit
  <2>2. answered' = answered
    BY <1>3 DEF Next, Client, ClientStep, Supervisor, Reader, Writer, Timer, Server, vars, server,
         ClientAllocate, ClientSubmit, ClientReceive, ClientGiveUp, ClientClose, ClientCloseSend,
         ClientCloseAnnounce, ClientDrop, SupervisorInsertInitialize, SupervisorRegister, SupervisorWrite,
         SupervisorSendInitialize, SupervisorAwaitInitialize, SupervisorSendInitialized,
         SupervisorStartupFailed, SupervisorStartupTerminate, SupervisorMarkReady, SupervisorEmitReady,
         SupervisorCheckAlive, SupervisorReceive, SupervisorCheckRequest, SupervisorInsert, SupervisorSend,
         SupervisorSendFailed, SupervisorClosing, SupervisorAnnounce, SupervisorDrainCommands,
         SupervisorExit, ReaderWait, ReaderRead, ReaderEnd, ReaderDrain, ReaderEmit, WriterWrite, WriterFail,
         WriterDrain, WriterEmit, WriterExit, TimerScan, ServerExit
  <2>3. alive' = alive \/ (alive /\ alive' = FALSE)
    <3>1. alive \in BOOLEAN /\ alive' \in BOOLEAN /\ (alive' => alive)
      BY Inductive, ThreadsApart DEF ContractInv, OwnershipInv, TypeOK
    <3> QED BY <3>1
  <2>4. CASE alive' = alive
    BY <2>1, <2>2, <2>4 DEF Contract!vars
  <2>5. CASE alive /\ alive' = FALSE
    BY <2>1, <2>2, <2>5 DEF Contract!End, Contract!Next
  <2> QED BY <2>3, <2>4, <2>5
<1> QED BY <1>1, <1>2, <1>3

(* Five threads, four queues and a pending map keep the contract of the      *)
(* caller: a request is accepted or refused, and returns at most once, with  *)
(* an answer the server gave to it, closed only after the end, timed out at  *)
(* any time (transport.rs:218-257, 413-475, 538-550).                        *)
THEOREM ContractKept == Spec => ImplementsContract
<1>1. Init => Contract!Init
  BY DEF Init, Contract!Init, Contract!Requests, ReqIds
<1>2. ContractInv /\ [Next]_vars => [Contract!Next]_Contract!vars
  BY ContractStep
<1> QED BY <1>1, <1>2, ContractInductive, PTL DEF Spec, ImplementsContract, Contract!Spec
=============================================================================
