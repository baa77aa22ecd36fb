--------------------------- MODULE AppServerProofs ---------------------------
(***************************************************************************)
(* Proofs about what the client makes of the App Server's reports: first   *)
(* the lamp with its two sources (module Activity), for every lease, both  *)
(* times to live and every number of turns; then the state the reports are *)
(* applied to (module ServerState), for all threads, answers,              *)
(* notifications and events, and any number of them.                       *)
(***************************************************************************)
EXTENDS Activity, ServerState, TLAPS, WellFoundedInduction, FiniteSetTheorems

-----------------------------------------------------------------------------
(* The lamp (module Activity): the inductive invariant. *)

(* A poll that found the lease over keeps it so: only an update renews it,   *)
(* and the runtime thread takes none before the poll has ended.              *)
LeaseInv ==
  /\ LeaseShowsAppServer
  /\ (reading # "none" /\ ~leaseWasLive) => lease = 0

(* What the poll holds in its locals at each statement. *)
LocalsInv ==
  /\ reading \in {"none", "turn"} => record = NoRecord
  /\ (reading \in {"identity", "heartbeat", "item"} \/ record.tool) => record.found
  /\ reading # "done" => ~record.tool
  /\ (reading \in {"heartbeat", "item"} \/ record.tool) => turn \in DOMAIN turns

(* An item a poll has looked at is no older than the poll takes it to be;    *)
(* one written since then is no older than the poll itself.                  *)
AgeInv ==
  /\ \A i \in DOMAIN turns : turns[i].item.tool => turns[i].item.age >= 0
  /\ (reading = "item" \/ record.tool) =>
       IF record.heartbeat >= 0
         THEN turns[turn].item.age \in 0..record.heartbeat
         ELSE turns[turn].item.age <= record.started
  /\ record.tool => turns[turn].item.age >= 0 /\ (turns[turn].item.tool \/ disturbed)

(* A poll nobody writes into knows whether a turn is in progress, and the    *)
(* start of one that is.                                                     *)
SeenInv ==
  ~disturbed =>
    /\ record.found => \E i \in InProgress : record.started = turns[i].started
    /\ reading = "done" /\ ~record.found => InProgress = {}

IInv == TypeOK /\ LeaseInv /\ LocalsInv /\ AgeInv /\ SeenInv

-----------------------------------------------------------------------------
(* The newest turn in progress. *)

LEMMA Maximum ==
  ASSUME NEW n \in Nat, NEW I \in SUBSET (1..n), I # {}
  PROVE  \E i \in I : \A j \in I : j <= i
<1> DEFINE Up == {n - i : i \in I}
<1>1. Up \subseteq Nat
  <2>1. \A i \in 1..n : n - i \in Nat
    OBVIOUS
  <2> QED BY <2>1
<1>2. \E x \in Up : \A y \in Up : ~(<<y, x>> \in OpToRel(<, Nat))
  <2>1. Up # {}
    OBVIOUS
  <2> QED BY <1>1, <2>1, NatLessThanWellFounded, WFMin, Zenon
<1>3. PICK x \in Up : \A y \in Up : ~(y < x)
  BY <1>1, <1>2 DEF OpToRel
<1>4. PICK i \in I : x = n - i
  BY <1>3
<1>5. ASSUME NEW j \in I PROVE j <= i
  <2>1. n - j \in Up
    BY <1>5
  <2>2. ~(n - j < n - i)
    BY <2>1, <1>3, <1>4
  <2>3. i \in Int /\ j \in Int
    OBVIOUS
  <2> HIDE DEF Up
  <2> QED BY <2>2, <2>3
<1> QED BY <1>5

LEMMA NewestIsInProgress ==
  ASSUME TypeOK
  PROVE  IF InProgress = {} THEN Newest = 0 ELSE Newest \in InProgress
<1>1. DOMAIN turns = 1..Len(turns) /\ Len(turns) \in Nat
  BY DEF TypeOK
<1>2. ASSUME InProgress # {} PROVE \E i \in InProgress : \A j \in InProgress : j <= i
  BY <1>1, <1>2, Maximum DEF InProgress
<1> QED BY <1>2 DEF Newest

LEMMA TurnTypes ==
  ASSUME TypeOK
  PROVE  /\ DOMAIN turns = 1..Len(turns) /\ Len(turns) \in 0..MaxTurns
         /\ \A i \in DOMAIN turns : turns[i] \in Turns
         /\ InProgress \subseteq DOMAIN turns
BY ActivityAssumption DEF TypeOK, InProgress

LEMMA AgeTypes ==
  ASSUME NEW limit \in Nat
  PROVE  /\ \A age \in 0..(limit + 1) : Older(age, limit) \in 0..(limit + 1)
         /\ \A age \in -1..(limit + 1) : Older(age, limit) \in -1..(limit + 1)
BY DEF Older

LEMMA AgesStayKnown ==
  \A age \in -1..(Fresh + 1) : IF age >= 0 THEN Older(age, Fresh) >= 0 ELSE Older(age, Fresh) = age
BY ActivityAssumption DEF Older

LEMMA Phases ==
  ASSUME NEW r
  PROVE  FromRecord(r) \in States
BY DEF FromRecord, States

-----------------------------------------------------------------------------
(* Type correctness. *)


LEMMA PublishTypes ==
  ASSUME TypeOK, NEW event \in Aggregated \cup States, NEW health, Publish(event, health)
  PROVE  activity' \in States /\ appServer' \in States /\ lease' \in 0..Lease
BY ActivityAssumption DEF TypeOK, Publish, Observe, Aggregated, IsConcrete, NoEvent

LEMMA RecordTypes ==
  /\ NoRecord \in Records
  /\ \A started \in 0..(Hard + 1) :
       [NoRecord EXCEPT !.found = TRUE, !.started = started] \in Records
  /\ \A r \in Records, age \in -1..(Fresh + 1) : [r EXCEPT !.heartbeat = age] \in Records
  /\ \A r \in Records, tool \in BOOLEAN : [r EXCEPT !.tool = tool] \in Records
<1>1. 0 \in 0..(Hard + 1) /\ -1 \in -1..(Fresh + 1)
  BY ActivityAssumption
<1>2. NoRecord \in Records
  BY <1>1 DEF NoRecord, Records
<1> QED BY <1>2 DEF Records

LEMMA InitTypes == Init => TypeOK
<1> SUFFICES ASSUME Init PROVE TypeOK
  OBVIOUS
<1>1. turns \in Seq(Turns) /\ Len(turns) <= MaxTurns
  BY ActivityAssumption DEF Init
<1>2. lease \in 0..Lease /\ turn \in 0..MaxTurns
  BY ActivityAssumption DEF Init
<1>3. kept \in States \cup {NoEvent} /\ activity \in States /\ appServer \in States
  BY DEF Init, States
<1> QED BY <1>1, <1>2, <1>3, RecordTypes DEF Init, TypeOK

(* The desktop program's writes and the passing of time. *)
LEMMA TurnsTypes ==
  ASSUME TypeOK, CodexNext \/ Tick
  PROVE  /\ turns' \in Seq(Turns) /\ Len(turns') <= MaxTurns
         /\ Len(turns) <= Len(turns')
<1> USE TurnTypes, ActivityAssumption
<1>1. NewTurn \in Turns
  BY DEF NewTurn, NoItem, Turns
<1>2. CASE StartTurn
  BY <1>1, <1>2 DEF StartTurn, TypeOK
<1>3. CASE WriteItem
  <2>1. PICK i \in DOMAIN turns, tool \in BOOLEAN :
          turns' = [turns EXCEPT ![i].item = [tool |-> tool, age |-> 0]]
    BY <1>3 DEF WriteItem
  <2>2. [turns[i] EXCEPT !.item = [tool |-> tool, age |-> 0]] \in Turns
    BY DEF Turns
  <2> QED BY <2>1, <2>2 DEF TypeOK
<1>4. CASE EndTurn
  <2>1. PICK i \in DOMAIN turns :
          turns' = [turns EXCEPT ![i].status = "completed", ![i].started = 0]
    BY <1>4 DEF EndTurn
  <2> DEFINE Ended == [turns[i] EXCEPT !.status = "completed", !.started = 0]
  <2>2. turns[i] \in Turns /\ 0 \in 0..(Hard + 1)
    OBVIOUS
  <2>3. Ended \in Turns
    BY <2>2 DEF Turns
  <2>4. turns' = [turns EXCEPT ![i] = Ended]
    BY <2>1, <2>2 DEF Turns, TypeOK
  <2> HIDE DEF Ended
  <2> QED BY <2>3, <2>4 DEF TypeOK
<1>5. CASE Tick
  <2>1. turns' = [i \in DOMAIN turns |-> OlderTurn(turns[i])]
    BY <1>5 DEF Tick
  <2>2. ASSUME NEW i \in DOMAIN turns PROVE OlderTurn(turns[i]) \in Turns
    <3>1. turns[i] \in Turns
      OBVIOUS
    <3>2. Older(turns[i].started, Hard) \in 0..(Hard + 1)
      BY <3>1, AgeTypes DEF Turns
    <3>3. Older(turns[i].item.age, Fresh) \in -1..(Fresh + 1)
      BY <3>1, AgeTypes DEF Turns
    <3> QED BY <3>1, <3>2, <3>3 DEF OlderTurn, Turns
  <2> QED BY <2>1, <2>2 DEF TypeOK
<1> QED BY <1>2, <1>3, <1>4, <1>5 DEF CodexNext

LEMMA PollIdleTypes ==
  ASSUME PollIdle
  PROVE  /\ reading' = "none" /\ leaseWasLive' \in BOOLEAN /\ disturbed' \in BOOLEAN
         /\ record' \in Records /\ turn' \in 0..MaxTurns
<1>1. turn' \in 0..MaxTurns
  BY ActivityAssumption DEF PollIdle
<1> QED BY <1>1, RecordTypes DEF PollIdle

LEMMA StepTypes ==
  ASSUME TypeOK, LocalsInv, [Next]_vars
  PROVE  TypeOK'
<1> USE ActivityAssumption
<1>1. CASE Report
  BY <1>1, PublishTypes DEF Report, TypeOK, session, poll
<1>2. CASE Disconnect
  <2>1. PICK event \in Aggregated : /\ Publish(event, "Disconnected")
                                   /\ kept' \in {kept, event}
                                   /\ link' \in {"backoff", "factory"}
    BY <1>2 DEF Disconnect
  <2> QED BY <1>2, <2>1, PublishTypes DEF Disconnect, TypeOK, poll, Aggregated
<1>3. CASE ConnectFails
  <2>1. activity' \in States /\ appServer' \in States /\ lease' \in 0..Lease
    BY <1>3, PublishTypes DEF ConnectFails, TypeOK, Aggregated
  <2> QED BY <1>3, <2>1 DEF ConnectFails, TypeOK, session, poll
<1>4. CASE Connect
  BY <1>4 DEF Connect, TypeOK, lamp, poll
<1>5. CASE CodexNext
  <2>1. /\ UNCHANGED <<session, lamp, reading, leaseWasLive, record, turn>>
        /\ disturbed' \in BOOLEAN
    BY <1>5 DEF CodexNext, StartTurn, WriteItem, EndTurn, Wrote
  <2> QED BY <1>5, <2>1, TurnsTypes DEF TypeOK, session, lamp
<1>6. CASE BeginPoll
  <2>1. (lease > 0) \in BOOLEAN
    OBVIOUS
  <2> QED BY <1>6, <2>1 DEF BeginPoll, TypeOK, session, lamp
<1>7. CASE ReadTurn
  <2>1. record' \in Records
    <3>1. ASSUME Newest # 0 PROVE turns[Newest].started \in 0..(Hard + 1)
      BY <3>1, NewestIsInProgress, TurnTypes DEF Turns
    <3> QED BY <1>7, <3>1, RecordTypes DEF ReadTurn, TypeOK
  <2> QED BY <1>7, <2>1 DEF ReadTurn, TypeOK, session, lamp
<1>8. CASE ReadIdentity
  <2>1. Newest \in 0..MaxTurns
    BY NewestIsInProgress, TurnTypes
  <2> QED BY <1>8, <2>1 DEF ReadIdentity, TypeOK, session, lamp
<1>9. CASE ReadHeartbeat
  <2>1. turns[turn].item.age \in -1..(Fresh + 1)
    BY <1>9, TurnTypes DEF ReadHeartbeat, LocalsInv, Turns
  <2> QED BY <1>9, <2>1, RecordTypes DEF ReadHeartbeat, TypeOK, session, lamp
<1>10. CASE ReadItemType
  <2>1. turns[turn].item.tool \in BOOLEAN
    BY <1>10, TurnTypes DEF ReadItemType, LocalsInv, Turns
  <2> QED BY <1>10, <2>1, RecordTypes DEF ReadItemType, TypeOK, session, lamp
<1>11. CASE ApplyHistory
  BY <1>11, Phases, PollIdleTypes DEF ApplyHistory, TypeOK, session
<1>12. CASE PollFails
  BY <1>12, PollIdleTypes DEF PollFails, TypeOK, session, lamp
<1>13. CASE Tick
  <2>1. record' \in Records
    <3>1. /\ Older(record.started, Hard) \in 0..(Hard + 1)
          /\ Older(record.heartbeat, Fresh) \in -1..(Fresh + 1)
      BY AgeTypes DEF TypeOK, Records
    <3> QED BY <1>13, <3>1 DEF Tick, TypeOK, Records
  <2> QED BY <1>13, <2>1, TurnsTypes DEF Tick, TypeOK, session
<1>14. CASE UNCHANGED vars
  BY <1>14 DEF vars, session, lamp, poll, TypeOK
<1> QED BY <1>1, <1>2, <1>3, <1>4, <1>5, <1>6, <1>7, <1>8, <1>9, <1>10, <1>11, <1>12, <1>13, <1>14
        DEF Next, SessionNext, RuntimeNext, ReadNext

-----------------------------------------------------------------------------
(* The lease. *)

LEMMA StepLease ==
  ASSUME TypeOK, LeaseInv, [Next]_vars
  PROVE  LeaseInv'
<1> USE ActivityAssumption DEF LeaseInv, LeaseShowsAppServer
<1>0. lease \in 0..Lease /\ leaseWasLive \in BOOLEAN
  BY DEF TypeOK
<1>1. ASSUME NEW event, NEW health, Publish(event, health), UNCHANGED poll PROVE LeaseInv'
  BY <1>0, <1>1 DEF Publish, Observe, poll
<1>2. CASE SessionNext
  <2>1. CASE Connect
    BY <2>1 DEF Connect, lamp, poll
  <2> QED BY <1>1, <1>2, <2>1 DEF SessionNext, Report, Disconnect, ConnectFails
<1>3. CASE CodexNext
  BY <1>3, <1>0 DEF CodexNext, StartTurn, WriteItem, EndTurn, lamp
<1>4. CASE BeginPoll
  <2>1. lease > 0 => leaseWasLive'
    BY <1>4, Zenon DEF BeginPoll
  <2>2. lease = 0 \/ lease > 0
    BY <1>0
  <2> QED BY <1>4, <2>1, <2>2 DEF BeginPoll, lamp
<1>5. CASE ReadNext
  BY <1>5, <1>0 DEF ReadNext, ReadTurn, ReadIdentity, ReadHeartbeat, ReadItemType, lamp
<1>6. CASE ApplyHistory
  BY <1>6, <1>0 DEF ApplyHistory, PollIdle
<1>7. CASE PollFails
  BY <1>7, <1>0 DEF PollFails, PollIdle, lamp
<1>8. CASE Tick
  BY <1>8, <1>0 DEF Tick
<1>9. CASE UNCHANGED vars
  BY <1>9 DEF vars, lamp, poll
<1> QED BY <1>2, <1>3, <1>4, <1>5, <1>6, <1>7, <1>8, <1>9 DEF Next, RuntimeNext

-----------------------------------------------------------------------------
(* The locals of a poll. *)

LEMMA StepLocals ==
  ASSUME TypeOK, LocalsInv, [Next]_vars
  PROVE  LocalsInv'
<1> USE DEF LocalsInv
<1>1. CASE SessionNext \/ UNCHANGED vars
  <2>1. UNCHANGED <<turns, poll>>
    BY <1>1 DEF SessionNext, Report, Disconnect, ConnectFails, Connect, vars
  <2> QED BY <2>1 DEF poll
<1>2. CASE CodexNext
  <2>1. UNCHANGED <<reading, record, turn>>
    BY <1>2 DEF CodexNext, StartTurn, WriteItem, EndTurn
  <2>2. turn \in DOMAIN turns => turn \in DOMAIN turns'
    BY <1>2, TurnsTypes, ActivityAssumption DEF TypeOK
  <2> QED BY <2>1, <2>2
<1>3. CASE BeginPoll
  BY <1>3 DEF BeginPoll, NoRecord
<1>4. CASE ReadTurn
  BY <1>4 DEF ReadTurn, NoRecord
<1>5. CASE ReadIdentity
  BY <1>5, NewestIsInProgress, TurnTypes DEF ReadIdentity
<1>6. CASE ReadHeartbeat
  BY <1>6 DEF ReadHeartbeat, TypeOK, Records
<1>7. CASE ReadItemType
  BY <1>7 DEF ReadItemType, TypeOK, Records
<1>8. CASE ApplyHistory \/ PollFails
  BY <1>8 DEF ApplyHistory, PollFails, PollIdle, NoRecord
<1>9. CASE Tick
  <2>1. DOMAIN turns' = DOMAIN turns
    BY <1>9 DEF Tick
  <2>2. record'.found = record.found /\ record'.tool = record.tool
    BY <1>9 DEF Tick, TypeOK, Records
  <2>3. ASSUME reading \in {"none", "turn"} PROVE record' = NoRecord
    <3>1. record = NoRecord /\ ~record.found
      BY <2>3 DEF NoRecord
    <3> QED BY <1>9, <3>1 DEF Tick
  <2> QED BY <1>9, <2>1, <2>2, <2>3 DEF Tick
<1> QED BY <1>1, <1>2, <1>3, <1>4, <1>5, <1>6, <1>7, <1>8, <1>9 DEF Next, RuntimeNext, ReadNext

-----------------------------------------------------------------------------
(* The age of an item and of the poll that reads it. *)

LEMMA OlderKeepsOrder ==
  /\ \A a, b \in -1..(Fresh + 1) : a <= b => Older(a, Fresh) <= Older(b, Fresh)
  /\ \A a \in -1..(Fresh + 1), b \in 0..(Hard + 1) : a <= b => Older(a, Fresh) <= Older(b, Hard)
BY ActivityAssumption DEF Older

LEMMA StepAges ==
  ASSUME TypeOK, LocalsInv, AgeInv, [Next]_vars
  PROVE  AgeInv'
<1> USE ActivityAssumption DEF AgeInv
<1>0. /\ \A i \in DOMAIN turns : turns[i] \in Turns
      /\ record \in Records /\ record.started \in 0..(Hard + 1)
      /\ record.heartbeat \in -1..(Fresh + 1)
      /\ DOMAIN turns = 1..Len(turns) /\ Len(turns) \in Nat
  BY TurnTypes DEF TypeOK, Records
<1> DEFINE Reads == reading = "item" \/ record.tool
<1>1. Reads => turn \in DOMAIN turns /\ record.found
  BY DEF LocalsInv
<1>2. record.tool => reading = "done"
  BY DEF LocalsInv, TypeOK
<1>3. CASE SessionNext \/ UNCHANGED vars
  <2>1. UNCHANGED <<turns, poll>>
    BY <1>3 DEF SessionNext, Report, Disconnect, ConnectFails, Connect, vars
  <2> QED BY <2>1 DEF poll
<1>4. CASE StartTurn
  <2>1. \A i \in DOMAIN turns' : \/ i \in DOMAIN turns /\ turns'[i] = turns[i]
                                 \/ turns'[i] = NewTurn
    BY <1>4, <1>0 DEF StartTurn
  <2>2. \A i \in DOMAIN turns : turns'[i] = turns[i]
    BY <1>4, <1>0 DEF StartTurn
  <2>3. UNCHANGED <<reading, record, turn>> /\ (record.tool => disturbed')
    BY <1>4, <1>2 DEF StartTurn, Wrote
  <2>4. ~NewTurn.item.tool
    BY DEF NewTurn, NoItem
  <2>5. Reads => turns'[turn] = turns[turn]
    BY <1>1, <2>2
  <2>6. \A i \in DOMAIN turns' : turns'[i].item.tool => turns'[i].item.age >= 0
    BY <2>1, <2>4
  <2> QED BY <2>3, <2>5, <2>6
<1>5. CASE WriteItem
  <2>1. PICK i \in DOMAIN turns, tool \in BOOLEAN :
          turns' = [turns EXCEPT ![i].item = [tool |-> tool, age |-> 0]]
    BY <1>5 DEF WriteItem
  <2>2. /\ DOMAIN turns' = DOMAIN turns
        /\ \A j \in DOMAIN turns : \/ turns'[j].item = turns[j].item
                                   \/ turns'[j].item.age = 0
    BY <2>1, <1>0 DEF Turns
  <2>3. UNCHANGED <<reading, record, turn>> /\ disturbed' = (reading # "none")
    BY <1>5 DEF WriteItem, Wrote
  <2>4. record.tool => disturbed'
    BY <2>3, <1>2
  <2>5. 0 <= record.started /\ (record.heartbeat >= 0 => 0 \in 0..record.heartbeat)
    BY <1>0
  <2> QED BY <1>1, <2>2, <2>3, <2>4, <2>5
<1>6. CASE EndTurn
  <2>1. /\ DOMAIN turns' = DOMAIN turns
        /\ \A j \in DOMAIN turns : turns'[j].item = turns[j].item
    BY <1>6, <1>0, SMTT(40) DEF EndTurn, Turns
  <2>2. UNCHANGED <<reading, record, turn>> /\ (record.tool => disturbed')
    BY <1>6, <1>2 DEF EndTurn, Wrote
  <2> QED BY <1>1, <2>1, <2>2
<1>7. CASE BeginPoll \/ ReadTurn \/ ReadIdentity
  <2>1. ~record.tool /\ ~record'.tool /\ reading' # "item" /\ turns' = turns
    BY <1>7 DEF BeginPoll, ReadTurn, ReadIdentity, LocalsInv, NoRecord
  <2> QED BY <2>1
<1>8. CASE ReadHeartbeat
  <2>1. /\ record'.heartbeat = turns[turn].item.age /\ record'.started = record.started
        /\ record'.tool = record.tool /\ ~record.tool
        /\ turns' = turns /\ turn' = turn
    BY <1>8, <1>0 DEF ReadHeartbeat, Records, LocalsInv
  <2>2. turns[turn].item.age \in -1..(Fresh + 1)
    BY <1>8, <1>0 DEF ReadHeartbeat, LocalsInv, Turns
  <2> QED BY <2>1, <2>2, <1>0
<1>9. CASE ReadItemType
  <2>1. /\ record'.heartbeat = record.heartbeat /\ record'.started = record.started
        /\ record'.tool = turns[turn].item.tool /\ reading = "item" /\ reading' = "done"
        /\ turns' = turns /\ turn' = turn
    BY <1>9, <1>0 DEF ReadItemType, Records
  <2> QED BY <2>1, <1>1
<1>10. CASE ApplyHistory \/ PollFails
  <2>1. ~record'.tool /\ reading' # "item" /\ turns' = turns
    BY <1>10 DEF ApplyHistory, PollFails, PollIdle, NoRecord
  <2> QED BY <2>1
<1>11. CASE Tick
  <2>1. /\ DOMAIN turns' = DOMAIN turns
        /\ \A i \in DOMAIN turns : /\ turns'[i].item.age = Older(turns[i].item.age, Fresh)
                                   /\ turns'[i].item.tool = turns[i].item.tool
    BY <1>11, <1>0 DEF Tick, OlderTurn, Turns
  <2>2. UNCHANGED <<reading, turn, disturbed>>
    BY <1>11 DEF Tick
  <2>3. record.found => /\ record'.started = Older(record.started, Hard)
                        /\ record'.heartbeat = Older(record.heartbeat, Fresh)
    BY <1>11, <1>0 DEF Tick, Records
  <2>4. record'.tool = record.tool
    BY <1>11, <1>0 DEF Tick, Records
  <2>5. \A i \in DOMAIN turns : turns[i].item.age \in -1..(Fresh + 1)
    BY <1>0 DEF Turns
  <2>6. \A i \in DOMAIN turns : turns[i].item.age >= 0 => turns'[i].item.age >= 0
    BY <2>1, <2>5, AgesStayKnown
  <2>7. ASSUME Reads, record.heartbeat >= 0
        PROVE  turns'[turn].item.age \in 0..record'.heartbeat
    <3>1. turns[turn].item.age \in 0..record.heartbeat
      BY <2>7
    <3>2. Older(turns[turn].item.age, Fresh) <= Older(record.heartbeat, Fresh)
      BY <3>1, <1>0, <1>1, <2>5, <2>7, OlderKeepsOrder, SMTT(40)
    <3>3. /\ Older(turns[turn].item.age, Fresh) \in 0..(Fresh + 1)
          /\ Older(record.heartbeat, Fresh) \in 0..(Fresh + 1)
      <4>1. \A age \in -1..(Fresh + 1) : age >= 0 => age \in 0..(Fresh + 1)
        OBVIOUS
      <4>2. turns[turn].item.age >= 0
        BY <3>1
      <4>3. /\ turns[turn].item.age \in 0..(Fresh + 1)
            /\ record.heartbeat \in 0..(Fresh + 1)
        BY <4>1, <4>2, <1>0, <1>1, <2>5, <2>7
      <4> QED BY <4>3, AgeTypes
    <3> QED BY <3>2, <3>3, <1>1, <2>1, <2>3, <2>7
  <2>8. ASSUME Reads, ~(record.heartbeat >= 0)
        PROVE  turns'[turn].item.age <= record'.started
    <3>1. turns[turn].item.age <= record.started
      BY <2>8
    <3> QED BY <3>1, <1>0, <1>1, <2>1, <2>3, <2>5, <2>8, OlderKeepsOrder
  <2>9. ASSUME record.found, record'.heartbeat >= 0
        PROVE  record.heartbeat >= 0
    BY <2>3, <2>9, <1>0, AgesStayKnown
  <2>10. ASSUME record.found, record.heartbeat >= 0
         PROVE  record'.heartbeat >= 0
    BY <2>3, <2>10, <1>0, AgesStayKnown
  <2> QED BY <1>1, <2>1, <2>2, <2>4, <2>6, <2>7, <2>8, <2>9, <2>10
<1> QED BY <1>3, <1>4, <1>5, <1>6, <1>7, <1>8, <1>9, <1>10, <1>11
        DEF Next, CodexNext, RuntimeNext, ReadNext

-----------------------------------------------------------------------------
(* What a poll nobody writes into knows. *)

LEMMA StepSeen ==
  ASSUME TypeOK, LocalsInv, SeenInv, [Next]_vars
  PROVE  SeenInv'
<1> USE DEF SeenInv
<1>0. /\ \A i \in DOMAIN turns : turns[i] \in Turns
      /\ InProgress \subseteq DOMAIN turns
      /\ record \in Records
  BY TurnTypes DEF TypeOK
<1>1. CASE SessionNext \/ UNCHANGED vars
  <2>1. UNCHANGED <<turns, poll>>
    BY <1>1 DEF SessionNext, Report, Disconnect, ConnectFails, Connect, vars
  <2> QED BY <2>1 DEF poll, InProgress
<1>2. CASE CodexNext
  <2>1. UNCHANGED <<reading, record>> /\ disturbed' = (reading # "none")
    BY <1>2 DEF CodexNext, StartTurn, WriteItem, EndTurn, Wrote
  <2>2. reading = "none" => ~record.found
    BY DEF LocalsInv, NoRecord
  <2> QED BY <2>1, <2>2
<1>3. CASE BeginPoll
  BY <1>3 DEF BeginPoll, LocalsInv, NoRecord
<1>4. CASE ReadTurn
  <2>1. CASE Newest # 0 /\ turns[Newest].status = "inProgress"
    <3>1. Newest \in InProgress
      BY <2>1, NewestIsInProgress
    <3>2. record'.started = turns[Newest].started /\ reading' = "identity" /\ turns' = turns
      BY <1>4, <2>1 DEF ReadTurn, NoRecord
    <3> QED BY <3>1, <3>2 DEF InProgress
  <2>2. CASE ~(Newest # 0 /\ turns[Newest].status = "inProgress")
    <3>1. InProgress = {}
      <4>1. \A i \in InProgress : i # 0 /\ turns[i].status = "inProgress"
        BY TurnTypes DEF InProgress
      <4> QED BY <4>1, <2>2, NewestIsInProgress
    <3>2. ~record'.found /\ turns' = turns
      BY <1>4, <2>2 DEF ReadTurn, LocalsInv, NoRecord
    <3> QED BY <3>1, <3>2 DEF InProgress
  <2> QED BY <2>1, <2>2
<1>5. CASE ReadIdentity \/ ReadHeartbeat \/ ReadItemType
  <2>1. /\ record'.found /\ record.found /\ record'.started = record.started
        /\ turns' = turns /\ disturbed' = disturbed
    BY <1>5, <1>0 DEF ReadIdentity, ReadHeartbeat, ReadItemType, LocalsInv, Records
  <2> QED BY <2>1 DEF InProgress
<1>6. CASE ApplyHistory \/ PollFails
  BY <1>6 DEF ApplyHistory, PollFails, PollIdle, NoRecord
<1>7. CASE Tick
  <2>1. /\ DOMAIN turns' = DOMAIN turns
        /\ \A i \in DOMAIN turns :
             /\ turns'[i].status = turns[i].status
             /\ turns[i].status = "inProgress" => turns'[i].started = Older(turns[i].started, Hard)
    BY <1>7, <1>0 DEF Tick, OlderTurn, Turns
  <2>2. InProgress' = InProgress
    BY <2>1 DEF InProgress
  <2>3. /\ record'.found = record.found /\ UNCHANGED <<reading, disturbed>>
        /\ record.found => record'.started = Older(record.started, Hard)
    BY <1>7, <1>0 DEF Tick, Records
  <2>4. ASSUME NEW i \in InProgress, record.found, record.started = turns[i].started
        PROVE  record'.started = turns'[i].started
    BY <2>1, <2>3, <2>4 DEF InProgress
  <2> QED BY <2>2, <2>3, <2>4
<1> QED BY <1>1, <1>2, <1>3, <1>4, <1>5, <1>6, <1>7 DEF Next, RuntimeNext, ReadNext

-----------------------------------------------------------------------------
(* The theorems. *)

LEMMA InitHolds == Init => IInv
<1> SUFFICES ASSUME Init PROVE IInv
  OBVIOUS
<1>1. LeaseInv /\ LocalsInv
  BY DEF Init, LeaseInv, LeaseShowsAppServer, LocalsInv, NoRecord
<1>2. AgeInv /\ SeenInv
  BY DEF Init, AgeInv, SeenInv, NoRecord
<1> QED BY <1>1, <1>2, InitTypes DEF IInv

LEMMA Inductive == Spec => []IInv
<1>1. IInv /\ [Next]_vars => IInv'
  BY StepTypes, StepLease, StepLocals, StepAges, StepSeen DEF IInv
<1> QED BY <1>1, InitHolds, PTL DEF Spec

(* Every variable keeps its type: the poll reads no row that does not exist, *)
(* whatever is written between its statements.                               *)
THEOREM TypeCorrect == Spec => []TypeOK
<1>1. IInv => TypeOK
  BY DEF IInv
<1> QED BY <1>1, Inductive, PTL

(* While the App Server's lease runs the lamp shows its last phase.          *)
THEOREM LeaseIsKept == Spec => []LeaseShowsAppServer
<1>1. IInv => LeaseShowsAppServer
  BY DEF IInv, LeaseInv
<1> QED BY <1>1, Inductive, PTL

(* No poll takes an old item for a new one, for every time to live and every *)
(* write between its statements.                                             *)
THEOREM ExecutingIsEvident == Spec => ExecutingHasEvidence
<1> DEFINE Evident ==
      (ApplyHistory /\ ~leaseWasLive /\ activity' = "Executing") =>
        \E i \in DOMAIN turns : /\ turns[i].item.age \in 0..Fresh
                                /\ turns[i].item.tool \/ disturbed
<1>1. ASSUME IInv, ApplyHistory, ~leaseWasLive, activity' = "Executing"
      PROVE  /\ turn \in DOMAIN turns /\ turns[turn].item.age \in 0..Fresh
             /\ turns[turn].item.tool \/ disturbed
  <2>1. FromRecord(record) = "Executing"
    BY <1>1 DEF ApplyHistory
  <2>2. /\ record.tool
        /\ (IF record.heartbeat >= 0 THEN record.heartbeat ELSE record.started) <= Fresh
    BY <2>1 DEF FromRecord
  <2>3. record.started \in Nat /\ record.heartbeat \in Int
    BY <1>1, ActivityAssumption DEF IInv, TypeOK, Records
  <2>4. turn \in DOMAIN turns
    BY <1>1, <2>2 DEF IInv, LocalsInv
  <2>5. turns[turn].item.age \in Int
    BY <1>1, <2>4, TurnTypes, ActivityAssumption DEF IInv, Turns
  <2>6. turns[turn].item.age >= 0 /\ (turns[turn].item.tool \/ disturbed)
    BY <1>1, <2>2 DEF IInv, AgeInv
  <2>7. turns[turn].item.age <= Fresh
    BY <1>1, <2>2, <2>3, <2>5, ActivityAssumption DEF IInv, AgeInv
  <2> QED BY <2>4, <2>5, <2>6, <2>7, ActivityAssumption
<1>2. IInv /\ [Next]_vars => [Evident]_vars
  BY <1>1
<1> QED BY <1>2, Inductive, PTL DEF Spec, ExecutingHasEvidence

(* A poll nobody writes into shows a turn in progress, whatever newer turns  *)
(* have finished, and none when there is none.                               *)
THEOREM InProgressIsSeen == Spec => InProgressSeen
<1> DEFINE Seen ==
      (ApplyHistory /\ ~disturbed /\ ~leaseWasLive) =>
        /\ (\E i \in InProgress : \A j \in InProgress : turns[j].started <= Hard) => activity' \in Running
        /\ InProgress = {} => activity' \notin Running
<1>1. ASSUME IInv, ApplyHistory, ~disturbed, ~leaseWasLive
      PROVE  Seen
  <2>1. activity' = FromRecord(record) /\ reading = "done"
    BY <1>1 DEF ApplyHistory
  <2>2. ~record.found => activity' \notin Running
    BY <2>1 DEF FromRecord, Running
  <2>3. (record.found /\ record.started <= Hard) => activity' \in Running
    BY <2>1 DEF FromRecord, Running
  <2>4. ~record.found => InProgress = {}
    BY <1>1, <2>1 DEF IInv, SeenInv
  <2>5. record.found => \E i \in InProgress : record.started = turns[i].started
    BY <1>1 DEF IInv, SeenInv
  <2> QED BY <2>2, <2>3, <2>4, <2>5
<1>2. IInv /\ [Next]_vars => [Seen]_vars
  BY <1>1
<1> QED BY <1>2, Inductive, PTL DEF Spec, InProgressSeen

-----------------------------------------------------------------------------
(* The state of the App Server (module ServerState): options. *)

LEMMA OptionFacts ==
  ASSUME NEW S, NEW d
  PROVE  /\ S = {} => Or(S, d) = d
         /\ S # {} => Or(S, d) \in S
         /\ IsOption(S) => \A x \in S : S = {x} /\ Or(S, d) = x
BY DEF Or, IsOption

-----------------------------------------------------------------------------
(* The lamp over the threads. *)

LampInv ==
  /\ now \in Nat
  /\ \A t \in DOMAIN threads : threads[t].state \in States /\ threads[t].at \in Nat

LEMMA Priorities ==
  /\ Priority("Failed") = 8 /\ Priority("WaitingForUser") = 7
  /\ \A s \in States \ {"Failed", "WaitingForUser"} : Priority(s) \in 1..6
<1>1. DOMAIN ByPriority = 1..8
  BY DEF ByPriority
<1>2. /\ ByPriority[1] = "Unknown" /\ ByPriority[2] = "Idle" /\ ByPriority[3] = "Completed"
      /\ ByPriority[4] = "Thinking" /\ ByPriority[5] = "Reviewing" /\ ByPriority[6] = "Executing"
      /\ ByPriority[7] = "WaitingForUser" /\ ByPriority[8] = "Failed"
  BY DEF ByPriority
<1>3. \A s : Priority(s) = CHOOSE i \in 1..8 : ByPriority[i] = s
  BY <1>1 DEF Priority
<1>4. \A i \in 1..8 : \/ i = 1 \/ i = 2 \/ i = 3 \/ i = 4 \/ i = 5 \/ i = 6 \/ i = 7 \/ i = 8
  OBVIOUS
<1>5. \A i \in 1..8 : ByPriority[i] = "Failed" => i = 8
  BY <1>2, <1>4
<1>6. \A i \in 1..8 : ByPriority[i] = "WaitingForUser" => i = 7
  BY <1>2, <1>4
<1>7. \A s \in States : \E i \in 1..8 : ByPriority[i] = s
  BY <1>2 DEF States
<1>8. \A i \in 1..8 : i \in 1..6 \/ i = 7 \/ i = 8
  OBVIOUS
<1>9. \A s \in States : Priority(s) \in 1..8 /\ ByPriority[Priority(s)] = s
  BY <1>3, <1>7
<1>10. "Failed" \in States /\ "WaitingForUser" \in States
  BY DEF States
<1>11. Priority("Failed") = 8 /\ Priority("WaitingForUser") = 7
  BY <1>5, <1>6, <1>9, <1>10
<1>12. \A s \in States \ {"Failed", "WaitingForUser"} : Priority(s) \in 1..6
  BY <1>2, <1>8, <1>9
<1> QED BY <1>11, <1>12

(* Among states one of which waits, the most urgent is that one or a failure. *)
LEMMA WaitingIsUrgent ==
  ASSUME NEW states \in SUBSET States, "WaitingForUser" \in states
  PROVE  /\ Aggregate(states) \in states
         /\ Aggregate(states) \in {"WaitingForUser", "Failed"}
<1> DEFINE Top(s) == s \in states /\ \A t \in states : Priority(t) <= Priority(s)
<1>1. \A t \in states : Priority(t) \in 1..8 /\ Priority(t) <= 8 
  <2> TAKE t \in states
  <2>1. t = "Failed" \/ t = "WaitingForUser" \/ Priority(t) \in 1..6
    BY Priorities
  <2> QED BY <2>1, Priorities
<1>3. \E s : Top(s)
  <2>1. CASE "Failed" \in states
    BY <1>1, <2>1, Priorities
  <2>2. CASE "Failed" \notin states
    <3>1. \A t \in states : Priority(t) <= 7
      <4> TAKE t \in states
      <4>1. t = "WaitingForUser" \/ Priority(t) \in 1..6
        BY <2>2, Priorities
      <4> QED BY <4>1, Priorities
    <3> QED BY <3>1, Priorities
  <2> QED BY <2>1, <2>2
<1>4. Top(Aggregate(states))
  BY <1>3 DEF Aggregate
<1>5. 7 <= Priority(Aggregate(states))
  BY <1>4, Priorities
<1>6. Aggregate(states) \in States /\ ~(Priority(Aggregate(states)) \in 1..6)
  BY <1>4, <1>5
<1> HIDE DEF Top
<1>7. Aggregate(states) \in {"WaitingForUser", "Failed"}
  BY <1>6, Priorities
<1> QED BY <1>4, <1>7 DEF Top

LEMMA LampShowsWaiting == LampInv => WaitingShown
<1> SUFFICES ASSUME LampInv, NEW w \in DOMAIN threads, threads[w].state = "WaitingForUser"
             PROVE  \/ Lamp = {"WaitingForUser"}
                    \/ Lamp = {"Failed"} /\ \E t \in DOMAIN threads :
                         threads[t].state = "Failed" /\ now - threads[t].at <= NoticeTicks
  BY DEF WaitingShown
<1> DEFINE Counts(t) == ~IsTerminal(threads[t].state) \/ now - threads[t].at <= NoticeTicks
           candidates == {threads[t].state : t \in {u \in DOMAIN threads : Counts(u)}}
<1>1. Lamp = IF candidates # {} THEN {Aggregate(candidates)} ELSE {e.state : e \in lastActivity}
  BY DEF Lamp
<1>2. candidates \in SUBSET States /\ "WaitingForUser" \in candidates
  BY DEF LampInv, IsTerminal
<1>3. \A t \in DOMAIN threads : Counts(t) /\ threads[t].state = "Failed" => now - threads[t].at <= NoticeTicks
  BY DEF IsTerminal
<1>4. "Failed" \in candidates => \E t \in DOMAIN threads : Counts(t) /\ threads[t].state = "Failed"
  OBVIOUS
<1> HIDE DEF candidates, Counts
<1>5. Lamp = {Aggregate(candidates)}
  BY <1>1, <1>2
<1>6. Aggregate(candidates) \in candidates /\ Aggregate(candidates) \in {"WaitingForUser", "Failed"}
  BY <1>2, WaitingIsUrgent
<1> QED BY <1>3, <1>4, <1>5, <1>6

LEMMA LampLetsGo == LampInv => OldFailureYields
<1> SUFFICES ASSUME LampInv PROVE OldFailureYields
  OBVIOUS
<1> DEFINE Counts(t) == ~IsTerminal(threads[t].state) \/ now - threads[t].at <= NoticeTicks
           candidates == {threads[t].state : t \in {u \in DOMAIN threads : Counts(u)}}
           living == {threads[t].state : t \in {u \in DOMAIN threads : Live(u)}}
<1>1. Lamp = IF candidates # {} THEN {Aggregate(candidates)} ELSE {e.state : e \in lastActivity}
  BY DEF Lamp
<1>2. \A t \in DOMAIN threads : now - threads[t].at > NoticeTicks => ~(now - threads[t].at <= NoticeTicks)
  BY ServerAssumption DEF LampInv
<1>3. ASSUME \E t \in DOMAIN threads : Live(t),
             \A t \in DOMAIN threads : Live(t) \/ now - threads[t].at > NoticeTicks
      PROVE  Lamp = {Aggregate(living)}
  <2>1. \A t \in DOMAIN threads : Counts(t) <=> Live(t)
    BY <1>2, <1>3, Zenon DEF Live
  <2>2. candidates = living /\ candidates # {}
    BY <1>3, <2>1
  <2> HIDE DEF candidates, living
  <2> QED BY <1>1, <2>2
<1>4. ASSUME \A t \in DOMAIN threads : ~Live(t) /\ now - threads[t].at > NoticeTicks
      PROVE  Lamp = {e.state : e \in lastActivity}
  <2>1. \A t \in DOMAIN threads : ~Counts(t)
    BY <1>2, <1>4, Zenon DEF Live
  <2>2. candidates = {}
    BY <2>1
  <2> HIDE DEF candidates
  <2> QED BY <1>1, <2>2
<1> QED BY <1>3, <1>4, Zenon DEF OldFailureYields

LEMMA StatusStates == \A status : StatusState(status) \subseteq States
BY DEF StatusState, States

LEMMA ClassifiedStates ==
  ASSUME NEW event
  PROVE  Classified(event) \subseteq States
<1>1. /\ "Failed" \in States /\ "WaitingForUser" \in States /\ "Unknown" \in States
      /\ "Thinking" \in States /\ "Executing" \in States /\ "Completed" \in States
  BY DEF States
<1>2. /\ Or(StatusState(event.status), "Unknown") \in States
      /\ Or(StatusState(event.status), "Thinking") \in States
  BY <1>1, StatusStates, OptionFacts, Zenon
<1>3. ItemStarted(event) \in States
  BY <1>1, <1>2 DEF ItemStarted
<1> QED BY <1>1, <1>2, <1>3 DEF Classified, Methods

LEMMA LampInit == ServerInit => LampInv
BY DEF ServerInit, LampInv, Empty

LEMMA LampStep == LampInv /\ [ServerNext]_serverVars => LampInv'
<1> SUFFICES ASSUME LampInv, [ServerNext]_serverVars PROVE LampInv'
  OBVIOUS
<1>1. CASE now' = now /\ threads' = threads
  BY <1>1 DEF LampInv
<1>2. CASE TimePasses
  BY <1>2 DEF TimePasses, LampInv
<1>3. ASSUME NEW e \in ActivityEvents, ActivityNotified(e)
      PROVE  LampInv'
  <2> DEFINE said == Classified(e)
             Record == [state |-> Or(said, "Unknown"), at |-> now]
  <2>1. now' = now /\ threads' = IF said = {} \/ e.thread = {} THEN threads
                                 ELSE Put(threads, Or(e.thread, ""), Record)
    BY <1>3 DEF ActivityNotified
  <2>2. Record.state \in States /\ Record.at \in Nat
    <3>1. "Unknown" \in States
      BY DEF States
    <3> QED BY <3>1, ClassifiedStates, OptionFacts, Zenon DEF LampInv
  <2> HIDE DEF Record
  <2> QED BY <2>1, <2>2 DEF LampInv, Put
<1>4. ASSUME LoginTold PROVE LampInv'
  BY <1>4 DEF LoginTold, AccountUpdated, ResetAccountGeneration, LampInv, Empty
<1>5. \/ now' = now /\ threads' = threads
      \/ TimePasses
      \/ LoginTold
      \/ \E e \in ActivityEvents : ActivityNotified(e)
  BY DEF ServerNext, serverVars, ReadAccount, LoginTold, ReadRateLimits, RateLimitsUpdated,
         ReadUsage, TokenUsageUpdated
<1> QED BY <1>1, <1>2, <1>3, <1>4, <1>5

LEMMA LampHolds == ServerSpec => []LampInv
BY LampInit, LampStep, PTL DEF ServerSpec

(* A thread that waits for the user is shown, and an old failure is not, in  *)
(* any state of any number of threads (aggregated_activity, state.rs:190).   *)
THEOREM LampStaysUseful == ServerSpec => []LampIsUseful
<1>1. LampInv => LampIsUseful
  BY LampShowsWaiting, LampLetsGo DEF LampIsUseful
<1> QED BY LampHolds, <1>1, PTL

-----------------------------------------------------------------------------
(* Patches: what is said stays, and the same patch again changes nothing. *)

LEMMA LookupFacts ==
  ASSUME NEW o, NEW k
  PROVE  IsOption(Lookup(o, k))
BY DEF IsOption, Lookup

LEMMA MergeObjectFacts ==
  ASSUME NEW old, NEW new
  PROVE  /\ Said(old) \subseteq Said(MergeObject(old, new))
         /\ Said(MergeObject(old, new)) \subseteq Said(old) \cup Said(new)
         /\ \A k \in Said(MergeObject(old, new)) :
              MergeObject(old, new)[k] = IF k \in Said(new) THEN new[k] ELSE old[k]
         /\ MergeObject(MergeObject(old, new), new) = MergeObject(old, new)
<1> DEFINE once == MergeObject(old, new)
<1>1. /\ once = [k \in DOMAIN old \cup Said(new) |-> IF k \in Said(new) THEN new[k] ELSE old[k]]
      /\ MergeObject(once, new)
           = [k \in DOMAIN once \cup Said(new) |-> IF k \in Said(new) THEN new[k] ELSE once[k]]
  BY DEF MergeObject
<1>2. \A k \in Said(new) : k \in DOMAIN new /\ new[k] # Null
  BY DEF Said
<1> HIDE DEF once
<1>3. /\ DOMAIN once = DOMAIN old \cup Said(new)
      /\ \A k \in DOMAIN once : once[k] = IF k \in Said(new) THEN new[k] ELSE old[k]
  BY <1>1
<1>4. Said(old) \subseteq Said(once) /\ Said(once) \subseteq Said(old) \cup Said(new)
  BY <1>2, <1>3 DEF Said
<1>5. \A k \in Said(once) : once[k] = IF k \in Said(new) THEN new[k] ELSE old[k]
  BY <1>3 DEF Said
<1>6. MergeObject(once, new) = once
  <2>1. DOMAIN once \cup Said(new) = DOMAIN once
    BY <1>3
  <2>2. \A k \in DOMAIN once : (IF k \in Said(new) THEN new[k] ELSE once[k]) = once[k]
    BY <1>3
  <2>3. once = [k \in DOMAIN once |-> once[k]]
    BY <1>1
  <2> QED BY <1>1, <2>1, <2>2, <2>3
<1> QED BY <1>4, <1>5, <1>6 DEF once

LEMMA MergeAccountFacts ==
  ASSUME NEW old, NEW patch
  PROVE  /\ MergeAccount(old, patch).fields = MergeObject(old.fields, patch.fields)
         /\ MergeAccount(MergeAccount(old, patch), patch) = MergeAccount(old, patch)
<1> DEFINE once == MergeAccount(old, patch)
<1>1. /\ once = [fields |-> MergeObject(old.fields, patch.fields),
                 requiresAuth |-> IF patch.requiresAuth # {} THEN patch.requiresAuth ELSE old.requiresAuth]
      /\ MergeAccount(once, patch)
           = [fields |-> MergeObject(once.fields, patch.fields),
              requiresAuth |-> IF patch.requiresAuth # {} THEN patch.requiresAuth ELSE once.requiresAuth]
  BY DEF MergeAccount
<1> HIDE DEF once
<1>2. once.fields = MergeObject(old.fields, patch.fields)
  BY <1>1
<1>3. MergeObject(once.fields, patch.fields) = once.fields
  BY <1>2, MergeObjectFacts
<1>4. (IF patch.requiresAuth # {} THEN patch.requiresAuth ELSE once.requiresAuth) = once.requiresAuth
  BY <1>1
<1>5. once = [fields |-> once.fields, requiresAuth |-> once.requiresAuth]
  BY <1>1
<1>6. MergeAccount(once, patch) = once
  BY <1>1, <1>3, <1>4, <1>5
<1> QED BY <1>2, <1>6 DEF once

IsWindow(w) ==
  /\ w = [used |-> w.used, duration |-> w.duration, resets |-> w.resets]
  /\ w.duration \in Nat /\ IsOption(w.resets)

IsSlot(S) == IsOption(S) /\ \A w \in S : IsWindow(w)

LEMMA MergeWindowFacts ==
  ASSUME NEW old, IsSlot(old), NEW patch, IsOption(patch),
         \A w \in patch : Lookup(w, "duration") \subseteq Nat
  PROVE  /\ IsSlot(MergeWindow(old, patch))
         /\ old # {} => MergeWindow(old, patch) # {}
         /\ \A w \in MergeWindow(old, patch) :
              \/ w.duration = 0
              \/ \E v \in old : w.duration = v.duration
              \/ \E v \in patch : w.duration \in Lookup(v, "duration")
         /\ MergeWindow(MergeWindow(old, patch), patch) = MergeWindow(old, patch)
<1>1. CASE patch = {}
  <2>1. \A S : MergeWindow(S, patch) = S
    BY <1>1 DEF MergeWindow
  <2> QED BY <2>1
<1>2. CASE patch # {}
  <2>1. PICK p : p \in patch /\ Or(patch, Empty) = p
    BY <1>2, OptionFacts
  <2> DEFINE NoWindow == [used |-> 0, duration |-> 0, resets |-> {}]
             Was(S) == Or(S, NoWindow)
             New(w) == [used |-> Or(Lookup(p, "used"), w.used),
                        duration |-> Or(Lookup(p, "duration"), w.duration),
                        resets |-> IF Lookup(p, "resets") # {} THEN Lookup(p, "resets") ELSE w.resets]
  <2>2. \A S : MergeWindow(S, patch) = {New(Was(S))}
    BY <1>2, <2>1 DEF MergeWindow
  <2>3. PICK w : w = Was(old)
    OBVIOUS
  <2>4. IsWindow(w) /\ (w.duration = 0 \/ \E v \in old : w.duration = v.duration)
    <3>1. CASE old = {}
      <4>1. w = NoWindow
        BY <2>3, <3>1, OptionFacts
      <4> QED BY <4>1 DEF IsWindow, IsOption
    <3>2. CASE old # {}
      <4>1. w \in old
        BY <2>3, <3>2, OptionFacts
      <4> QED BY <4>1 DEF IsSlot
    <3> QED BY <3>1, <3>2
  <2>5. PICK n : n = New(w)
    OBVIOUS
  <2>6. /\ n.used = Or(Lookup(p, "used"), w.used)
        /\ n.duration = Or(Lookup(p, "duration"), w.duration)
        /\ n.resets = IF Lookup(p, "resets") # {} THEN Lookup(p, "resets") ELSE w.resets
        /\ n = [used |-> n.used, duration |-> n.duration, resets |-> n.resets]
    BY <2>5
  <2>7. \/ Lookup(p, "duration") = {} /\ n.duration = w.duration
        \/ n.duration \in Lookup(p, "duration")
    BY <2>6, OptionFacts
  <2>8. n.duration \in Nat
    BY <2>1, <2>4, <2>7 DEF IsWindow
  <2>9. IsOption(n.resets)
    BY <2>4, <2>6, LookupFacts DEF IsWindow
  <2>10. IsWindow(n)
    BY <2>6, <2>8, <2>9 DEF IsWindow
  <2>11. New(n) = n
    <3>1. \A k, d, e : Or(Lookup(p, k), Or(Lookup(p, k), d)) = Or(Lookup(p, k), d)
      <4> TAKE k, d, e
      <4>1. CASE Lookup(p, k) = {}
        BY <4>1, OptionFacts
      <4>2. CASE Lookup(p, k) # {}
        BY <4>2, LookupFacts, OptionFacts
      <4> QED BY <4>1, <4>2
    <3>2. /\ Or(Lookup(p, "used"), n.used) = n.used
          /\ Or(Lookup(p, "duration"), n.duration) = n.duration
      BY <2>6, <3>1
    <3>3. (IF Lookup(p, "resets") # {} THEN Lookup(p, "resets") ELSE n.resets) = n.resets
      BY <2>6
    <3> QED BY <2>6, <3>2, <3>3
  <2>12. MergeWindow(old, patch) = {n}
    BY <2>2, <2>3, <2>5
  <2>13. Was({n}) = n
    BY OptionFacts DEF IsOption
  <2>14. MergeWindow({n}, patch) = {n}
    BY <2>2, <2>11, <2>13
  <2>15. IsSlot({n})
    BY <2>10 DEF IsSlot, IsOption
  <2>16. \/ n.duration = 0
         \/ \E v \in old : n.duration = v.duration
         \/ \E v \in patch : n.duration \in Lookup(v, "duration")
    BY <2>1, <2>4, <2>7
  <2> HIDE DEF New, Was, NoWindow
  <2> QED BY <2>12, <2>14, <2>15, <2>16
<1> QED BY <1>1, <1>2

LEMMA MergeNestedFacts ==
  ASSUME NEW old, NEW patch, IsOption(old), IsOption(patch), \A c \in patch : IsObject(c)
  PROVE  /\ IsOption(MergeNested(old, patch))
         /\ \A c \in old : \A d \in MergeNested(old, patch) : Said(c) \subseteq Said(d)
         /\ MergeNested(MergeNested(old, patch), patch) = MergeNested(old, patch)
<1>1. CASE patch = {}
  <2>1. \A S : MergeNested(S, patch) = S
    BY <1>1 DEF MergeNested
  <2> QED BY <2>1 DEF IsOption
<1>2. ASSUME patch # {}, old = {}
      PROVE  /\ MergeNested(old, patch) = patch
             /\ MergeNested(patch, patch) = patch
  <2>1. PICK p : patch = {p} /\ Or(patch, Empty) = p /\ IsObject(p)
    BY <1>2, OptionFacts
  <2>2. MergeObject(p, p) = p
    <3>1. MergeObject(p, p) = [k \in DOMAIN p |-> p[k]]
      <4>1. DOMAIN p \cup Said(p) = DOMAIN p
        BY DEF Said
      <4>2. MergeObject(p, p) = [k \in DOMAIN p \cup Said(p) |-> p[k]]
        BY DEF MergeObject
      <4> QED BY <4>1, <4>2
    <3> QED BY <2>1, <3>1 DEF IsObject
  <2>3. MergeNested(patch, patch) = {MergeObject(p, p)}
    BY <1>2, <2>1 DEF MergeNested
  <2>4. MergeNested(old, patch) = patch
    BY <1>2 DEF MergeNested
  <2> QED BY <2>1, <2>2, <2>3, <2>4
<1>3. CASE patch # {} /\ old # {}
  <2>1. PICK p, o : patch = {p} /\ Or(patch, Empty) = p /\ old = {o} /\ Or(old, Empty) = o
    BY <1>3, OptionFacts
  <2>2. PICK n : n = MergeObject(o, p)
    OBVIOUS
  <2>3. MergeNested(old, patch) = {n}
    BY <1>3, <2>1, <2>2 DEF MergeNested
  <2>4. MergeNested({n}, patch) = {MergeObject(n, p)}
    <3>1. Or({n}, Empty) = n
      BY OptionFacts DEF IsOption
    <3> QED BY <1>3, <2>1, <3>1 DEF MergeNested
  <2>5. MergeObject(n, p) = n /\ Said(o) \subseteq Said(n)
    BY <2>2, MergeObjectFacts
  <2> QED BY <2>1, <2>3, <2>4, <2>5 DEF IsOption
<1> QED BY <1>1, <1>2, <1>3

(* The counts of a notification, its own, those of its usage and of its      *)
(* total, one after the other.                                               *)
AllCounts(counts, patch) ==
  MergeCounts(MergeCounts(MergeCounts(counts, patch.own), patch.usage), patch.total)

LEMMA AllCountsFacts ==
  ASSUME NEW counts, NEW patch
  PROVE  /\ Said(counts) \subseteq Said(AllCounts(counts, patch))
         /\ AllCounts(AllCounts(counts, patch), patch) = AllCounts(counts, patch)
<1> DEFINE Latest(c, k) == IF k \in Said(patch.total) THEN patch.total[k]
                           ELSE IF k \in Said(patch.usage) THEN patch.usage[k]
                           ELSE IF k \in Said(patch.own) THEN patch.own[k] ELSE c[k]
           Keys(c) == DOMAIN c \cup Said(patch.own) \cup Said(patch.usage) \cup Said(patch.total)
<1>1. ASSUME NEW c
      PROVE  AllCounts(c, patch) = [k \in Keys(c) |-> Latest(c, k)]
  <2>1. PICK a : a = MergeCounts(c, patch.own)
    OBVIOUS
  <2>2. PICK b : b = MergeCounts(a, patch.usage)
    OBVIOUS
  <2>3. /\ DOMAIN a = DOMAIN c \cup Said(patch.own)
        /\ \A k \in DOMAIN a : a[k] = IF k \in Said(patch.own) THEN patch.own[k] ELSE c[k]
    BY <2>1 DEF MergeCounts, MergeObject
  <2>4. /\ DOMAIN b = DOMAIN a \cup Said(patch.usage)
        /\ \A k \in DOMAIN b : b[k] = IF k \in Said(patch.usage) THEN patch.usage[k] ELSE a[k]
    BY <2>2 DEF MergeCounts, MergeObject
  <2>5. AllCounts(c, patch)
          = [k \in DOMAIN b \cup Said(patch.total) |-> IF k \in Said(patch.total) THEN patch.total[k] ELSE b[k]]
    BY <2>1, <2>2 DEF AllCounts, MergeCounts, MergeObject
  <2>6. DOMAIN b \cup Said(patch.total) = Keys(c)
    BY <2>3, <2>4
  <2>7. \A k \in Keys(c) : (IF k \in Said(patch.total) THEN patch.total[k] ELSE b[k]) = Latest(c, k)
    BY <2>3, <2>4
  <2> HIDE DEF Keys, Latest
  <2> QED BY <2>5, <2>6, <2>7
<1>2. PICK once : once = AllCounts(counts, patch)
  OBVIOUS
<1>3. DOMAIN once = Keys(counts) /\ \A k \in Keys(counts) : once[k] = Latest(counts, k)
  <2> HIDE DEF Keys, Latest
  <2> QED BY <1>1, <1>2
<1>4. AllCounts(once, patch) = once
  <2>1. Keys(once) = DOMAIN once
    BY <1>3
  <2>2. \A k \in DOMAIN once : Latest(once, k) = once[k]
    BY <1>3
  <2>3. once = [k \in DOMAIN once |-> once[k]]
    <3> HIDE DEF Keys, Latest
    <3> QED BY <1>1, <1>2
  <2>4. AllCounts(once, patch) = [k \in Keys(once) |-> Latest(once, k)]
    BY <1>1
  <2> HIDE DEF Keys, Latest
  <2> QED BY <2>1, <2>2, <2>3, <2>4
<1>5. Said(counts) \subseteq Said(once)
  <2>1. /\ Said(counts) \subseteq Said(MergeCounts(counts, patch.own))
        /\ \A c : Said(c) \subseteq Said(MergeCounts(c, patch.usage))
        /\ \A c : Said(c) \subseteq Said(MergeCounts(c, patch.total))
    BY MergeObjectFacts DEF MergeCounts
  <2> QED BY <1>2, <2>1 DEF AllCounts
<1> QED BY <1>2, <1>4, <1>5

LEMMA MergeTokenUsageFacts ==
  ASSUME NEW old, IsOption(old), NEW patch
  PROVE  /\ IsOption(MergeTokenUsage(old, patch))
         /\ \A u \in MergeTokenUsage(old, patch) :
              u.thread \in {patch.inner, patch.outer, {}} \cup {v.thread : v \in old}
         /\ \A u \in old : \A v \in MergeTokenUsage(old, patch) : Said(u.counts) \subseteq Said(v.counts)
         /\ MergeTokenUsage(MergeTokenUsage(old, patch), patch) = MergeTokenUsage(old, patch)
<1> DEFINE Nothing == [thread |-> {}, counts |-> Empty, last |-> {}]
           Was(S) == Or(S, Nothing)
           Thread(u) == IF patch.inner # {} THEN patch.inner
                        ELSE IF patch.outer # {} THEN patch.outer ELSE u.thread
           Last(u) == IF patch.last = {} THEN u.last
                      ELSE {MergeCounts(Or(u.last, Empty), Or(patch.last, Empty))}
           New(u) == [thread |-> Thread(u), counts |-> AllCounts(u.counts, patch), last |-> Last(u)]
<1>1. \A S : MergeTokenUsage(S, patch) = {New(Was(S))}
  BY DEF MergeTokenUsage, AllCounts
<1>2. PICK u : u = Was(old)
  OBVIOUS
<1>3. \/ old = {} /\ u.thread = {}
      \/ old = {u}
  <2>1. CASE old = {}
    <3>1. u = Nothing
      BY <1>2, <2>1, OptionFacts
    <3> QED BY <2>1, <3>1
  <2>2. CASE old # {}
    BY <1>2, <2>2, OptionFacts
  <2> QED BY <2>1, <2>2
<1>4. PICK n : n = New(u)
  OBVIOUS
<1>5. /\ n.thread = Thread(u) /\ n.counts = AllCounts(u.counts, patch) /\ n.last = Last(u)
      /\ n = [thread |-> n.thread, counts |-> n.counts, last |-> n.last]
  <2> HIDE DEF Thread, Last
  <2> QED BY <1>4
<1>6. MergeTokenUsage(old, patch) = {n}
  BY <1>1, <1>2, <1>4
<1>7. Was({n}) = n
  BY OptionFacts DEF IsOption
<1>8. Thread(n) = n.thread
  BY <1>5
<1>9. Last(n) = n.last
  <2>1. CASE patch.last = {}
    BY <2>1
  <2>2. CASE patch.last # {}
    <3>1. PICK l : l = Or(patch.last, Empty)
      OBVIOUS
    <3>2. PICK c : c = MergeCounts(Or(u.last, Empty), l)
      OBVIOUS
    <3>3. n.last = {c}
      BY <1>5, <2>2, <3>1, <3>2
    <3>4. Or({c}, Empty) = c
      BY OptionFacts DEF IsOption
    <3>5. MergeCounts(c, l) = c
      BY <3>2, MergeObjectFacts DEF MergeCounts
    <3> QED BY <2>2, <3>1, <3>3, <3>4, <3>5
  <2> QED BY <2>1, <2>2
<1>10. AllCounts(n.counts, patch) = n.counts /\ Said(u.counts) \subseteq Said(n.counts)
  BY <1>5, AllCountsFacts
<1>11. New(n) = n
  BY <1>5, <1>8, <1>9, <1>10
<1>12. MergeTokenUsage({n}, patch) = {n}
  <2> HIDE DEF New, Was
  <2> QED BY <1>1, <1>7, <1>11
<1>13. n.thread \in {patch.inner, patch.outer, {}} \cup {v.thread : v \in old}
  <2>1. u.thread \in {{}} \cup {v.thread : v \in old}
    BY <1>3
  <2> QED BY <1>5, <2>1
<1>14. \A v \in old : v = u
  BY <1>3
<1> HIDE DEF New, Was, Thread, Last
<1> QED BY <1>6, <1>10, <1>12, <1>13, <1>14 DEF IsOption

LEMMA MergePairs ==
  ASSUME NEW old, NEW new
  PROVE  Pairs(MergeObject(old, new)) \subseteq Pairs(old) \cup Pairs(new)
<1> SUFFICES ASSUME NEW k \in Said(MergeObject(old, new))
             PROVE  <<k, MergeObject(old, new)[k]>> \in Pairs(old) \cup Pairs(new)
  BY DEF Pairs
<1>1. CASE k \in Said(new)
  BY <1>1, MergeObjectFacts DEF Pairs
<1>2. CASE k \notin Said(new)
  BY <1>2, MergeObjectFacts DEF Pairs
<1> QED BY <1>1, <1>2

(* What is held of the counts was held before or is said by the patch.       *)
LEMMA MergeTokenUsagePairs ==
  ASSUME NEW old, NEW patch, NEW heard, \A v \in old : TokenPairs(v) \subseteq heard
  PROVE  \A v \in MergeTokenUsage(old, patch) : TokenPairs(v) \subseteq heard \cup TokenSays(patch)
<1>1. PICK u : u = Or(old, [thread |-> {}, counts |-> Empty, last |-> {}])
  OBVIOUS
<1>2. Pairs(Empty) = {}
  BY DEF Pairs, Said, Empty
<1>3. TokenPairs(u) \subseteq heard
  <2>1. CASE old = {}
    <3>1. u = [thread |-> {}, counts |-> Empty, last |-> {}]
      BY <1>1, <2>1, OptionFacts
    <3> QED BY <1>2, <3>1 DEF TokenPairs, LastPairs
  <2>2. CASE old # {}
    BY <1>1, <2>2, OptionFacts
  <2> QED BY <2>1, <2>2
<1>4. PICK c : c = MergeCounts(MergeCounts(MergeCounts(u.counts, patch.own), patch.usage), patch.total)
  OBVIOUS
<1>5. PICK l : l = MergeCounts(Or(u.last, Empty), Or(patch.last, Empty))
  OBVIOUS
<1>6. Pairs(c) \subseteq Pairs(u.counts) \cup Pairs(patch.own) \cup Pairs(patch.usage) \cup Pairs(patch.total)
  <2>1. PICK a : a = MergeObject(u.counts, patch.own)
    OBVIOUS
  <2>2. PICK b : b = MergeObject(a, patch.usage)
    OBVIOUS
  <2>3. c = MergeObject(b, patch.total)
    BY <1>4, <2>1, <2>2 DEF MergeCounts
  <2> QED BY <2>1, <2>2, <2>3, MergePairs
<1>7. \A S : Pairs(Or(S, Empty)) \subseteq UNION {Pairs(x) : x \in S}
  <2> TAKE S
  <2>1. CASE S = {}
    <3>1. Or(S, Empty) = Empty
      BY <2>1, OptionFacts
    <3> QED BY <1>2, <3>1
  <2>2. CASE S # {}
    <3>1. Or(S, Empty) \in S
      BY <2>2, OptionFacts
    <3> QED BY <3>1
  <2> QED BY <2>1, <2>2
<1>8. Pairs(l) \subseteq LastPairs(u) \cup LastPairs(patch)
  <2>1. Pairs(l) \subseteq Pairs(Or(u.last, Empty)) \cup Pairs(Or(patch.last, Empty))
    BY <1>5, MergePairs DEF MergeCounts
  <2> QED BY <1>7, <2>1 DEF LastPairs
<1>9. PICK v : MergeTokenUsage(old, patch) = {v} /\ v.counts = c /\ v.last \in {u.last, {l}}
  <2>1. PICK t : t = IF patch.inner # {} THEN patch.inner
                     ELSE IF patch.outer # {} THEN patch.outer ELSE u.thread
    OBVIOUS
  <2>2. PICK m : m = IF patch.last = {} THEN u.last ELSE {l}
    OBVIOUS
  <2>3. MergeTokenUsage(old, patch) = {[thread |-> t, counts |-> c, last |-> m]}
    BY <1>1, <1>4, <1>5, <2>1, <2>2 DEF MergeTokenUsage
  <2>4. PICK v : v = [thread |-> t, counts |-> c, last |-> m]
    OBVIOUS
  <2>5. v.counts = c /\ v.last = m
    BY <2>4
  <2> QED BY <2>2, <2>3, <2>4, <2>5
<1>10. LastPairs(v) \subseteq LastPairs(u) \cup LastPairs(patch)
  BY <1>8, <1>9 DEF LastPairs
<1>11. TokenPairs(v) \subseteq heard \cup TokenSays(patch)
  BY <1>3, <1>6, <1>9, <1>10 DEF TokenPairs, TokenSays
<1> QED BY <1>9, <1>11

-----------------------------------------------------------------------------
(* A full read of the limits. *)

LEMMA PreferredFacts ==
  ASSUME NEW r \in LimitReads
  PROVE  /\ IsOption(PreferredLimits(r)) /\ \A o \in PreferredLimits(r) : AreLimits(o)
         /\ IsOption(r.resetCredits)
BY ServerAssumption DEF PreferredLimits

LEMMA NoSlot == IsSlot({}) /\ IsOption({})
BY DEF IsSlot, IsOption

LEMMA WindowFound ==
  ASSUME NEW slots, NEW duration, NEW w \in WindowOf(slots, duration)
  PROVE  w \in slots.primary \cup slots.secondary /\ w.duration = duration
BY DEF WindowOf

-----------------------------------------------------------------------------
(* The days of the usage. *)

LEMMA Smallest ==
  ASSUME NEW T \in SUBSET Nat, T # {}
  PROVE  \E x \in T : \A y \in T : x <= y
<1>1. \E x \in T : \A y \in T : ~(<<y, x>> \in OpToRel(<, Nat))
  BY NatLessThanWellFounded, WFMin, Zenon
<1>2. PICK x \in T : \A y \in T : ~(y < x)
  BY <1>1 DEF OpToRel
<1> QED BY <1>2

Buckets == {b \in Seq([date : Nat, tokens : SUBSET Nat]) : \A i \in DOMAIN b : IsOption(b[i].tokens)}

(* The first n buckets that count, those of one day, and what the last of    *)
(* these says.                                                               *)
Valid(b, n) == {i \in 1..n : IsValidIsoDate(b[i].date) /\ b[i].tokens # {}}
OfDay(b, n, d) == {i \in Valid(b, n) : b[i].date = d}
LastOf(I) == CHOOSE i \in I : \A j \in I : j <= i
Latest(b, n) == [d \in {b[i].date : i \in Valid(b, n)} |-> Or(b[LastOf(OfDay(b, n, d))].tokens, 0)]

LEMMA LatestStep ==
  ASSUME NEW b \in Buckets, NEW n \in 1..Len(b)
  PROVE  Latest(b, n) = InsertBucket(Latest(b, n - 1), b[n])
<1> DEFINE new == IsValidIsoDate(b[n].date) /\ b[n].tokens # {}
           day == b[n].date
           Days(m) == {b[i].date : i \in Valid(b, m)}
<1>1. n \in 1..n /\ n \notin 1..(n - 1) /\ 1..n = (1..(n - 1)) \cup {n}
  BY DEF Buckets
<1>2. CASE ~new
  <2>1. Valid(b, n) = Valid(b, n - 1)
    BY <1>1, <1>2 DEF Valid
  <2>2. \A d : OfDay(b, n, d) = OfDay(b, n - 1, d)
    BY <2>1 DEF OfDay
  <2>3. Latest(b, n) = Latest(b, n - 1)
    BY <2>1, <2>2 DEF Latest
  <2> QED BY <1>2, <2>3 DEF InsertBucket
<1>3. CASE new
  <2>1. Valid(b, n) = Valid(b, n - 1) \cup {n}
    BY <1>1, <1>3 DEF Valid
  <2>2. Days(n) = Days(n - 1) \cup {day}
    BY <2>1
  <2>3. \A d : d # day => OfDay(b, n, d) = OfDay(b, n - 1, d)
    BY <2>1 DEF OfDay
  <2>4. LastOf(OfDay(b, n, day)) = n
    <3>1. n \in OfDay(b, n, day)
      BY <2>1 DEF OfDay
    <3>2. \A j \in OfDay(b, n, day) : j \in Nat /\ j <= n
      BY DEF OfDay, Valid
    <3>3. \A i \in OfDay(b, n, day) : n <= i => i = n
      BY <3>2
    <3> QED BY <3>1, <3>2, <3>3 DEF LastOf
  <2>5. Latest(b, n) = [d \in Days(n) |-> Or(b[LastOf(OfDay(b, n, d))].tokens, 0)]
    BY DEF Latest
  <2>6. PICK old : old = Latest(b, n - 1)
    OBVIOUS
  <2>7. DOMAIN old = Days(n - 1)
        /\ \A d \in Days(n - 1) : old[d] = Or(b[LastOf(OfDay(b, n - 1, d))].tokens, 0)
    BY <2>6 DEF Latest
  <2>8. InsertBucket(old, b[n]) = Put(old, day, Or(b[n].tokens, 0))
    BY <1>3 DEF InsertBucket
  <2>9. Put(old, day, Or(b[n].tokens, 0))
          = [d \in Days(n - 1) \cup {day} |-> IF d = day THEN Or(b[n].tokens, 0) ELSE old[d]]
    BY <2>7 DEF Put
  <2>10. \A d \in Days(n) : Or(b[LastOf(OfDay(b, n, d))].tokens, 0)
                             = IF d = day THEN Or(b[n].tokens, 0) ELSE old[d]
    <3> TAKE d \in Days(n)
    <3>1. CASE d = day
      BY <2>4, <3>1
    <3>2. CASE d # day
      <4>1. d \in Days(n - 1) /\ OfDay(b, n, d) = OfDay(b, n - 1, d)
        BY <2>2, <2>3, <3>2
      <4> QED BY <2>7, <3>2, <4>1
    <3> QED BY <3>1, <3>2
  <2> HIDE DEF Days, day
  <2> QED BY <2>2, <2>5, <2>6, <2>8, <2>9, <2>10
<1> QED BY <1>2, <1>3

LEMMA ParsedIsLatest ==
  ASSUME NEW b \in Buckets
  PROVE  Parsed(b) = Latest(b, Len(b))
<1> DEFINE Step(f) == [n \in 0..Len(b) |-> IF n = 0 THEN Empty ELSE InsertBucket(f[n - 1], b[n])]
           parsed == CHOOSE f : f = Step(f)
           closed == [n \in 0..Len(b) |-> Latest(b, n)]
<1>1. Parsed(b) = parsed[Len(b)]
  BY DEF Parsed
<1>2. Len(b) \in Nat
  BY DEF Buckets
<1>3. Latest(b, 0) = Empty
  <2>1. Valid(b, 0) = {}
    BY DEF Valid
  <2>2. {b[i].date : i \in Valid(b, 0)} = {}
    BY <2>1
  <2> QED BY <2>2 DEF Latest, Empty
<1>4. \A n \in 0..Len(b) : Latest(b, n) = IF n = 0 THEN Empty ELSE InsertBucket(closed[n - 1], b[n])
  <2> SUFFICES ASSUME NEW n \in 0..Len(b), n # 0
               PROVE  Latest(b, n) = InsertBucket(closed[n - 1], b[n])
    BY <1>3
  <2>1. n \in 1..Len(b) /\ n - 1 \in 0..Len(b)
    BY <1>2
  <2> QED BY <2>1, LatestStep
<1>5. closed = Step(closed)
  BY <1>4
<1> HIDE DEF closed
<1>6. parsed = Step(parsed)
  <2> HIDE DEF Step
  <2> QED BY <1>5
<1> HIDE DEF parsed
<1>7. \A n \in 0..Len(b) : parsed[n] = IF n = 0 THEN Empty ELSE InsertBucket(parsed[n - 1], b[n])
  BY <1>6
<1>8. \A n \in 0..Len(b) : closed[n] = IF n = 0 THEN Empty ELSE InsertBucket(closed[n - 1], b[n])
  BY <1>5
<1>9. \A n \in 0..Len(b) : parsed[n] = closed[n]
  <2> DEFINE Bad == {n \in 0..Len(b) : parsed[n] # closed[n]}
  <2> SUFFICES ASSUME Bad # {} PROVE FALSE
    OBVIOUS
  <2>1. Bad \in SUBSET Nat
    OBVIOUS
  <2>2. PICK x \in Bad : \A y \in Bad : x <= y
    <3> HIDE DEF Bad
    <3> QED BY <2>1, Smallest
  <2>3. x \in 0..Len(b) /\ parsed[x] # closed[x]
    OBVIOUS
  <2>4. x # 0
    BY <1>7, <1>8, <2>3
  <2>5. x - 1 \in 0..Len(b) /\ ~(x <= x - 1)
    BY <1>2, <2>3, <2>4
  <2>6. parsed[x - 1] = closed[x - 1]
    BY <2>2, <2>5
  <2> QED BY <1>7, <1>8, <2>3, <2>4, <2>6
<1>10. closed[Len(b)] = Latest(b, Len(b))
  BY <1>2 DEF closed
<1>11. Len(b) \in 0..Len(b)
  BY <1>2
<1> QED BY <1>1, <1>9, <1>10, <1>11

LEMMA ParsedFacts ==
  ASSUME NEW b \in Buckets
  PROVE  LET valid == Valid(b, Len(b)) IN
         /\ DOMAIN Parsed(b) = {b[i].date : i \in valid}
         /\ \A d \in DOMAIN Parsed(b) : \E i \in valid :
              /\ b[i].date = d /\ b[i].tokens = {Parsed(b)[d]}
              /\ \A j \in valid : b[j].date = d => j <= i
         /\ IsFiniteSet(valid) /\ valid \subseteq DOMAIN b
<1> DEFINE valid == Valid(b, Len(b))
<1>1. Len(b) \in Nat /\ DOMAIN b = 1..Len(b)
  BY DEF Buckets
<1>2. valid \subseteq 1..Len(b)
  BY DEF Valid
<1>3. IsFiniteSet(valid)
  <2>1. IsFiniteSet(1..Len(b))
    BY <1>1, FS_Interval
  <2> HIDE DEF valid
  <2> QED BY <1>2, <2>1, FS_Subset
<1>4. Parsed(b) = [d \in {b[i].date : i \in valid} |-> Or(b[LastOf(OfDay(b, Len(b), d))].tokens, 0)]
  BY ParsedIsLatest DEF Latest
<1>5. ASSUME NEW d \in {b[i].date : i \in valid}
      PROVE  \E i \in valid : /\ b[i].date = d /\ b[i].tokens = {Parsed(b)[d]}
                              /\ \A j \in valid : b[j].date = d => j <= i
  <2> DEFINE I == OfDay(b, Len(b), d)
  <2>1. I # {} /\ I \subseteq valid /\ \A i \in valid : i \in I <=> b[i].date = d
    BY DEF OfDay
  <2>2. \E i \in I : \A j \in I : j <= i
    <3> DEFINE Up == {Len(b) - i : i \in I}
    <3>1. Up \in SUBSET Nat /\ Up # {}
      BY <1>1, <1>2, <2>1
    <3>2. PICK x \in Up : \A y \in Up : x <= y
      <4> HIDE DEF Up
      <4> QED BY <3>1, Smallest
    <3>3. PICK i \in I : x = Len(b) - i
      OBVIOUS
    <3>4. \A j \in I : Len(b) - i <= Len(b) - j
      BY <3>2, <3>3
    <3>5. \A j \in I : j \in Int
      BY <1>2, <2>1
    <3> QED BY <1>1, <3>4, <3>5
  <2>3. PICK i : i = LastOf(I)
    OBVIOUS
  <2> HIDE DEF I
  <2>4. i \in I /\ \A j \in I : j <= i
    BY <2>2, <2>3 DEF LastOf
  <2>5. Parsed(b)[d] = Or(b[i].tokens, 0)
    BY <1>4, <2>3 DEF I
  <2>6. b[i].tokens # {} /\ IsOption(b[i].tokens)
    BY <1>1, <1>2, <2>1, <2>4 DEF Valid, Buckets
  <2>7. b[i].tokens = {Or(b[i].tokens, 0)}
    BY <2>6, OptionFacts
  <2> QED BY <2>1, <2>4, <2>5, <2>7
<1> HIDE DEF valid
<1>6. DOMAIN Parsed(b) = {b[i].date : i \in valid}
  BY <1>4
<1>7. \A d \in DOMAIN Parsed(b) : \E i \in valid :
         /\ b[i].date = d /\ b[i].tokens = {Parsed(b)[d]}
         /\ \A j \in valid : b[j].date = d => j <= i
  BY <1>5, <1>6
<1> QED BY <1>1, <1>2, <1>3, <1>6, <1>7 DEF valid

-----------------------------------------------------------------------------
(* Numbers in order: every place is taken, by one number, and a larger    *)
(* number has a later place.                                                 *)

LEMMA RankOnto ==
  ASSUME NEW T \in SUBSET Int, IsFiniteSet(T), NEW n \in 1..Cardinality(T)
  PROVE  \E i \in T : Cardinality({j \in T : j <= i}) = n
<1> DEFINE Below(i) == {j \in T : j <= i}
           r == [i \in T |-> Cardinality(Below(i))]
           N == 1..Cardinality(T)
<1>1. Cardinality(T) \in Nat
  BY FS_CardinalityType
<1>2. \A i \in T : IsFiniteSet(Below(i)) /\ Cardinality(Below(i)) \in N
  <2> SUFFICES ASSUME NEW i \in T
               PROVE  IsFiniteSet(Below(i)) /\ Cardinality(Below(i)) \in N
    OBVIOUS
  <2>1. Below(i) \in SUBSET T /\ i \in Below(i)
    OBVIOUS
  <2> HIDE DEF Below
  <2>2. IsFiniteSet(Below(i)) /\ Cardinality(Below(i)) <= Cardinality(T)
    BY <2>1, FS_Subset
  <2>3. Cardinality(Below(i)) \in Nat /\ Cardinality(Below(i)) # 0
    BY <2>1, <2>2, FS_CardinalityType, FS_EmptySet
  <2> QED BY <2>2, <2>3, <1>1
<1>3. \A i, k \in T : i < k => Cardinality(Below(i)) # Cardinality(Below(k))
  <2> SUFFICES ASSUME NEW i \in T, NEW k \in T, i < k, Cardinality(Below(i)) = Cardinality(Below(k))
               PROVE  FALSE
    OBVIOUS
  <2>1. Below(i) \in SUBSET Below(k) /\ k \in Below(k) /\ k \notin Below(i)
    <3>1. \A j \in T : j <= i => j <= k
      OBVIOUS
    <3>2. k <= k /\ ~(k <= i)
      OBVIOUS
    <3> QED BY <3>1, <3>2
  <2>2. IsFiniteSet(Below(k))
    BY <1>2
  <2> HIDE DEF Below
  <2>3. Below(k) = Below(i)
    BY <2>1, <2>2, FS_Subset
  <2> QED BY <2>1, <2>3
<1>4. r \in Injection(T, N)
  <2>1. r \in [T -> N]
    BY <1>2
  <2>2. \A i, k \in T : r[i] = r[k] => i = k
    <3> SUFFICES ASSUME NEW i \in T, NEW k \in T, i # k
                 PROVE  r[i] # r[k]
      OBVIOUS
    <3>1. i < k \/ k < i
      OBVIOUS
    <3> QED BY <3>1, <1>3
  <2> HIDE DEF r
  <2> QED BY <2>1, <2>2 DEF Injection, IsInjective
<1>5. IsFiniteSet(N) /\ Cardinality(N) = Cardinality(T)
  BY <1>1, FS_Interval
<1>6. r \in Surjection(T, N)
  <2> HIDE DEF r, N
  <2> QED BY <1>4, <1>5, FS_Injection
<1>7. \E i \in T : r[i] = n
  <2> HIDE DEF r
  <2> QED BY <1>6 DEF Surjection
<1> QED BY <1>7

LEMMA InOrderFacts ==
  ASSUME NEW S \in SUBSET Int, IsFiniteSet(S)
  PROVE  LET n == Cardinality(S) IN
         /\ n \in Nat /\ InOrder(S) \in Seq(S) /\ Len(InOrder(S)) = n /\ DOMAIN InOrder(S) = 1..n
         /\ \A k, l \in 1..n : k < l => InOrder(S)[k] < InOrder(S)[l]
         /\ \A d \in S : \E k \in 1..n : InOrder(S)[k] = d
<1> DEFINE n == Cardinality(S)
           Upto(d) == {e \in S : e <= d}
           nth(k) == CHOOSE d \in S : Cardinality(Upto(d)) = k
<1>1. n \in Nat
  BY FS_CardinalityType
<1>2. InOrder(S) = [k \in 1..n |-> nth(k)]
  BY DEF InOrder
<1>3. \A k \in 1..n : nth(k) \in S /\ Cardinality(Upto(nth(k))) = k
  BY RankOnto
<1>4. \A d \in S : Cardinality(Upto(d)) \in 1..n
  <2> TAKE d \in S
  <2>1. Upto(d) \in SUBSET S /\ d \in Upto(d)
    OBVIOUS
  <2> HIDE DEF Upto
  <2>2. IsFiniteSet(Upto(d)) /\ Cardinality(Upto(d)) <= n
    BY <2>1, FS_Subset
  <2>3. Cardinality(Upto(d)) \in Nat /\ Cardinality(Upto(d)) # 0
    BY <2>1, <2>2, FS_CardinalityType, FS_EmptySet
  <2> QED BY <1>1, <2>2, <2>3
<1>5. \A c, d \in S : c <= d => Cardinality(Upto(c)) <= Cardinality(Upto(d))
  <2> SUFFICES ASSUME NEW c \in S, NEW d \in S, c <= d
               PROVE  Cardinality(Upto(c)) <= Cardinality(Upto(d))
    OBVIOUS
  <2>1. Upto(c) \in SUBSET Upto(d) /\ Upto(d) \in SUBSET S
    <3>1. \A e \in S : e <= c => e <= d
      OBVIOUS
    <3> QED BY <3>1
  <2> HIDE DEF Upto
  <2> QED BY <2>1, FS_Subset
<1>6. \A c, d \in S : Cardinality(Upto(c)) = Cardinality(Upto(d)) => c = d
  <2> SUFFICES ASSUME NEW c \in S, NEW d \in S, Cardinality(Upto(c)) = Cardinality(Upto(d)), c < d
               PROVE  FALSE
    OBVIOUS
  <2>1. Upto(c) \in SUBSET Upto(d) /\ Upto(d) \in SUBSET S /\ d \in Upto(d) /\ d \notin Upto(c)
    <3>1. (\A e \in S : e <= c => e <= d) /\ d <= d /\ ~(d <= c)
      OBVIOUS
    <3> QED BY <3>1
  <2> HIDE DEF Upto
  <2>2. IsFiniteSet(Upto(d))
    BY <2>1, FS_Subset
  <2>3. Upto(c) = Upto(d)
    BY <2>1, <2>2, FS_Subset
  <2> QED BY <2>1, <2>3
<1> HIDE DEF nth, Upto
<1>7. \A k, l \in 1..n : k < l => nth(k) < nth(l)
  <2> SUFFICES ASSUME NEW k \in 1..n, NEW l \in 1..n, k < l PROVE nth(k) < nth(l)
    OBVIOUS
  <2>1. PICK c, d : c = nth(k) /\ d = nth(l)
    OBVIOUS
  <2>2. c \in S /\ d \in S /\ Cardinality(Upto(c)) = k /\ Cardinality(Upto(d)) = l
    BY <1>3, <2>1
  <2>3. ~(d <= c)
    BY <1>1, <1>5, <2>2
  <2> QED BY <2>1, <2>2, <2>3
<1>8. \A d \in S : \E k \in 1..n : nth(k) = d
  <2> TAKE d \in S
  <2>1. PICK k \in 1..n : k = Cardinality(Upto(d))
    BY <1>4
  <2>2. nth(k) \in S /\ Cardinality(Upto(nth(k))) = k
    BY <1>3
  <2>3. nth(k) = d
    BY <1>6, <2>1, <2>2
  <2> QED BY <2>3
<1>9. PICK s : s = InOrder(S)
  OBVIOUS
<1>10. s \in Seq(S) /\ DOMAIN s = 1..n
  BY <1>1, <1>2, <1>3, <1>9
<1>11. Len(s) = n
  BY <1>1, <1>10
<1>12. \A k \in 1..n : s[k] = nth(k)
  BY <1>2, <1>9
<1> HIDE DEF n
<1>13. \A k, l \in 1..n : k < l => s[k] < s[l]
  BY <1>7, <1>12
<1>14. \A d \in S : \E k \in 1..n : s[k] = d
  BY <1>8, <1>12
<1> QED BY <1>1, <1>9, <1>10, <1>11, <1>13, <1>14 DEF n

DaysAreLatest(b, valid) ==
  LET days == DailyUsage(b)
      dates == {b[i].date : i \in valid}
  IN  /\ Len(days) = Min({MaxBuckets, Cardinality(dates)})
      /\ \A i, j \in DOMAIN days : i < j => days[i].date < days[j].date
      /\ \A d \in dates : (\A i \in DOMAIN days : days[i].date # d)
                          => \A i \in DOMAIN days : d < days[i].date
      /\ \A k \in DOMAIN days : \E i \in valid :
           /\ b[i].date = days[k].date /\ b[i].tokens = {days[k].tokens}
           /\ \A j \in valid : b[j].date = days[k].date => j <= i

LEMMA DailyUsageFacts ==
  ASSUME NEW b \in Buckets
  PROVE  DaysAreLatest(b, Valid(b, Len(b)))
<1> DEFINE valid == Valid(b, Len(b))
           dates == {b[i].date : i \in valid}
<1>1. PICK map : map = Parsed(b)
  OBVIOUS
<1>2. PICK order : order = InOrder(dates)
  OBVIOUS
<1>3. PICK n : n = Cardinality(dates)
  OBVIOUS
<1>4. /\ DOMAIN map = dates
      /\ \A d \in dates : \E i \in valid :
           /\ b[i].date = d /\ b[i].tokens = {map[d]}
           /\ \A j \in valid : b[j].date = d => j <= i
      /\ IsFiniteSet(valid) /\ valid \subseteq DOMAIN b
  BY <1>1, ParsedFacts
<1>5. dates \in SUBSET Nat
  <2>1. \A i \in DOMAIN b : b[i] \in [date : Nat, tokens : SUBSET Nat]
    <3>1. PICK B : B = [date : Nat, tokens : SUBSET Nat]
      OBVIOUS
    <3>2. b \in Seq(B)
      BY <3>1 DEF Buckets
    <3>3. \A i \in DOMAIN b : b[i] \in B
      BY <3>2
    <3> QED BY <3>1, <3>3, Zenon
  <2>2. \A i \in DOMAIN b : b[i].date \in Nat
    BY <2>1
  <2> HIDE DEF valid
  <2> QED BY <1>4, <2>2
<1>6. IsFiniteSet(dates)
  <2> DEFINE f == [i \in valid |-> b[i].date]
  <2>1. f \in [valid -> dates] /\ \A d \in dates : \E i \in valid : f[i] = d
    OBVIOUS
  <2> HIDE DEF valid, dates, f
  <2>2. f \in Surjection(valid, dates)
    BY <2>1 DEF Surjection
  <2> QED BY <1>4, <2>2, FS_Surjection
<1> HIDE DEF dates
<1>7. /\ n \in Nat /\ order \in Seq(dates) /\ Len(order) = n /\ DOMAIN order = 1..n
      /\ \A k, l \in 1..n : k < l => order[k] < order[l]
      /\ \A d \in dates : \E k \in 1..n : order[k] = d
  BY <1>2, <1>3, <1>5, <1>6, InOrderFacts
<1>8. PICK skip : skip = IF n > MaxBuckets THEN n - MaxBuckets ELSE 0
  OBVIOUS
<1>9. PICK days : days = DailyUsage(b)
  OBVIOUS
<1>10. days = [i \in 1..(n - skip) |-> [date |-> order[skip + i], tokens |-> map[order[skip + i]]]]
  BY <1>1, <1>2, <1>4, <1>7, <1>8, <1>9 DEF DailyUsage
<1>11. skip \in 0..n /\ n - skip \in Nat /\ n - skip = Min({MaxBuckets, n})
  <2>1. MaxBuckets \in Nat
    BY ServerAssumption
  <2>2. Min({MaxBuckets, n}) = IF n > MaxBuckets THEN MaxBuckets ELSE n
    BY <1>7, <2>1 DEF Min
  <2> QED BY <1>7, <1>8, <2>1, <2>2
<1>12. \A i \in 1..(n - skip) : skip + i \in 1..n /\ order[skip + i] \in dates
  BY <1>7, <1>11
<1>13. DOMAIN days = 1..(n - skip) /\ Len(days) = n - skip
  BY <1>10, <1>11
<1>14. \A i \in DOMAIN days : days[i].date = order[skip + i] /\ days[i].tokens = map[order[skip + i]]
  BY <1>10
<1>15. \A i, j \in DOMAIN days : i < j => days[i].date < days[j].date
  <2> SUFFICES ASSUME NEW i \in 1..(n - skip), NEW j \in 1..(n - skip), i < j
               PROVE  order[skip + i] < order[skip + j]
    BY <1>13, <1>14
  <2>1. skip + i < skip + j
    BY <1>11
  <2> QED BY <1>7, <1>12, <2>1
<1>16. ASSUME NEW d \in dates, \A i \in DOMAIN days : days[i].date # d,
              NEW i \in DOMAIN days
       PROVE  d < days[i].date
  <2>1. PICK k \in 1..n : order[k] = d
    BY <1>7
  <2>2. k <= skip
    <3> SUFFICES ASSUME k > skip PROVE FALSE
      BY <1>11
    <3>1. k - skip \in 1..(n - skip) /\ skip + (k - skip) = k
      BY <1>7, <1>11
    <3> QED BY <1>13, <1>14, <1>16, <2>1, <3>1
  <2>3. k < skip + i /\ skip + i \in 1..n
    BY <1>11, <1>12, <1>13, <2>2
  <2> QED BY <1>7, <1>14, <2>1, <2>3
<1>17. ASSUME NEW k \in DOMAIN days
       PROVE  \E i \in valid : /\ b[i].date = days[k].date /\ b[i].tokens = {days[k].tokens}
                               /\ \A j \in valid : b[j].date = days[k].date => j <= i
  <2>1. PICK d \in dates : days[k].date = d /\ days[k].tokens = map[d]
    BY <1>12, <1>13, <1>14
  <2> QED BY <1>4, <2>1
<1> QED BY <1>3, <1>9, <1>11, <1>13, <1>15, <1>16, <1>17 DEF dates, DaysAreLatest

-----------------------------------------------------------------------------
(* What is held, after any number of answers and notifications. *)

LEMMA OptionCardinality ==
  ASSUME NEW S, IsOption(S)
  PROVE  Cardinality(S) <= 1
<1>1. CASE S = {}
  BY <1>1, FS_EmptySet
<1>2. CASE S # {}
  <2>1. PICK x : S = {x}
    BY <1>2 DEF IsOption
  <2>2. Cardinality({x}) = 1
    BY FS_Singleton
  <2> QED BY <2>1, <2>2
<1> QED BY <1>1, <1>2

(* The account: nothing but what was said since the last full read.          *)
AccountInv ==
  /\ reported = [account |-> reported.account, windows |-> reported.windows, usage |-> reported.usage,
                 tokens |-> reported.tokens, senders |-> reported.senders]
  /\ account.requiresAuth \subseteq BOOLEAN
  /\ AccountIsReported

(* The limits: two slots for a window each, whose length is the one last     *)
(* said; a window whose length was never said has none.                      *)
AreSlots(l) ==
  /\ l = [primary |-> l.primary, secondary |-> l.secondary, credits |-> l.credits,
          resetCredits |-> l.resetCredits]
  /\ IsSlot(l.primary) /\ IsSlot(l.secondary) /\ IsOption(l.credits) /\ IsOption(l.resetCredits)

LengthsSaid(l, lengths) ==
  \A w \in l.primary \cup l.secondary : w.duration = 0 \/ w.duration \in lengths

LimitsInv == AreSlots(limits) /\ LengthsSaid(limits, reported.windows)

TokensInv ==
  /\ IsOption(tokens)
  /\ \A u \in tokens : u.thread \subseteq Threads /\ TokenPairs(u) \subseteq reported.tokens

UsageInv == IsOption(usage) /\ usage \subseteq UsageReads /\ usage \subseteq reported.usage

ThreadsInv ==
  /\ DOMAIN threads \subseteq Threads /\ \A t \in DOMAIN threads : threads[t].at <= now
  /\ {{t} : t \in DOMAIN threads} \cup {e.thread : e \in lastActivity} \subseteq reported.senders

HeldInv == AccountInv /\ LimitsInv /\ TokensInv /\ UsageInv /\ ThreadsInv /\ LampInv

LEMMA MergeRateLimitsFacts ==
  ASSUME NEW old, AreSlots(old), NEW patch, AreLimits(patch)
  PROVE  LET new == MergeRateLimits(old, patch) IN
         /\ AreSlots(new) /\ MergeRateLimits(new, patch) = new
         /\ old.primary # {} => new.primary # {}
         /\ old.secondary # {} => new.secondary # {}
         /\ old.credits # {} => new.credits # {}
         /\ \A c \in old.credits : \A d \in new.credits : Said(c) \subseteq Said(d)
         /\ \A lengths : LengthsSaid(old, lengths) => LengthsSaid(new, lengths \cup WindowSays(patch))
<1>1. PICK n : n = MergeRateLimits(old, patch)
  OBVIOUS
<1>2. ASSUME NEW l, AreSlots(l)
      PROVE  MergeRateLimits(l, patch) = [primary |-> MergeWindow(l.primary, patch.primary),
                                          secondary |-> MergeWindow(l.secondary, patch.secondary),
                                          credits |-> MergeNested(l.credits, patch.credits),
                                          resetCredits |-> l.resetCredits]
  <2>1. PICK a, b, c, d : a = MergeWindow(l.primary, patch.primary) /\ b = MergeWindow(l.secondary, patch.secondary)
                          /\ c = MergeNested(l.credits, patch.credits) /\ d = l.resetCredits
    OBVIOUS
  <2>2. MergeRateLimits(l, patch) = [l EXCEPT !.primary = a, !.secondary = b, !.credits = c]
    BY <2>1 DEF MergeRateLimits
  <2>3. PICK x, y, z : l = [primary |-> x, secondary |-> y, credits |-> z, resetCredits |-> d]
    BY <1>2, <2>1 DEF AreSlots
  <2>4. [l EXCEPT !.primary = a, !.secondary = b, !.credits = c]
          = [primary |-> a, secondary |-> b, credits |-> c, resetCredits |-> d]
    <3>1. PICK D : D = {"primary", "secondary", "credits", "resetCredits"}
      OBVIOUS
    <3>2. l = [k \in D |-> l[k]] /\ DOMAIN l = D /\ l.resetCredits = d
      BY <2>3, <3>1
    <3>3. PICK m : m = [l EXCEPT !.primary = a, !.secondary = b, !.credits = c]
      OBVIOUS
    <3>4. /\ m.primary = a /\ m.secondary = b /\ m.credits = c /\ m.resetCredits = d
          /\ m = [k \in D |-> m[k]]
      BY <3>1, <3>2, <3>3
    <3> QED BY <3>1, <3>3, <3>4
  <2> QED BY <2>1, <2>2, <2>4
<1>3. /\ n.primary = MergeWindow(old.primary, patch.primary)
      /\ n.secondary = MergeWindow(old.secondary, patch.secondary)
      /\ n.credits = MergeNested(old.credits, patch.credits)
      /\ n.resetCredits = old.resetCredits
      /\ n = [primary |-> n.primary, secondary |-> n.secondary, credits |-> n.credits,
              resetCredits |-> n.resetCredits]
  BY <1>1, <1>2
<1>4. /\ IsSlot(old.primary) /\ IsSlot(old.secondary) /\ IsOption(old.credits) /\ IsOption(old.resetCredits)
      /\ IsOption(patch.primary) /\ IsOption(patch.secondary) /\ IsOption(patch.credits)
      /\ \A c \in patch.credits : IsObject(c)
  BY DEF AreSlots, AreLimits
<1>5. /\ \A w \in patch.primary : Lookup(w, "duration") \subseteq Nat
      /\ \A w \in patch.secondary : Lookup(w, "duration") \subseteq Nat
  BY DEF AreLimits
<1>6. /\ IsSlot(n.primary) /\ (old.primary # {} => n.primary # {})
      /\ MergeWindow(n.primary, patch.primary) = n.primary
      /\ \A w \in n.primary : \/ w.duration = 0
                              \/ \E v \in old.primary : w.duration = v.duration
                              \/ \E v \in patch.primary : w.duration \in Lookup(v, "duration")
  BY <1>3, <1>4, <1>5, MergeWindowFacts
<1>7. /\ IsSlot(n.secondary) /\ (old.secondary # {} => n.secondary # {})
      /\ MergeWindow(n.secondary, patch.secondary) = n.secondary
      /\ \A w \in n.secondary : \/ w.duration = 0
                                \/ \E v \in old.secondary : w.duration = v.duration
                                \/ \E v \in patch.secondary : w.duration \in Lookup(v, "duration")
  BY <1>3, <1>4, <1>5, MergeWindowFacts
<1>8. /\ IsOption(n.credits) /\ MergeNested(n.credits, patch.credits) = n.credits
      /\ \A c \in old.credits : \A d \in n.credits : Said(c) \subseteq Said(d)
  BY <1>3, <1>4, MergeNestedFacts
<1>12. old.credits # {} => n.credits # {}
  BY <1>3 DEF MergeNested
<1>9. AreSlots(n)
  BY <1>3, <1>4, <1>6, <1>7, <1>8 DEF AreSlots
<1>10. MergeRateLimits(n, patch) = n
  BY <1>2, <1>3, <1>6, <1>7, <1>8, <1>9
<1>11. ASSUME NEW lengths, LengthsSaid(old, lengths)
       PROVE  LengthsSaid(n, lengths \cup WindowSays(patch))
  <2>1. \A v \in patch.primary \cup patch.secondary : Lookup(v, "duration") \subseteq WindowSays(patch)
    BY DEF WindowSays
  <2> QED BY <1>6, <1>7, <1>11, <2>1 DEF LengthsSaid
<1> QED BY <1>1, <1>6, <1>7, <1>8, <1>9, <1>10, <1>11, <1>12

LEMMA ReplaceFacts ==
  ASSUME NEW old, AreSlots(old), NEW r \in LimitReads
  PROVE  LET new == ReplaceRateLimits(old, r) IN
         /\ AreSlots(new)
         /\ PreferredLimits(r) = {} => new = old
         /\ PreferredLimits(r) # {} =>
              LengthsSaid(new, UNION {WindowSays(o) : o \in PreferredLimits(r)})
<1>1. CASE PreferredLimits(r) = {}
  BY <1>1 DEF ReplaceRateLimits
<1>2. CASE PreferredLimits(r) # {}
  <2> DEFINE NoLimits == [primary |-> {}, secondary |-> {}, credits |-> {}]
  <2>1. PICK o : PreferredLimits(r) = {o} /\ Or(PreferredLimits(r), NoLimits) = o /\ AreLimits(o)
    BY <1>2, PreferredFacts, OptionFacts
  <2>2. PICK n : n = ReplaceRateLimits(old, r)
    OBVIOUS
  <2>3. n = [primary |-> MergeWindow({}, o.primary), secondary |-> MergeWindow({}, o.secondary),
             credits |-> o.credits, resetCredits |-> r.resetCredits]
    BY <1>2, <2>1, <2>2 DEF ReplaceRateLimits
  <2>4. /\ IsOption(o.primary) /\ IsOption(o.secondary) /\ IsOption(o.credits) /\ IsOption(r.resetCredits)
        /\ \A w \in o.primary : Lookup(w, "duration") \subseteq Nat
        /\ \A w \in o.secondary : Lookup(w, "duration") \subseteq Nat
    BY <2>1, PreferredFacts DEF AreLimits
  <2>5. /\ IsSlot(n.primary)
        /\ \A w \in n.primary : w.duration = 0 \/ \E v \in o.primary : w.duration \in Lookup(v, "duration")
    BY <2>3, <2>4, NoSlot, MergeWindowFacts
  <2>6. /\ IsSlot(n.secondary)
        /\ \A w \in n.secondary : w.duration = 0 \/ \E v \in o.secondary : w.duration \in Lookup(v, "duration")
    BY <2>3, <2>4, NoSlot, MergeWindowFacts
  <2>7. AreSlots(n)
    BY <2>3, <2>4, <2>5, <2>6 DEF AreSlots
  <2>8. LengthsSaid(n, WindowSays(o))
    BY <2>5, <2>6 DEF LengthsSaid, WindowSays
  <2>9. UNION {WindowSays(p) : p \in PreferredLimits(r)} = WindowSays(o)
    BY <2>1
  <2> QED BY <1>2, <2>2, <2>7, <2>8, <2>9
<1> QED BY <1>1, <1>2

LEMMA HeldInit == ServerInit => HeldInv
<1> SUFFICES ASSUME ServerInit PROVE HeldInv
  OBVIOUS
<1>1. /\ account = [fields |-> Empty, requiresAuth |-> {}]
      /\ limits = [primary |-> {}, secondary |-> {}, credits |-> {}, resetCredits |-> {}]
      /\ tokens = {} /\ usage = {} /\ threads = Empty /\ lastActivity = {}
      /\ reported = [account |-> {}, windows |-> {}, usage |-> {}, tokens |-> {}, senders |-> {}]
  BY DEF ServerInit, BlankAccount, BlankLimits, NothingSaid
<1>2. AccountInv
  BY <1>1 DEF AccountInv, AccountIsReported, Said, Empty
<1>3. LimitsInv
  BY <1>1, NoSlot DEF LimitsInv, AreSlots, LengthsSaid
<1>4. TokensInv /\ UsageInv
  BY <1>1, NoSlot DEF TokensInv, UsageInv
<1>5. ThreadsInv
  BY <1>1 DEF ThreadsInv, Empty
<1> QED BY <1>2, <1>3, <1>4, <1>5, LampInit DEF HeldInv

(* What each step adds to what was said, and what a new login leaves of it.  *)
LEMMA LoginTakesAll ==
  ASSUME NEW p \in AccountPatches, AccountUpdated(p)
  PROVE  /\ account' = MergeAccount(BlankAccount, p) /\ now' = now
         /\ reported' = [account |-> AccountSays(p), windows |-> {}, usage |-> {}, tokens |-> {}, senders |-> {}]
         /\ limits' = BlankLimits /\ usage' = {} /\ tokens' = {} /\ lastActivity' = {} /\ threads' = Empty
BY DEF AccountUpdated, ResetAccountGeneration, NewGeneration, NothingSaid

LEMMA ReportedGrows ==
  ASSUME AccountInv, [ServerNext]_serverVars, ~LoginTold
  PROVE  /\ reported' = [account |-> reported'.account, windows |-> reported'.windows,
                         usage |-> reported'.usage, tokens |-> reported'.tokens, senders |-> reported'.senders]
         /\ reported'.account = reported.account \/ \E r \in AccountReads : r.valid /\ ReadAccount(r)
         /\ \/ reported'.windows = reported.windows
            \/ \E r \in LimitReads : ReadRateLimits(r)
            \/ \E p \in LimitPatches : RateLimitsUpdated(p)
         /\ reported'.usage = reported.usage \/ \E r \in UsageReads : r.summary /\ ReadUsage(r)
         /\ reported.tokens \subseteq reported'.tokens
         /\ reported.senders \subseteq reported'.senders
<1>1. ASSUME NEW r \in AccountReads, ReadAccount(r)
      PROVE  \/ reported' = reported
             \/ r.valid /\ \E x : reported' = [reported EXCEPT !.account = x]
  BY <1>1 DEF ReadAccount
<1>2. ASSUME NEW r \in LimitReads, ReadRateLimits(r)
      PROVE  reported' = reported \/ \E x : reported' = [reported EXCEPT !.windows = x]
  BY <1>2 DEF ReadRateLimits
<1>3. ASSUME NEW p \in LimitPatches, RateLimitsUpdated(p)
      PROVE  \E x : reported' = [reported EXCEPT !.windows = x]
  BY <1>3 DEF RateLimitsUpdated
<1>4. ASSUME NEW r \in UsageReads, ReadUsage(r)
      PROVE  \/ reported' = reported
             \/ r.summary /\ \E x : reported' = [reported EXCEPT !.usage = x]
  BY <1>4 DEF ReadUsage
<1>5. ASSUME NEW p \in TokenPatches, TokenUsageUpdated(p)
      PROVE  \E x : reported' = [reported EXCEPT !.tokens = x] /\ reported.tokens \subseteq x
  BY <1>5 DEF TokenUsageUpdated
<1>6. ASSUME NEW e \in ActivityEvents, ActivityNotified(e)
      PROVE  \E x : reported' = [reported EXCEPT !.senders = x] /\ reported.senders \subseteq x
  BY <1>6 DEF ActivityNotified
<1>7. CASE TimePasses \/ UNCHANGED serverVars
  BY <1>7 DEF TimePasses, serverVars, AccountInv
<1>8. \/ \E r \in AccountReads : ReadAccount(r)
      \/ \E r \in LimitReads : ReadRateLimits(r)
      \/ \E p \in LimitPatches : RateLimitsUpdated(p)
      \/ \E r \in UsageReads : ReadUsage(r)
      \/ \E p \in TokenPatches : TokenUsageUpdated(p)
      \/ \E e \in ActivityEvents : ActivityNotified(e)
      \/ TimePasses \/ UNCHANGED serverVars
  BY DEF ServerNext, LoginTold
<1> QED BY <1>1, <1>2, <1>3, <1>4, <1>5, <1>6, <1>7, <1>8 DEF AccountInv

LEMMA AccountStep == AccountInv /\ [ServerNext]_serverVars => AccountInv'
<1> SUFFICES ASSUME AccountInv, [ServerNext]_serverVars PROVE AccountInv'
  OBVIOUS
<1>1. CASE account' = account /\ reported'.account = reported.account /\ ~LoginTold
  BY <1>1, ReportedGrows DEF AccountInv, AccountIsReported, Said
<1>2. ASSUME NEW r \in AccountReads, ReadAccount(r), r.valid
      PROVE  AccountInv'
  <2>1. /\ account' = [fields |-> r.fields, requiresAuth |-> r.requiresAuth]
        /\ reported' = [reported EXCEPT !.account = AccountSays(r)]
    BY <1>2 DEF ReadAccount
  <2>2. /\ reported'.account = AccountSays(r)
        /\ reported' = [account |-> reported'.account, windows |-> reported'.windows,
                        usage |-> reported'.usage, tokens |-> reported'.tokens, senders |-> reported'.senders]
    BY <2>1 DEF AccountInv
  <2>3. account'.fields = r.fields /\ account'.requiresAuth \subseteq BOOLEAN
    BY <2>1, ServerAssumption
  <2>4. \A k \in Said(r.fields) : <<k, r.fields[k]>> \in AccountSays(r)
    BY DEF AccountSays, Pairs
  <2> QED BY <2>2, <2>3, <2>4 DEF AccountInv, AccountIsReported, Said
<1>3. ASSUME NEW p \in AccountPatches, AccountUpdated(p)
      PROVE  AccountInv'
  <2>1. /\ account' = MergeAccount(BlankAccount, p)
        /\ reported' = [account |-> AccountSays(p), windows |-> {}, usage |-> {}, tokens |-> {}, senders |-> {}]
    BY <1>3, LoginTakesAll
  <2>2. account'.requiresAuth \subseteq BOOLEAN
    BY <2>1, ServerAssumption DEF MergeAccount, BlankAccount
  <2>3. PICK n : n = account'.fields
    OBVIOUS
  <2>4. n = MergeObject(Empty, p.fields)
    BY <2>1, <2>3, MergeAccountFacts DEF BlankAccount
  <2>5. Said(Empty) = {}
    BY DEF Said, Empty
  <2>6. \A k \in Said(n) : <<k, n[k]>> \in AccountSays(p)
    BY <2>4, <2>5, MergeObjectFacts DEF AccountSays, Pairs
  <2> QED BY <2>1, <2>2, <2>3, <2>6 DEF AccountInv, AccountIsReported, Said
<1>4. \/ account' = account
      \/ LoginTold
      \/ \E r \in AccountReads : r.valid /\ ReadAccount(r)
  BY DEF ServerNext, serverVars, ReadAccount, LoginTold, ReadRateLimits, RateLimitsUpdated,
         ReadUsage, TokenUsageUpdated, ActivityNotified, TimePasses
<1> QED BY <1>1, <1>2, <1>3, <1>4, ReportedGrows DEF LoginTold

LEMMA LengthsGrow ==
  ASSUME NEW l, NEW lengths, LengthsSaid(l, lengths), NEW more, lengths \subseteq more
  PROVE  LengthsSaid(l, more)
BY DEF LengthsSaid

LEMMA LimitsStep == AccountInv /\ LimitsInv /\ [ServerNext]_serverVars => LimitsInv'
<1> SUFFICES ASSUME AccountInv, LimitsInv, [ServerNext]_serverVars PROVE LimitsInv'
  OBVIOUS
<1>1. CASE limits' = limits /\ reported'.windows = reported.windows
  BY <1>1 DEF LimitsInv
<1>2. ASSUME NEW r \in LimitReads, ReadRateLimits(r)
      PROVE  LimitsInv'
  <2>1. /\ limits' = ReplaceRateLimits(limits, r)
        /\ reported' = IF PreferredLimits(r) = {} THEN reported
                       ELSE [reported EXCEPT !.windows = UNION {WindowSays(o) : o \in PreferredLimits(r)}]
    BY <1>2 DEF ReadRateLimits
  <2>2. PICK lengths : lengths = UNION {WindowSays(o) : o \in PreferredLimits(r)}
    OBVIOUS
  <2>3. CASE PreferredLimits(r) = {}
    <3>1. limits' = limits
      BY <2>1, <2>3, ReplaceFacts DEF LimitsInv
    <3> QED BY <1>1, <2>1, <2>3, <3>1
  <2>4. CASE PreferredLimits(r) # {}
    <3>1. reported' = [reported EXCEPT !.windows = lengths]
      BY <2>1, <2>2, <2>4
    <3>2. reported'.windows = lengths
      BY <3>1 DEF AccountInv
    <3>3. AreSlots(limits') /\ LengthsSaid(limits', lengths)
      BY <2>1, <2>2, <2>4, ReplaceFacts DEF LimitsInv
    <3> QED BY <3>2, <3>3 DEF LimitsInv
  <2> QED BY <2>3, <2>4
<1>3. ASSUME NEW p \in LimitPatches, RateLimitsUpdated(p)
      PROVE  LimitsInv'
  <2>1. /\ limits' = MergeRateLimits(limits, p)
        /\ reported' = [reported EXCEPT !.windows = @ \cup WindowSays(p)]
    BY <1>3 DEF RateLimitsUpdated
  <2>2. reported'.windows = reported.windows \cup WindowSays(p)
    BY <2>1 DEF AccountInv
  <2>3. AreSlots(limits) /\ LengthsSaid(limits, reported.windows) /\ AreLimits(p)
    BY ServerAssumption DEF LimitsInv
  <2>4. AreSlots(limits') /\ LengthsSaid(limits', reported.windows \cup WindowSays(p))
    BY <2>1, <2>3, MergeRateLimitsFacts
  <2> QED BY <2>2, <2>4 DEF LimitsInv
<1>4. ASSUME LoginTold PROVE LimitsInv'
  <2>1. limits' = BlankLimits /\ reported'.windows = {}
    BY <1>4, LoginTakesAll DEF LoginTold
  <2> QED BY <2>1, NoSlot DEF BlankLimits, LimitsInv, AreSlots, LengthsSaid
<1>5. \/ limits' = limits /\ ~LoginTold
      \/ LoginTold
      \/ \E r \in LimitReads : ReadRateLimits(r)
      \/ \E p \in LimitPatches : RateLimitsUpdated(p)
  BY DEF ServerNext, serverVars, ReadAccount, LoginTold, ReadUsage, TokenUsageUpdated,
         ActivityNotified, TimePasses
<1> QED BY <1>1, <1>2, <1>3, <1>4, <1>5, ReportedGrows

LEMMA TokensStep == AccountInv /\ TokensInv /\ [ServerNext]_serverVars => TokensInv'
<1> SUFFICES ASSUME AccountInv, TokensInv, [ServerNext]_serverVars PROVE TokensInv'
  OBVIOUS
<1>1. CASE tokens' = tokens /\ ~LoginTold
  BY <1>1, ReportedGrows DEF TokensInv
<1>2. ASSUME NEW p \in TokenPatches, TokenUsageUpdated(p)
      PROVE  TokensInv'
  <2>1. /\ tokens' = MergeTokenUsage(tokens, p)
        /\ reported' = [reported EXCEPT !.tokens = @ \cup TokenSays(p)]
    BY <1>2 DEF TokenUsageUpdated
  <2>2. p.inner \subseteq Threads /\ p.outer \subseteq Threads
    BY ServerAssumption
  <2>3. /\ IsOption(tokens')
        /\ \A u \in tokens' : u.thread \in {p.inner, p.outer, {}} \cup {v.thread : v \in tokens}
    BY <2>1, MergeTokenUsageFacts DEF TokensInv
  <2>4. reported'.tokens = reported.tokens \cup TokenSays(p)
    BY <2>1 DEF AccountInv
  <2>5. \A u \in tokens' : TokenPairs(u) \subseteq reported'.tokens
    BY <2>1, <2>4, MergeTokenUsagePairs DEF TokensInv
  <2> QED BY <2>2, <2>3, <2>5 DEF TokensInv
<1>3. CASE LoginTold
  BY <1>3, LoginTakesAll DEF LoginTold, TokensInv, IsOption
<1>4. tokens' = tokens \/ LoginTold \/ \E p \in TokenPatches : TokenUsageUpdated(p)
  BY DEF ServerNext, serverVars, ReadAccount, LoginTold, ReadRateLimits, RateLimitsUpdated,
         ReadUsage, ActivityNotified, TimePasses
<1> QED BY <1>1, <1>2, <1>3, <1>4

LEMMA UsageStep == AccountInv /\ UsageInv /\ [ServerNext]_serverVars => UsageInv'
<1> SUFFICES ASSUME AccountInv, UsageInv, [ServerNext]_serverVars PROVE UsageInv'
  OBVIOUS
<1>1. CASE usage' = usage /\ reported'.usage = reported.usage
  BY <1>1 DEF UsageInv
<1>2. ASSUME NEW r \in UsageReads, ReadUsage(r), r.summary
      PROVE  UsageInv'
  <2>1. usage' = {r} /\ reported' = [reported EXCEPT !.usage = {r}]
    BY <1>2 DEF ReadUsage
  <2>2. reported'.usage = {r}
    BY <2>1 DEF AccountInv
  <2> QED BY <2>1, <2>2 DEF UsageInv, IsOption
<1>3. CASE LoginTold
  BY <1>3, LoginTakesAll DEF LoginTold, UsageInv, IsOption
<1>4. usage' = usage \/ LoginTold \/ \E r \in UsageReads : r.summary /\ ReadUsage(r)
  BY DEF ServerNext, serverVars, ReadAccount, LoginTold, ReadRateLimits, RateLimitsUpdated,
         ReadUsage, TokenUsageUpdated, ActivityNotified, TimePasses
<1> QED BY <1>1, <1>2, <1>3, <1>4, ReportedGrows

LEMMA ThreadsStep == AccountInv /\ ThreadsInv /\ LampInv /\ [ServerNext]_serverVars => ThreadsInv'
<1> SUFFICES ASSUME AccountInv, ThreadsInv, LampInv, [ServerNext]_serverVars PROVE ThreadsInv'
  OBVIOUS
<1>1. CASE now' = now /\ threads' = threads /\ lastActivity' = lastActivity /\ ~LoginTold
  BY <1>1, ReportedGrows DEF ThreadsInv
<1>2. CASE TimePasses
  BY <1>2 DEF TimePasses, ThreadsInv, LampInv
<1>3. ASSUME NEW e \in ActivityEvents, ActivityNotified(e)
      PROVE  ThreadsInv'
  <2>1. PICK Record : Record = [state |-> Or(Classified(e), "Unknown"), at |-> now]
    OBVIOUS
  <2>2. PICK t : t = Or(e.thread, "")
    OBVIOUS
  <2>3. /\ now' = now /\ threads' = IF Classified(e) = {} \/ e.thread = {} THEN threads
                                    ELSE Put(threads, t, Record)
        /\ lastActivity' = IF Classified(e) = {} THEN lastActivity
                           ELSE {[state |-> s, thread |-> e.thread] : s \in Classified(e)}
        /\ reported' = [reported EXCEPT !.senders = @ \cup {e.thread}]
    BY <1>3, <2>1, <2>2 DEF ActivityNotified
  <2>4. Record.at = now /\ now <= now
    BY <2>1 DEF LampInv
  <2>5. e.thread # {} => t \in Threads /\ e.thread = {t}
    <3>1. e.thread \subseteq Threads /\ IsOption(e.thread)
      BY ServerAssumption
    <3>2. e.thread # {} => Or(e.thread, "") \in e.thread
      BY OptionFacts, Zenon
    <3> QED BY <2>2, <3>1, <3>2 DEF IsOption
  <2>6. reported'.senders = reported.senders \cup {e.thread}
    BY <2>3 DEF AccountInv
  <2>7. {f.thread : f \in lastActivity'} \subseteq {f.thread : f \in lastActivity} \cup {e.thread}
    BY <2>3
  <2>8. DOMAIN threads' \subseteq DOMAIN threads \cup {u \in {t} : e.thread # {}}
    BY <2>3 DEF Put
  <2>9. {{u} : u \in DOMAIN threads'} \subseteq {{u} : u \in DOMAIN threads} \cup {e.thread}
    BY <2>5, <2>8
  <2>10. DOMAIN threads' \subseteq Threads /\ \A u \in DOMAIN threads' : threads'[u].at <= now'
    BY <2>3, <2>4, <2>5 DEF ThreadsInv, Put
  <2> QED BY <2>6, <2>7, <2>9, <2>10 DEF ThreadsInv
<1>4. CASE LoginTold
  BY <1>4, LoginTakesAll DEF LoginTold, ThreadsInv, Empty
<1>5. \/ now' = now /\ threads' = threads /\ lastActivity' = lastActivity
      \/ TimePasses
      \/ LoginTold
      \/ \E e \in ActivityEvents : ActivityNotified(e)
  BY DEF ServerNext, serverVars, ReadAccount, LoginTold, ReadRateLimits, RateLimitsUpdated,
         ReadUsage, TokenUsageUpdated
<1> QED BY <1>1, <1>2, <1>3, <1>4, <1>5

LEMMA HeldHolds == ServerSpec => []HeldInv
<1>1. HeldInv /\ [ServerNext]_serverVars => HeldInv'
  BY AccountStep, LimitsStep, TokensStep, UsageStep, ThreadsStep, LampStep DEF HeldInv
<1> QED BY HeldInit, <1>1, PTL DEF ServerSpec

-----------------------------------------------------------------------------
(* What the invariant says of each property. *)

LEMMA HeldTypes == HeldInv => ServerTypes
<1> SUFFICES ASSUME HeldInv PROVE ServerTypes
  OBVIOUS
<1>1. account.requiresAuth \subseteq BOOLEAN
  BY DEF HeldInv, AccountInv
<1>2. AreSlots(limits)
  BY DEF HeldInv, LimitsInv
<1>3. \A w \in limits.primary \cup limits.secondary :
        DOMAIN w = {"used", "duration", "resets"} /\ w.duration \in Nat /\ Cardinality(w.resets) <= 1
  <2> TAKE w \in limits.primary \cup limits.secondary
  <2>1. IsWindow(w)
    BY <1>2 DEF AreSlots, IsSlot
  <2>2. Cardinality(w.resets) <= 1
    BY <2>1, OptionCardinality DEF IsWindow
  <2>3. DOMAIN w = {"used", "duration", "resets"}
    <3>1. PICK a, b, c : w = [used |-> a, duration |-> b, resets |-> c]
      BY <2>1 DEF IsWindow
    <3> QED BY <3>1
  <2> QED BY <2>1, <2>2, <2>3 DEF IsWindow
<1>4. Cardinality(limits.primary) <= 1 /\ Cardinality(limits.secondary) <= 1
  BY <1>2, OptionCardinality DEF AreSlots, IsSlot
<1>5. \A u \in tokens : u.thread \subseteq Threads
  BY DEF HeldInv, TokensInv
<1>6. DOMAIN threads \subseteq Threads /\ \A t \in DOMAIN threads : threads[t].at <= now
  BY DEF HeldInv, ThreadsInv
<1>7. IsOption(OfficialSnapshot.usage)
  <2>1. OfficialSnapshot.usage = AccountUsage
    BY DEF OfficialSnapshot
  <2>2. IsOption(usage)
    BY DEF HeldInv, UsageInv
  <2> QED BY <2>1, <2>2 DEF AccountUsage, IsOption
<1>8. IsOption(OfficialSnapshot.resetCredits)
  <2>1. OfficialSnapshot.resetCredits = ResetCredits
    BY DEF OfficialSnapshot
  <2>2. IsOption(limits.resetCredits)
    BY <1>2 DEF AreSlots
  <2> QED BY <2>1, <2>2 DEF ResetCredits, IsOption
<1>9. Cardinality(OfficialSnapshot.usage) <= 1 /\ Cardinality(OfficialSnapshot.resetCredits) <= 1
  BY <1>7, <1>8, OptionCardinality
<1> QED BY <1>1, <1>3, <1>4, <1>5, <1>6, <1>9 DEF ServerTypes

LEMMA HeldWindows == HeldInv => WindowsAreReported
<1> SUFFICES ASSUME HeldInv, NEW w \in FiveHour \cup Weekly PROVE w.duration \in reported.windows
  BY DEF WindowsAreReported
<1>1. w \in limits.primary \cup limits.secondary /\ (w.duration = 300 \/ w.duration = 10080)
  BY WindowFound DEF FiveHour, Weekly
<1>2. w.duration # 0
  BY <1>1
<1> QED BY <1>1, <1>2 DEF HeldInv, LimitsInv, LengthsSaid

LEMMA HeldBuckets == HeldInv => BucketsAreLatest
<1> SUFFICES ASSUME HeldInv, NEW r \in usage
             PROVE  DaysAreLatest(r.buckets, {i \in DOMAIN r.buckets :
                                    IsValidIsoDate(r.buckets[i].date) /\ r.buckets[i].tokens # {}})
  BY DEF BucketsAreLatest, DaysAreLatest
<1>1. PICK b : b = r.buckets
  OBVIOUS
<1>2. b \in Buckets
  BY <1>1, ServerAssumption DEF HeldInv, UsageInv, Buckets
<1>3. Valid(b, Len(b)) = {i \in DOMAIN b : IsValidIsoDate(b[i].date) /\ b[i].tokens # {}}
  <2>1. DOMAIN b = 1..Len(b)
    BY <1>2 DEF Buckets
  <2> QED BY <2>1 DEF Valid
<1>4. DaysAreLatest(b, Valid(b, Len(b)))
  BY <1>2, DailyUsageFacts
<1> QED BY <1>1, <1>3, <1>4

LEMMA HeldGeneration == HeldInv => GenerationIsolated
BY DEF HeldInv, UsageInv, TokensInv, ThreadsInv, GenerationIsolated

LEMMA HeldDuplicates == HeldInv => DuplicatesHarmless
<1> SUFFICES ASSUME HeldInv PROVE DuplicatesHarmless
  OBVIOUS
<1>1. \A p \in AccountPatches : MergeAccount(MergeAccount(account, p), p) = MergeAccount(account, p)
  BY MergeAccountFacts
<1>2. \A p \in LimitPatches : MergeRateLimits(MergeRateLimits(limits, p), p) = MergeRateLimits(limits, p)
  <2>1. AreSlots(limits) /\ \A p \in LimitPatches : AreLimits(p)
    BY ServerAssumption DEF HeldInv, LimitsInv
  <2> QED BY <2>1, MergeRateLimitsFacts
<1>3. \A p \in TokenPatches : MergeTokenUsage(MergeTokenUsage(tokens, p), p) = MergeTokenUsage(tokens, p)
  BY MergeTokenUsageFacts DEF HeldInv, TokensInv
<1> QED BY <1>1, <1>2, <1>3 DEF DuplicatesHarmless

(* Nothing of an earlier account, login or window comes back, the days are   *)
(* the newest ones with the figure last sent, and a notification delivered   *)
(* twice is one, after any number of answers and notifications in any order  *)
(* (state.rs:238-279, 615-633, session.rs:153-162).                          *)
THEOREM HeldStaysReported == ServerSpec => []HeldIsReported
<1>1. HeldInv => HeldIsReported
  BY HeldTypes, HeldWindows, HeldGeneration, HeldBuckets, HeldDuplicates
     DEF HeldIsReported, HeldInv, AccountInv
<1> QED BY HeldHolds, <1>1, PTL

(* A field, a window, a count, a usage or a thread goes away only with a     *)
(* full read that answers or with the login: no patch takes it, whatever it  *)
(* leaves out or says null of, and no activity (merge_object, state.rs:698;  *)
(* session.rs:454-460).                                                      *)
THEOREM HeldStaysUntilAnswered == ServerSpec => HeldUntilAnswered
<1> DEFINE Held == \/ LoginTold
                   \/ /\ AccountHeld \/ AccountAnswered
                      /\ LimitsHeld \/ LimitsAnswered
                      /\ RestHeld
<1>1. HeldInv /\ [ServerNext]_serverVars => Held
  <2> SUFFICES ASSUME HeldInv, [ServerNext]_serverVars, ~LoginTold
               PROVE  /\ AccountHeld \/ AccountAnswered
                      /\ LimitsHeld \/ LimitsAnswered
                      /\ RestHeld
    OBVIOUS
  <2>1. /\ AreSlots(limits) /\ IsOption(limits.credits) /\ IsOption(tokens)
        /\ \A p \in LimitPatches : AreLimits(p)
    BY ServerAssumption DEF HeldInv, LimitsInv, AreSlots, TokensInv
  <2>2. AccountHeld \/ AccountAnswered
    <3>1. account' = account \/ AccountAnswered
      BY DEF ServerNext, serverVars, ReadAccount, AccountAnswered, LoginTold, ReadRateLimits,
             RateLimitsUpdated, ReadUsage, TokenUsageUpdated, ActivityNotified, TimePasses
    <3> QED BY <3>1 DEF AccountHeld
  <2>3. LimitsHeld \/ LimitsAnswered
    <3>1. CASE limits' = limits
      BY <2>1, <3>1 DEF LimitsHeld, IsOption
    <3>2. ASSUME NEW r \in LimitReads, ReadRateLimits(r)
          PROVE  limits' = limits \/ LimitsAnswered
      BY <2>1, <3>2, ReplaceFacts DEF ReadRateLimits, LimitsAnswered
    <3>3. ASSUME NEW p \in LimitPatches, RateLimitsUpdated(p)
          PROVE  LimitsHeld
      <4>1. limits' = MergeRateLimits(limits, p)
        BY <3>3 DEF RateLimitsUpdated
      <4> QED BY <2>1, <4>1, MergeRateLimitsFacts DEF LimitsHeld
    <3>4. \/ limits' = limits
          \/ \E r \in LimitReads : ReadRateLimits(r)
          \/ \E p \in LimitPatches : RateLimitsUpdated(p)
      BY DEF ServerNext, serverVars, ReadAccount, LoginTold, ReadUsage, TokenUsageUpdated,
             ActivityNotified, TimePasses
    <3> QED BY <3>1, <3>2, <3>3, <3>4
  <2>4. \A u \in tokens : tokens' # {} /\ \A v \in tokens' : Said(u.counts) \subseteq Said(v.counts)
    <3>1. CASE tokens' = tokens
      BY <2>1, <3>1 DEF IsOption
    <3>2. ASSUME NEW p \in TokenPatches, TokenUsageUpdated(p)
          PROVE  \A u \in tokens : tokens' # {} /\ \A v \in tokens' : Said(u.counts) \subseteq Said(v.counts)
      <4>1. tokens' = MergeTokenUsage(tokens, p)
        BY <3>2 DEF TokenUsageUpdated
      <4>2. tokens' # {}
        BY <4>1 DEF MergeTokenUsage
      <4> QED BY <2>1, <4>1, <4>2, MergeTokenUsageFacts
    <3>3. tokens' = tokens \/ \E p \in TokenPatches : TokenUsageUpdated(p)
      BY DEF ServerNext, serverVars, ReadAccount, LoginTold, ReadRateLimits, RateLimitsUpdated,
             ReadUsage, ActivityNotified, TimePasses
    <3> QED BY <3>1, <3>2, <3>3
  <2>5. usage = {} \/ usage' # {}
    BY DEF ServerNext, serverVars, ReadAccount, LoginTold, ReadRateLimits, RateLimitsUpdated,
           ReadUsage, TokenUsageUpdated, ActivityNotified, TimePasses
  <2>6. DOMAIN threads \subseteq DOMAIN threads'
    <3>1. ASSUME NEW e \in ActivityEvents, ActivityNotified(e)
          PROVE  DOMAIN threads \subseteq DOMAIN threads'
      BY <3>1 DEF ActivityNotified, Put
    <3>2. threads' = threads \/ \E e \in ActivityEvents : ActivityNotified(e)
      BY DEF ServerNext, serverVars, ReadAccount, LoginTold, ReadRateLimits, RateLimitsUpdated,
             ReadUsage, TokenUsageUpdated, TimePasses
    <3> QED BY <3>1, <3>2
  <2> QED BY <2>2, <2>3, <2>4, <2>5, <2>6 DEF RestHeld
<1>2. HeldInv /\ [ServerNext]_serverVars => [Held]_serverVars
  BY <1>1
<1> HIDE DEF Held
<1>3. ServerSpec => [][Held]_serverVars
  BY HeldHolds, <1>2, PTL DEF ServerSpec
<1> QED BY <1>3 DEF HeldUntilAnswered, Held
=============================================================================
