------------------------------ MODULE Transport ------------------------------
(***************************************************************************)
(* The stdio JSON-RPC transport of the Codex App Server adapter            *)
(* (crates/adapters-codex-app-server/src/transport.rs): five threads over  *)
(* one Shared record.                                                      *)
(*                                                                         *)
(*   client      the session thread: request, recv_timeout, close, drop    *)
(*   supervisor  handshake, then registers requests and queues their bytes *)
(*   reader      matches responses to pending requests, reports events     *)
(*   writer      writes queued bytes to the child's stdin                  *)
(*   timer       expires pending requests whose deadline has passed        *)
(*                                                                         *)
(* Each atomic access of the code (an atomic flag, a locked section, a     *)
(* channel operation) is a step.  A send on a private reply channel that   *)
(* directly follows the removal of its entry is folded into that step: no  *)
(* other thread can tell.  Time is abstract: a deadline may pass at any    *)
(* moment.  The server process is the environment.                         *)
(***************************************************************************)
EXTENDS Integers, Sequences, FiniteSets, SequencesExt

CONSTANTS MaxId,      \* bound: the last request id the client uses
          MaxFrames   \* bound: lines the server writes before it only may exit

ASSUME TransportAssumption == MaxId \in Nat \ {0} /\ MaxFrames \in Nat

InitializeId == 1                \* transport.rs:584
ReqIds       == 2..MaxId         \* next_id starts at 2
Ids          == 1..MaxId
CloseCommand == 0                \* Command::Close among queued request ids
InitializedNotice == 0           \* the initialized notification among outbound ids
NoRequest    == 0

Results  == {"ok", "error", "timeout", "closed"}
Outcomes == Results \cup {"none", "waiting", "rejected"}
Frames   == [kind : {"ok", "error"}, id : Ids]   \* lines that decode to a response
Events   == {"Ready", "Closed", "StartupFailed", "Eof", "IoError"}
TerminalEvents == {"Closed", "StartupFailed", "Eof", "IoError"}

Threads == {"client", "supervisor", "reader", "writer", "timer"}
Places  == {"idle", "submit", "close", "drain", "announce", "dropped",
            "start", "register", "initialize", "await", "initialized", "startupFailed",
            "startupTerminate", "startupDrain", "markReady", "emitReady", "loop", "recv",
            "check", "insert", "send", "sendFailed", "sendFailedDrain", "closing",
            "closingDrain", "exit", "done", "wait", "read", "emit", "run", "sleep"}

VARIABLES
  alive, ready,       \* Shared.alive, Shared.ready
  registered,         \* Shared.handshake_registered
  closedSent,         \* Shared.closed_event_sent
  pending,            \* ids with a PendingEntry
  events,             \* the life-cycle events sent on the event channel, in order
  commands,           \* command channel: request ids and CloseCommand
  commandOpen,        \* the supervisor still owns the command receiver
  held,               \* the request the supervisor has taken and not registered
  outbound,           \* bytes queued for the writer
  outboundOpen,       \* the writer still owns the outbound receiver
  nextId,             \* AppServerTransport.next_id
  replies,            \* messages sent on each request's reply channel
  outcome,            \* what the client has learnt of each request
  pc,
  serverUp, received, answered, inbox, written   \* the child process and its stdout

shared     == <<alive, ready, registered, closedSent, pending>>
clientVars == <<nextId, outcome>>
channels   == <<commands, commandOpen, outbound, outboundOpen>>
server     == <<serverUp, received, answered, inbox, written>>
vars == <<shared, events, channels, held, clientVars, replies, pc, server>>

-----------------------------------------------------------------------------

At(t, place) == pc[t] = place
Goto(t, place) == pc' = [pc EXCEPT ![t] = place]
Emit(e) == events' = Append(events, e)

(* One message on the reply channel of every request of S. *)
Reply(S, result) ==
  replies' = [id \in Ids |-> IF id \in S THEN Append(replies[id], result)
                                         ELSE replies[id]]

(* Some thread still owns the sending half of the reply channel of id. *)
HasSender(id) ==
  \/ id \in ToSet(commands) \/ id \in pending
  \/ id = held /\ pc["supervisor"] \in {"check", "insert"}

(* Shared::terminate: the one thread whose swap wins goes on to drain. *)
TerminateSwap(t, won, lost) ==
  /\ alive' = FALSE
  /\ Goto(t, IF alive THEN won ELSE lost)
  /\ UNCHANGED <<ready, registered, closedSent, pending, replies>>

TerminateDrain(t, next) ==
  /\ ready' = FALSE
  /\ pending' = {}
  /\ Reply(pending, "closed")
  /\ Goto(t, next)
  /\ UNCHANGED <<alive, registered, closedSent>>

EmitClosed ==
  /\ closedSent' = TRUE
  /\ IF closedSent THEN UNCHANGED events ELSE Emit("Closed")

(* Shared::fail_pending *)
FailPending(id, result) ==
  /\ pending' = pending \ {id}
  /\ Reply(pending \cap {id}, result)

-----------------------------------------------------------------------------
(* The client: AppServerTransport's methods and PendingResponse. *)

(* request: next_request_id, then the is_alive check of send_request_with_id. *)
(* MaxId bounds the ids; IdExhausted, at the end of u64, changes no state.    *)
ClientAllocate ==
  /\ At("client", "idle") /\ nextId <= MaxId
  /\ nextId' = nextId + 1
  /\ IF alive
       THEN Goto("client", "submit") /\ UNCHANGED outcome
       ELSE outcome' = [outcome EXCEPT ![nextId] = "rejected"] /\ UNCHANGED pc
  /\ UNCHANGED <<shared, events, channels, held, replies, server>>

(* The rest of send_request_with_id: accepted, refused because the command *)
(* channel is closed, or turned down by encode_request as too long a line, *)
(* in which case nothing has been asked and the outcome stays "none".      *)
ClientSubmit ==
  LET id == nextId - 1 IN
  /\ At("client", "submit")
  /\ \/ /\ commandOpen
        /\ commands' = Append(commands, id)
        /\ outcome' = [outcome EXCEPT ![id] = "waiting"]
     \/ /\ ~commandOpen
        /\ outcome' = [outcome EXCEPT ![id] = "rejected"]
        /\ UNCHANGED commands
     \/ UNCHANGED <<commands, outcome>>
  /\ Goto("client", "idle")
  /\ UNCHANGED <<shared, events, commandOpen, outbound, outboundOpen, held, nextId, replies, server>>

(* recv / recv_timeout: a message, or Disconnected once every sender is gone. *)
ClientReceive(id) ==
  /\ At("client", "idle") /\ outcome[id] = "waiting"
  /\ \/ replies[id] # <<>> /\ outcome' = [outcome EXCEPT ![id] = Head(replies[id])]
     \/ replies[id] = <<>> /\ ~HasSender(id) /\ outcome' = [outcome EXCEPT ![id] = "closed"]
  /\ UNCHANGED <<shared, events, channels, held, nextId, replies, pc, server>>

(* recv_timeout gives up on its own clock. *)
ClientGiveUp(id) ==
  /\ At("client", "idle") /\ outcome[id] = "waiting" /\ replies[id] = <<>>
  /\ outcome' = [outcome EXCEPT ![id] = "timeout"]
  /\ UNCHANGED <<shared, events, channels, held, nextId, replies, pc, server>>

(* close: nothing to do on a dead transport.  Bound: one Close command queued. *)
ClientClose ==
  /\ At("client", "idle") /\ alive
  /\ CloseCommand \notin ToSet(commands)
  /\ Goto("client", "close")
  /\ UNCHANGED <<shared, events, channels, held, clientVars, replies, server>>

(* A supervisor that is gone has ended the transport before, so terminate    *)
(* finds alive false here and has nothing to drain (GoneImpliesDead).        *)
ClientCloseSend ==
  /\ At("client", "close")
  /\ \/ commandOpen /\ commands' = Append(commands, CloseCommand)
        /\ Goto("client", "announce") /\ UNCHANGED <<shared, replies>>
     \/ ~commandOpen /\ UNCHANGED commands
        /\ TerminateSwap("client", "announce", "announce")
  /\ UNCHANGED <<events, commandOpen, outbound, outboundOpen, held, clientVars, server>>

ClientCloseAnnounce ==
  /\ At("client", "announce")
  /\ EmitClosed
  /\ Goto("client", "idle")
  /\ UNCHANGED <<alive, ready, registered, pending, channels, held, clientVars, replies, server>>

(* The session drops the transport: the command sender goes away. *)
ClientDrop ==
  /\ At("client", "idle")
  /\ \A id \in ReqIds : outcome[id] # "waiting"
  /\ Goto("client", "dropped")
  /\ UNCHANGED <<shared, events, channels, held, clientVars, replies, server>>

-----------------------------------------------------------------------------
(* The supervisor thread. *)

SupervisorInsertInitialize ==
  /\ At("supervisor", "start")
  /\ pending' = pending \cup {InitializeId}
  /\ Goto("supervisor", "register")
  /\ UNCHANGED <<alive, ready, registered, closedSent, events, channels, held, clientVars, replies, server>>

SupervisorRegister ==
  /\ At("supervisor", "register")
  /\ registered' = TRUE
  /\ Goto("supervisor", "initialize")
  /\ UNCHANGED <<alive, ready, closedSent, pending, events, channels, held, clientVars, replies, server>>

(* Queue bytes for the writer, or find its receiver gone. *)
SupervisorWrite(place, bytes, sent, failed) ==
  /\ At("supervisor", place)
  /\ IF outboundOpen
       THEN outbound' = Append(outbound, bytes) /\ Goto("supervisor", sent)
       ELSE UNCHANGED outbound /\ Goto("supervisor", failed)
  /\ UNCHANGED <<shared, events, commands, commandOpen, outboundOpen, held, clientVars, replies, server>>

SupervisorSendInitialize == SupervisorWrite("initialize", InitializeId, "await", "startupFailed")

(* initialize_receiver.recv_timeout(handshake_timeout) *)
SupervisorAwaitInitialize ==
  /\ At("supervisor", "await")
  /\ \/ /\ replies[InitializeId] # <<>>
        /\ Goto("supervisor", IF Head(replies[InitializeId]) = "ok"
                                THEN "initialized" ELSE "startupFailed")
     \/ replies[InitializeId] = <<>> /\ Goto("supervisor", "startupFailed")
  /\ UNCHANGED <<shared, events, channels, held, clientVars, replies, server>>

SupervisorSendInitialized ==
  SupervisorWrite("initialized", InitializedNotice, "markReady", "startupFailed")

SupervisorStartupFailed ==
  /\ At("supervisor", "startupFailed")
  /\ FailPending(InitializeId, "closed")
  /\ Emit("StartupFailed")
  /\ Goto("supervisor", "startupTerminate")
  /\ UNCHANGED <<alive, ready, registered, closedSent, channels, held, clientVars, server>>

SupervisorStartupTerminate ==
  /\ \/ At("supervisor", "startupTerminate") /\ TerminateSwap("supervisor", "startupDrain", "drain")
     \/ At("supervisor", "startupDrain") /\ TerminateDrain("supervisor", "drain")
  /\ UNCHANGED <<events, channels, held, clientVars, server>>

(* ready.store(true) and the Ready event: alive is not looked at again. *)
SupervisorMarkReady ==
  /\ At("supervisor", "markReady")
  /\ ready' = TRUE
  /\ Goto("supervisor", "emitReady")
  /\ UNCHANGED <<alive, registered, closedSent, pending, events, channels, held, clientVars, replies, server>>

SupervisorEmitReady ==
  /\ At("supervisor", "emitReady")
  /\ Emit("Ready")
  /\ Goto("supervisor", "loop")
  /\ UNCHANGED <<shared, channels, held, clientVars, replies, server>>

SupervisorCheckAlive ==
  /\ At("supervisor", "loop")
  /\ Goto("supervisor", IF alive THEN "recv" ELSE "drain")
  /\ UNCHANGED <<shared, events, channels, held, clientVars, replies, server>>

(* receiver.recv_timeout(25 ms) *)
SupervisorReceive ==
  /\ At("supervisor", "recv")
  /\ \/ /\ commands # <<>> /\ Head(commands) = CloseCommand
        /\ commands' = Tail(commands) /\ UNCHANGED held
        /\ Goto("supervisor", "closing")
     \/ /\ commands # <<>> /\ Head(commands) # CloseCommand
        /\ commands' = Tail(commands) /\ held' = Head(commands)
        /\ Goto("supervisor", "check")
     \/ /\ commands = <<>> /\ UNCHANGED <<commands, held>>
        /\ Goto("supervisor", IF At("client", "dropped") THEN "closing" ELSE "loop")
  /\ UNCHANGED <<shared, events, commandOpen, outbound, outboundOpen, clientVars, replies, server>>

(* The alive check before a request is registered. *)
SupervisorCheckRequest ==
  /\ At("supervisor", "check")
  /\ IF alive
       THEN Goto("supervisor", "insert") /\ UNCHANGED <<held, replies>>
       ELSE Reply({held}, "closed") /\ held' = NoRequest /\ Goto("supervisor", "loop")
  /\ UNCHANGED <<shared, events, channels, clientVars, server>>

(* Mutant: the entry is registered after the bytes have been queued. *)
SupervisorInsertLate ==
  /\ At("supervisor", "insert")
  /\ Goto("supervisor", "send")
  /\ UNCHANGED <<shared, events, channels, held, clientVars, replies, server>>

SupervisorInsert ==
  /\ At("supervisor", "insert")
  /\ pending' = pending \cup {held}
  /\ Goto("supervisor", "send")
  /\ UNCHANGED <<alive, ready, registered, closedSent, events, channels, held, clientVars, replies, server>>

(* The bytes go to the writer; a dead writer fails the request and ends the loop. *)
SupervisorSend ==
  /\ At("supervisor", "send")
  /\ held' = NoRequest
  /\ IF outboundOpen
       THEN /\ outbound' = Append(outbound, held)
            /\ Goto("supervisor", "loop")
            /\ UNCHANGED <<pending, replies>>
       ELSE /\ FailPending(held, "closed")
            /\ Goto("supervisor", "sendFailed")
            /\ UNCHANGED outbound
  /\ UNCHANGED <<alive, ready, registered, closedSent, events, commands, commandOpen, outboundOpen, clientVars, server>>

SupervisorSendFailed ==
  /\ \/ At("supervisor", "sendFailed") /\ TerminateSwap("supervisor", "sendFailedDrain", "exit")
     \/ At("supervisor", "sendFailedDrain") /\ TerminateDrain("supervisor", "exit")
  /\ UNCHANGED <<events, channels, held, clientVars, server>>

(* Command::Close, or every command sender gone. *)
SupervisorClosing ==
  /\ \/ At("supervisor", "closing") /\ TerminateSwap("supervisor", "closingDrain", "announce")
     \/ At("supervisor", "closingDrain") /\ TerminateDrain("supervisor", "announce")
  /\ UNCHANGED <<events, channels, held, clientVars, server>>

SupervisorAnnounce ==
  /\ At("supervisor", "announce")
  /\ EmitClosed
  /\ Goto("supervisor", "exit")
  /\ UNCHANGED <<alive, ready, registered, pending, channels, held, clientVars, replies, server>>

(* drain_commands: answer queued requests until try_recv finds nothing. *)
SupervisorDrainCommands ==
  /\ At("supervisor", "drain")
  /\ IF commands = <<>>
       THEN Goto("supervisor", "exit") /\ UNCHANGED <<commands, replies>>
       ELSE /\ commands' = Tail(commands)
            /\ Reply({Head(commands)} \cap Ids, "closed")
            /\ UNCHANGED pc
  /\ UNCHANGED <<shared, events, commandOpen, outbound, outboundOpen, held, clientVars, server>>

(* Returning drops the command receiver with whatever was still queued. *)
SupervisorExit ==
  /\ At("supervisor", "exit")
  /\ commandOpen' = FALSE
  /\ commands' = <<>>
  /\ Goto("supervisor", "done")
  /\ UNCHANGED <<shared, events, outbound, outboundOpen, held, clientVars, replies, server>>

-----------------------------------------------------------------------------
(* The reader thread. *)

ReaderWait ==
  /\ At("reader", "wait")
  /\ registered \/ ~alive
  /\ Goto("reader", IF registered THEN "read" ELSE "done")
  /\ UNCHANGED <<shared, events, channels, held, clientVars, replies, server>>

(* Mutant: an answer goes to whichever request is pending. *)
ReaderReadAnyPending ==
  LET frame == Head(inbox) IN
  /\ At("reader", "read") /\ inbox # <<>>
  /\ inbox' = Tail(inbox)
  /\ IF pending # {}
       THEN FailPending(CHOOSE id \in pending : TRUE, frame.kind)
       ELSE UNCHANGED <<pending, replies>>
  /\ UNCHANGED <<alive, ready, registered, closedSent, events, channels, held, clientVars, pc, serverUp, received, answered, written>>

(* A response removes its pending entry and goes to that request alone.     *)
(* Without an entry it is an UnexpectedResponse event; like notifications   *)
(* and lines that do not parse, that touches nothing here and is left to    *)
(* module Session.                                                          *)
ReaderRead ==
  LET frame == Head(inbox) IN
  /\ At("reader", "read") /\ inbox # <<>>
  /\ inbox' = Tail(inbox)
  /\ IF frame.id \in pending
       THEN FailPending(frame.id, frame.kind)
       ELSE UNCHANGED <<pending, replies>>
  /\ UNCHANGED <<alive, ready, registered, closedSent, events, channels, held, clientVars, pc, serverUp, received, answered, written>>

(* Ok(None) or an Io error at the end of the stream. *)
ReaderEnd ==
  /\ At("reader", "read") /\ inbox = <<>> /\ ~serverUp
  /\ TerminateSwap("reader", "drain", "done")
  /\ UNCHANGED <<events, channels, held, clientVars, server>>

ReaderDrain ==
  /\ At("reader", "drain")
  /\ TerminateDrain("reader", "emit")
  /\ UNCHANGED <<events, channels, held, clientVars, server>>

(* Mutant: the end of the stream is not reported. *)
ReaderEmitNothing ==
  /\ At("reader", "emit")
  /\ Goto("reader", "done")
  /\ UNCHANGED <<shared, events, channels, held, clientVars, replies, server>>

ReaderEmit ==
  /\ At("reader", "emit")
  /\ \E e \in {"Eof", "IoError"} : Emit(e)
  /\ Goto("reader", "done")
  /\ UNCHANGED <<shared, channels, held, clientVars, replies, server>>

-----------------------------------------------------------------------------
(* The writer thread. *)

(* write_all + flush.  Bytes written to a dying child may be lost. *)
WriterWrite ==
  /\ At("writer", "run") /\ outbound # <<>>
  /\ outbound' = Tail(outbound)
  /\ received' = IF serverUp THEN received \cup ({Head(outbound)} \cap Ids) ELSE received
  /\ UNCHANGED <<shared, events, commands, commandOpen, outboundOpen, held, clientVars, replies, pc, serverUp, answered, inbox, written>>

WriterFail ==
  /\ At("writer", "run") /\ outbound # <<>> /\ ~serverUp
  /\ TerminateSwap("writer", "drain", "exit")
  /\ UNCHANGED <<events, channels, held, clientVars, server>>

WriterDrain ==
  /\ At("writer", "drain")
  /\ TerminateDrain("writer", "emit")
  /\ UNCHANGED <<events, channels, held, clientVars, server>>

WriterEmit ==
  /\ At("writer", "emit")
  /\ Emit("IoError")
  /\ Goto("writer", "exit")
  /\ UNCHANGED <<shared, channels, held, clientVars, replies, server>>

(* The receiver goes away after an error, or when the supervisor dropped its sender. *)
WriterExit ==
  /\ \/ At("writer", "exit")
     \/ At("writer", "run") /\ outbound = <<>> /\ At("supervisor", "done")
  /\ outboundOpen' = FALSE
  /\ outbound' = <<>>
  /\ Goto("writer", "done")
  /\ UNCHANGED <<shared, events, commands, commandOpen, held, clientVars, replies, server>>

-----------------------------------------------------------------------------
(* The timeout thread: one scan, then the alive check of its loop. *)

(* Mutant: expired entries are answered and left in the map. *)
TimerScanKeeps(expired) ==
  /\ At("timer", "sleep")
  /\ Len(replies[InitializeId]) < 3        \* bound
  /\ Reply(expired, "timeout")
  /\ Goto("timer", IF alive THEN "sleep" ELSE "done")
  /\ UNCHANGED <<shared, events, channels, held, clientVars, server>>

(* Mutant: an expired entry is dropped, its channel hears nothing. *)
TimerScanForgets(expired) ==
  /\ At("timer", "sleep")
  /\ pending' = pending \ expired
  /\ Goto("timer", IF alive THEN "sleep" ELSE "done")
  /\ UNCHANGED <<alive, ready, registered, closedSent, replies, events, channels, held, clientVars, server>>

(* Mutant: the thread ends when a scan finds nothing pending. *)
TimerScanGivesUp(expired) ==
  /\ At("timer", "sleep")
  /\ pending' = pending \ expired
  /\ Reply(expired, "timeout")
  /\ Goto("timer", IF alive /\ pending # {} THEN "sleep" ELSE "done")
  /\ UNCHANGED <<alive, ready, registered, closedSent, events, channels, held, clientVars, server>>

TimerScan(expired) ==
  /\ At("timer", "sleep")
  /\ pending' = pending \ expired
  /\ Reply(expired, "timeout")
  /\ Goto("timer", IF alive THEN "sleep" ELSE "done")
  /\ UNCHANGED <<alive, ready, registered, closedSent, events, channels, held, clientVars, server>>

TimerExpire(id) == \E expired \in SUBSET pending : id \in expired /\ TimerScan(expired)

-----------------------------------------------------------------------------
(* The child process (environment). *)

ServerSend ==
  /\ serverUp /\ written < MaxFrames
  /\ written' = written + 1
  /\ \E id \in received, kind \in {"ok", "error"} :
       /\ inbox' = Append(inbox, [kind |-> kind, id |-> id])
       /\ answered' = answered \cup {<<id, kind>>}
  /\ UNCHANGED <<shared, events, channels, held, clientVars, replies, pc, serverUp, received>>

ServerExit ==
  /\ serverUp /\ serverUp' = FALSE
  /\ UNCHANGED <<shared, events, channels, held, clientVars, replies, pc, received, answered, inbox, written>>

-----------------------------------------------------------------------------

Init ==
  /\ alive = TRUE /\ ready = FALSE /\ registered = FALSE /\ closedSent = FALSE
  /\ pending = {} /\ events = <<>>
  /\ commands = <<>> /\ commandOpen = TRUE /\ held = NoRequest
  /\ outbound = <<>> /\ outboundOpen = TRUE
  /\ nextId = 2
  /\ replies = [id \in Ids |-> <<>>]
  /\ outcome = [id \in ReqIds |-> "none"]
  /\ pc = [t \in Threads |-> IF t = "client" THEN "idle" ELSE IF t = "supervisor" THEN "start" ELSE
                             IF t = "reader" THEN "wait" ELSE IF t = "writer" THEN "run" ELSE "sleep"]
  /\ serverUp = TRUE /\ received = {} /\ answered = {} /\ inbox = <<>> /\ written = 0

ClientStep ==
  \/ ClientSubmit \/ ClientCloseSend \/ ClientCloseAnnounce

Client ==
  \/ ClientAllocate \/ ClientStep \/ ClientClose \/ ClientDrop
  \/ \E id \in ReqIds : ClientReceive(id) \/ ClientGiveUp(id)

Supervisor ==
  \/ SupervisorInsertInitialize \/ SupervisorRegister \/ SupervisorSendInitialize
  \/ SupervisorAwaitInitialize \/ SupervisorSendInitialized \/ SupervisorStartupFailed
  \/ SupervisorStartupTerminate \/ SupervisorMarkReady \/ SupervisorEmitReady
  \/ SupervisorCheckAlive \/ SupervisorReceive \/ SupervisorCheckRequest
  \/ SupervisorInsert \/ SupervisorSend \/ SupervisorSendFailed
  \/ SupervisorClosing \/ SupervisorAnnounce \/ SupervisorDrainCommands \/ SupervisorExit

Reader == ReaderWait \/ ReaderRead \/ ReaderEnd \/ ReaderDrain \/ ReaderEmit
Writer == WriterWrite \/ WriterFail \/ WriterDrain \/ WriterEmit \/ WriterExit
Timer  == \E expired \in SUBSET pending : TimerScan(expired)
Server == ServerSend \/ ServerExit

Next == Client \/ Supervisor \/ Reader \/ Writer \/ Timer \/ Server

Spec == Init /\ [][Next]_vars

(* The operating system schedules every thread; deadlines pass.  Nothing is *)
(* assumed of the server, nor of what the client decides to do.             *)
Fairness ==
  /\ WF_vars(ClientStep) /\ WF_vars(Supervisor) /\ WF_vars(Reader) /\ WF_vars(Writer)
  /\ \A id \in Ids : WF_vars(TimerExpire(id))
  /\ WF_vars(Timer)

FairSpec == Spec /\ Fairness

-----------------------------------------------------------------------------

TypeOK ==
  /\ alive \in BOOLEAN /\ ready \in BOOLEAN
  /\ registered \in BOOLEAN /\ closedSent \in BOOLEAN
  /\ pending \subseteq Ids
  /\ events \in Seq(Events)
  /\ commands \in Seq(ReqIds \cup {CloseCommand}) /\ commandOpen \in BOOLEAN
  /\ held \in ReqIds \cup {NoRequest}
  /\ outbound \in Seq(Ids \cup {InitializedNotice}) /\ outboundOpen \in BOOLEAN
  /\ nextId \in 2..(MaxId + 1)
  /\ replies \in [Ids -> Seq(Results)]
  /\ outcome \in [ReqIds -> Outcomes]
  /\ pc \in [Threads -> Places]
  /\ serverUp \in BOOLEAN /\ received \subseteq Ids
  /\ answered \subseteq Ids \X {"ok", "error"}
  /\ inbox \in Seq(Frames) /\ written \in 0..MaxFrames

(* A request is answered at most once, although the reader, the timer, the  *)
(* drain of terminate, fail_pending and drain_commands all race to do it    *)
(* (transport.rs:266-302, 538-550, 695-703, 715).                           *)
AnsweredOnce == \A id \in Ids : Len(replies[id]) <= 1

(* An accepted request is never lost: until it is answered its reply channel *)
(* keeps a sender, unless the transport is dead and its queue was dropped    *)
(* (transport.rs:459-468, 654-675).                                          *)
NoLostRequest ==
  \A id \in ReqIds : (outcome[id] = "waiting" /\ replies[id] = <<>>) => HasSender(id) \/ ~alive

(* The strengthening that makes the two invariants above inductive: a        *)
(* reply channel has one owner at a time, the queue, the supervisor's hand   *)
(* or the pending map, and an owned channel is still empty; ids not handed   *)
(* out are nowhere; and once the supervisor can no longer serve the queue    *)
(* the transport is already dead.                                            *)
Queued == ToSet(commands)
InHand == IF pc["supervisor"] \in {"check", "insert"} THEN {held} ELSE {}
Owned  == Queued \cup pending \cup InHand

QueuedOnce ==
  \A i, j \in DOMAIN commands : commands[i] = commands[j] /\ commands[i] # CloseCommand => i = j

OneOwner ==
  /\ QueuedOnce
  /\ Queued \cap pending = {} /\ InHand \cap Queued = {} /\ InHand \cap pending = {}

OwnedIsEmpty == \A id \in Ids : id \in Owned => replies[id] = <<>>

NotYetUsed(id) ==
  \/ id >= nextId
  \/ id = nextId - 1 /\ At("client", "submit")
  \/ id = InitializeId /\ At("supervisor", "start")
UnusedIsNowhere ==
  \A id \in Ids : NotYetUsed(id) => id \notin Owned /\ replies[id] = <<>>

(* A thread that is about to use a request id has one. *)
IdsAtHand ==
  /\ At("client", "submit") => nextId - 1 \in ReqIds
  /\ pc["supervisor"] \in {"check", "insert", "send"} => held \in ReqIds

SupervisorGone == {"startupDrain", "drain", "exit", "done", "sendFailedDrain", "closingDrain", "announce"}
GoneImpliesDead == pc["supervisor"] \in SupervisorGone => ~alive

OwnershipInv ==
  /\ TypeOK /\ IdsAtHand /\ OneOwner /\ OwnedIsEmpty /\ UnusedIsNowhere /\ GoneImpliesDead
  /\ AnsweredOnce /\ NoLostRequest

(* A request is registered before its bytes can reach the server, so the    *)
(* answer of a live request is never reported as unexpected: the transport  *)
(* holds an answer only for a request that is pending or already answered   *)
(* (transport.rs:660-666).                                                  *)
RegisteredBeforeWritten ==
  \A id \in ReqIds :
    (id \in received \/ id \in ToSet(outbound)) => id \in pending \/ replies[id] # <<>>

(* The two ways to announce a close, close itself and the supervisor, are   *)
(* deduplicated, and the one winner of terminate is the only thread to      *)
(* report Eof or IoError (transport.rs:266-282, 432-444).                   *)
Occurrences(kinds) == Cardinality({i \in DOMAIN events : events[i] \in kinds})
EndReportedOnce == Occurrences({"Closed"}) <= 1 /\ Occurrences({"Eof", "IoError"}) <= 1

(* Nothing is reported as failed on a live transport: a Closed answer and   *)
(* the Eof and IoError events follow the end of the transport               *)
(* (transport.rs:510-518, 557-560, 644-657).                                *)
FailureImpliesDead ==
  \/ ~alive
  \/ /\ \A id \in ReqIds : replies[id] # <<"closed">> /\ outcome[id] \notin {"closed", "rejected"}
     /\ Occurrences({"Eof", "IoError"}) = 0

(* A death of the transport is always reported to the session, whose event  *)
(* loop relies on it to reconnect (session.rs:496-521).                     *)
EndIsReported == ~alive ~> (\E i \in DOMAIN events : events[i] \in TerminalEvents)

(* While the transport lives every accepted request is answered, if only    *)
(* by the timer (transport.rs:689-705).                                     *)
Unanswered(id) == outcome[id] = "waiting" /\ replies[id] = <<>>
RequestResolves == \A id \in ReqIds : (Unanswered(id) /\ alive) ~> (~Unanswered(id) \/ ~alive)

(* What the client may rely on, as a specification of its own. *)
Contract == INSTANCE ReplyContract WITH open <- alive
ImplementsContract == Contract!Spec

(* The end of the transport is orderly in whatever order the threads meet   *)
(* it: what was written is registered, the end is told once, and nobody is  *)
(* told of a failure before it (transport.rs:266-282, 644-675).             *)
OrderlyEnd == TypeOK /\ RegisteredBeforeWritten /\ EndReportedOnce /\ FailureImpliesDead
=============================================================================
