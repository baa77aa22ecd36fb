---------------------------------- MODULE Host ----------------------------------
(***************************************************************************)
(* The window thread of the taskbar program: its command channel and wake  *)
(* message, the details card and the token strip, and the events it sends  *)
(* back (crates/platform-windows/src/host.rs, host/native.rs).             *)
(*                                                                         *)
(* The thread handles one window message at a time, except that two calls  *)
(* dispatch messages themselves while they wait: the creation of a WebView *)
(* and the popup menu.  "stack" holds the handlers that are waiting; the   *)
(* messages dispatched above them run in the middle of those handlers.     *)
(*                                                                         *)
(* Windows: posted messages are delivered in order, input and timers only  *)
(* when none is posted; the messages of a destroyed window are dropped.    *)
(* What a window shows is the version of the data it was given last.       *)
(***************************************************************************)
EXTENDS Integers, FiniteSets, SequencesExt, FiniteSetsExt

CONSTANTS
  None,         \* no window, no snapshot
  MaxVersion,   \* publications of the runtime
  MaxWindows,   \* popups at a time; a further creation fails
  MaxInput,     \* what the user does with the mouse, the keyboard and the menu
  MaxDepth      \* waiting handlers under which messages are still dispatched

Owner   == 0
Windows == 1..MaxWindows
Version == 0..MaxVersion

ASSUME HostAssumption ==
  /\ {MaxVersion, MaxWindows, MaxInput, MaxDepth} \subseteq Nat
  /\ None \notin Nat

VARIABLES
  host,        \* "running", "ended", or "undefined": a waiting handler lost its context
  ui,          \* WindowContext, the popups and the posted messages
  stack,       \* handlers waiting in a nested message loop, innermost last
  commands,    \* the channel of NativeHostCommand
  events,      \* the channel of NativeHostEvent
  runtime,     \* the run loop: "looping", "stopping", "ended"
  outbox,      \* commands the run loop is about to send
  waking,      \* a command is sent, its wake message is not posted yet
  version,     \* last version published
  input,       \* bounded counter of user actions
  expired      \* history: last snapshot whose strip closed by its timer, 0 at first

vars == <<host, ui, stack, commands, events, runtime, outbox, waking, version, input, expired>>
runtimeVars == <<runtime, outbox, waking, version>>
threadVars  == <<host, ui, stack, events, expired>>

-----------------------------------------------------------------------------
(* The context of the window and its popups, as functions of "ui". *)

Popup(kind, data) == [kind |-> kind, open |-> TRUE, data |-> data, page |-> "none", shown |-> None]
Unused == [kind |-> "none", open |-> FALSE, data |-> None, page |-> "none", shown |-> None]

NoWindows ==
  [windows |-> [w \in Windows |-> Unused], posted |-> <<>>, details |-> 0,
   snapshot |-> None, detailsWindow |-> None, stripWindow |-> None, tracking |-> FALSE]

Free(u, w) == u.windows[w] = Unused /\ w \notin {u.detailsWindow, u.stripWindow}
IsWindow(u, w) == w # None /\ u.windows[w].open
Posted(u, to, name) == [u EXCEPT !.posted = Append(@, [to |-> to, name |-> name])]

(* What is left of a queue when w is destroyed: the messages to the others,  *)
(* in their order.                                                           *)
Without(posted, w) ==
  LET kept == {i \in DOMAIN posted : posted[i].to # w}
      nth(k) == CHOOSE i \in kept : Cardinality({j \in kept : j <= i}) = k
  IN  [k \in 1..Cardinality(kept) |-> posted[nth(k)]]

(* DestroyWindow: the window's own procedure tells the owner; the message    *)
(* does not say which window it was.                                         *)
Destroyed(u, w) ==
  LET closed == [u EXCEPT !.windows[w] = Unused, !.posted = Without(@, w)]
  IN Posted(closed, Owner, IF u.windows[w].kind = "details" THEN "detailsClosed" ELSE "stripClosed")

CloseStrip(u) ==
  LET v == [u EXCEPT !.snapshot = None, !.stripWindow = None]
  IN IF IsWindow(u, u.stripWindow) THEN Destroyed(v, u.stripWindow) ELSE v

CloseDetails(u) ==
  LET v == [u EXCEPT !.detailsWindow = None]
  IN IF IsWindow(u, u.detailsWindow) THEN Destroyed(v, u.detailsWindow) ELSE v

(* PostWebMessageAsJson reaches the page once its listener is installed. *)
Deliver(u, w, data) ==
  IF data # None /\ u.windows[w].page = "ready" THEN [u EXCEPT !.windows[w].shown = data] ELSE u

UpdateDetails(u, v) ==
  LET stored == [u EXCEPT !.details = v]
  IN IF IsWindow(u, u.detailsWindow)
     THEN Deliver([stored EXCEPT !.windows[u.detailsWindow].data = v], u.detailsWindow, v)
     ELSE stored

(* Mutant: the popup keeps no copy of the snapshot it was posted. *)
UpdateStripSnapshotUnkept(u, v) ==
  LET stored == [u EXCEPT !.snapshot = v]
  IN IF IsWindow(u, u.stripWindow) THEN Deliver(stored, u.stripWindow, v) ELSE stored
UpdateStripSnapshot(u, v) ==
  LET stored == [u EXCEPT !.snapshot = v]
  IN IF IsWindow(u, u.stripWindow)
     THEN Deliver([stored EXCEPT !.windows[u.stripWindow].data = v], u.stripWindow, v)
     ELSE stored

(* What create_popup's caller does with the window it gets back. *)
Registered(u, w) ==
  IF u.windows[w].kind = "details"
  THEN Deliver([u EXCEPT !.detailsWindow = w, !.windows[w].page = "loading"], w, u.details)
  ELSE Deliver([u EXCEPT !.stripWindow = w, !.windows[w].page = "loading",
                         !.windows[w].data = u.snapshot], w, u.snapshot)

-----------------------------------------------------------------------------
(* Which handler runs. *)

Waiting(kind, w, emits) == [kind |-> kind, window |-> w, emits |-> emits]
Top == IF stack = <<>> THEN Waiting("none", None, FALSE) ELSE Last(stack)
Draining == Top.kind = "drain"
Pumping  == host = "running" /\ Len(stack) < MaxDepth /\ Top.kind \in {"none", "create", "menu"}

UserActs == input < MaxInput /\ input' = input + 1
Quiet    == UNCHANGED <<host, commands, runtimeVars, input, expired>>

(* create_popup: the window exists at once; the call goes on once its        *)
(* WebView is there.  CreateWindowExW may fail.                              *)
CreatePopup(u, kind, emits) ==
  \/ \E w \in Windows :
       /\ Free(u, w) /\ \A o \in Windows : o < w => ~Free(u, o)
       /\ ui' = [u EXCEPT !.windows[w] = Popup(kind, IF kind = "details" THEN u.details ELSE None)]
       /\ stack' = Append(stack, Waiting("create", w, emits))
       /\ UNCHANGED events
  \/ /\ ui' = u /\ UNCHANGED stack
     /\ events' = IF emits THEN Append(events, "showDetails") ELSE events

ToggleDetails(u, emits) ==
  IF IsWindow(u, u.detailsWindow)
  THEN /\ ui' = CloseDetails(u) /\ UNCHANGED stack
       /\ events' = IF emits THEN Append(events, "showDetails") ELSE events
  ELSE CreatePopup([u EXCEPT !.detailsWindow = None], "details", emits)

ShowTokenStrip(u) ==
  IF IsWindow(u, u.stripWindow)
  THEN ui' = Deliver(u, u.stripWindow, u.snapshot) /\ UNCHANGED <<stack, events>>
  ELSE CreatePopup(u, "strip", FALSE)

-----------------------------------------------------------------------------
(* The messages of the main window. *)

Dispatch(to, name) ==
  /\ Pumping /\ ui.posted # <<>>
  /\ Head(ui.posted) = [to |-> to, name |-> name]
Taken == [ui EXCEPT !.posted = Tail(@)]

OnCommand ==
  /\ Dispatch(Owner, "command")
  /\ ui' = Taken /\ stack' = Append(stack, Waiting("drain", None, FALSE))
  /\ UNCHANGED events /\ Quiet

OnClick == Dispatch(Owner, "click") /\ ToggleDetails(CloseStrip(Taken), FALSE) /\ Quiet
OnTray  == Dispatch(Owner, "tray") /\ ToggleDetails(CloseStrip(Taken), TRUE) /\ Quiet

OnMenu ==
  /\ Dispatch(Owner, "menu")
  /\ ui' \in {CloseStrip(Taken), Taken}   \* the capsule's menu, the tray icon's
  /\ stack' = Append(stack, Waiting("menu", None, FALSE))
  /\ UNCHANGED events /\ Quiet

OnDetailsClosed ==
  /\ Dispatch(Owner, "detailsClosed")
  /\ ui' = [Taken EXCEPT !.detailsWindow = None]
  /\ UNCHANGED <<stack, events>> /\ Quiet

StripClosed(u) == [u EXCEPT !.stripWindow = None, !.snapshot = None]
OnStripClosed ==
  /\ Dispatch(Owner, "stripClosed")
  /\ ui' = StripClosed(Taken)
  /\ UNCHANGED <<stack, events>> /\ Quiet

OnCardRequest ==
  /\ Dispatch(Owner, "refresh")
  /\ ui' = Taken /\ events' = Append(events, "refresh")
  /\ UNCHANGED stack /\ Quiet

(* DestroyWindow on the main window frees its context and quits the message  *)
(* loop; with the thread go its popups and the channel's receiver.  A        *)
(* handler below that waits for a WebView goes on with the freed context.    *)
WindowGone ==
  /\ host' = IF \A i \in 1..Len(stack) : stack[i].kind = "menu" THEN "ended" ELSE "undefined"
  /\ ui' = NoWindows /\ stack' = <<>> /\ commands' = <<>> /\ expired' = 0
  /\ UNCHANGED <<events, runtimeVars>>
OnExit == Dispatch(Owner, "exit") /\ WindowGone /\ UNCHANGED input

(* Mouse over the capsule; the mouse leaves it. *)
OnMouseMove ==
  /\ Pumping /\ ui.posted = <<>> /\ UserActs
  /\ LET u == [ui EXCEPT !.tracking = TRUE] IN
       IF ui.detailsWindow = None /\ ui.snapshot # None
       THEN ShowTokenStrip(u)
       ELSE ui' = u /\ UNCHANGED <<stack, events>>
  /\ UNCHANGED <<host, commands, runtimeVars, expired>>
OnMouseLeave ==
  /\ Pumping /\ ui.posted = <<>> /\ ui.tracking
  /\ ui' = CloseStrip([ui EXCEPT !.tracking = FALSE])
  /\ UNCHANGED <<host, stack, commands, events, runtimeVars, input, expired>>

-----------------------------------------------------------------------------
(* process_commands, one command at a time. *)

Command(op) == Draining /\ commands # <<>> /\ Head(commands).op = op /\ commands' = Tail(commands)
Drained == UNCHANGED <<host, runtimeVars, input, expired>>

DrainDetails ==
  /\ Command("details") /\ ui' = UpdateDetails(ui, Head(commands).version)
  /\ UNCHANGED <<stack, events>> /\ Drained
DrainSnapshot ==
  /\ Command("snapshot") /\ ui' = UpdateStripSnapshot(ui, Head(commands).version)
  /\ UNCHANGED <<stack, events>> /\ Drained
DrainShowDetails ==
  /\ Command("showDetails")
  /\ LET u == CloseStrip(ui) IN
       IF IsWindow(u, u.detailsWindow) THEN ui' = u /\ UNCHANGED <<stack, events>>
                                       ELSE CreatePopup([u EXCEPT !.detailsWindow = None], "details", FALSE)
  /\ Drained
DrainShowStrip ==
  /\ Command("showStrip")
  /\ IF IsWindow(ui, ui.detailsWindow) THEN ui' = CloseStrip(ui) /\ UNCHANGED <<stack, events>>
                                       ELSE ShowTokenStrip(ui)
  /\ Drained
DrainAttach ==
  /\ Command("attach") /\ ui' \in {CloseStrip(CloseDetails(ui)), ui}   \* SetParent may fail
  /\ UNCHANGED <<stack, events>> /\ Drained
DrainExit ==
  /\ Command("exit") /\ ui' = Posted(ui, Owner, "exit") /\ stack' = Front(stack)
  /\ UNCHANGED events /\ Drained
(* Mutant: a drain stops before the channel is empty. *)
DrainEndEarly ==
  /\ Draining /\ stack' = Front(stack)
  /\ UNCHANGED <<ui, commands, events>> /\ Drained
DrainEnd ==
  /\ Draining /\ commands = <<>> /\ stack' = Front(stack)
  /\ UNCHANGED <<ui, commands, events>> /\ Drained

-----------------------------------------------------------------------------
(* The ends of the two nested loops. *)

CreateFinish ==
  /\ host = "running" /\ Top.kind = "create"
  /\ ui' = Registered(ui, Top.window) /\ stack' = Front(stack)
  /\ events' = IF Top.emits THEN Append(events, "showDetails") ELSE events
  /\ Quiet

MenuChoices == {<<>>, <<"showDetails">>, <<"exit">>}
MenuEnd ==
  /\ host = "running" /\ Top.kind = "menu"
  /\ \E choice \in MenuChoices : events' = events \o choice
  /\ stack' = Front(stack) /\ UNCHANGED ui /\ Quiet

-----------------------------------------------------------------------------
(* The popups' own messages. *)

OnReady(w) ==
  /\ Dispatch(w, "ready") /\ ui' = Deliver(Taken, w, ui.windows[w].data)
  /\ UNCHANGED <<stack, events>> /\ Quiet
OnPageRequest(w) ==
  /\ Dispatch(w, "refresh") /\ ui' = Destroyed(Posted(Taken, Owner, "refresh"), w)
  /\ UNCHANGED <<stack, events>> /\ Quiet

Shown(w, kind) == Pumping /\ ui.posted = <<>> /\ ui.windows[w].open
                  /\ ui.windows[w].kind = kind /\ ui.windows[w].page # "none"
ClosedByUser(w) ==   \* Escape, or a press outside the card
  /\ \E kind \in {"details", "strip"} : Shown(w, kind)
  /\ UserActs /\ ui' = Destroyed(ui, w)
  /\ UNCHANGED <<host, stack, commands, events, runtimeVars, expired>>
(* Mutant: the timer passes over a strip that never got a snapshot. *)
StripTimerKept(w) ==
  /\ Shown(w, "strip") /\ ui.windows[w].data # None /\ ui' = Destroyed(ui, w)
  /\ expired' = Max({expired} \cup ({ui.windows[w].data} \ {None}))
  /\ UNCHANGED <<host, stack, commands, events, runtimeVars, input>>
StripTimer(w) ==
  /\ Shown(w, "strip") /\ ui' = Destroyed(ui, w)
  /\ expired' = Max({expired} \cup ({ui.windows[w].data} \ {None}))
  /\ UNCHANGED <<host, stack, commands, events, runtimeVars, input>>

-----------------------------------------------------------------------------
(* The pages and the shell post messages; a page gets ready some time after   *)
(* its window is there.                                                       *)

UserPosts ==
  /\ Pumping /\ UserActs /\ \E name \in {"click", "tray", "menu"} : ui' = Posted(ui, Owner, name)
  /\ UNCHANGED <<host, stack, commands, events, runtimeVars, expired>>
PageRequests(w) ==   \* a button of the card; after the last publication (bound)
  /\ Shown(w, "details") /\ ui.windows[w].page = "ready" /\ version = MaxVersion
  /\ ui' = Posted(ui, w, "refresh")
  /\ UNCHANGED <<stack, events>> /\ Quiet
PageReady(w) ==
  /\ Pumping /\ ui.windows[w].open /\ ui.windows[w].page = "loading"
  /\ ui' = Posted([ui EXCEPT !.windows[w].page = "ready"], w, "ready")
  /\ UNCHANGED <<stack, events>> /\ Quiet
(* Explorer ends and takes its child windows along. *)
ExplorerEnds == Pumping /\ UserActs /\ WindowGone

-----------------------------------------------------------------------------
(* The run loop, as far as it talks to the window thread. *)

Ready == runtime = "looping" /\ outbox = <<>> /\ ~waking
Sends(list) == outbox' = list
OneCommand(op, v) == [op |-> op, version |-> v]

Publish ==
  /\ Ready /\ version < MaxVersion /\ version' = version + 1
  /\ Sends(<<OneCommand("details", version')>>)
  /\ UNCHANGED <<threadVars, commands, runtime, waking, input>>

(* show_consumption_popup, after publish or before it. *)
Consume ==
  /\ Ready /\ version < MaxVersion /\ version' = version + 1
  /\ LET strip == <<OneCommand("snapshot", version'), OneCommand("showStrip", version')>>
         card  == <<OneCommand("details", version')>>
     IN Sends(strip \o card) \/ Sends(card \o strip)
  /\ UNCHANGED <<threadVars, commands, runtime, waking, input>>

ReloadSettings ==
  /\ Ready /\ version < MaxVersion /\ version' = version + 1
  /\ Sends(<<OneCommand("attach", version'), OneCommand("details", version')>>)
  /\ UNCHANGED <<threadVars, commands, runtime, waking, input>>

(* Mutant: the run loop ends without an exit command. *)
HostEventLeavingHost ==
  /\ Ready /\ events # <<>> /\ events' = Tail(events)
  /\ IF Head(events) = "showDetails" THEN Sends(<<OneCommand("showDetails", 0)>>) ELSE UNCHANGED outbox
  /\ runtime' = IF Head(events) = "exit" THEN "stopping" ELSE runtime
  /\ UNCHANGED <<host, ui, stack, expired, commands, waking, version, input>>
HostEvent ==
  /\ Ready /\ events # <<>> /\ events' = Tail(events)
  /\ CASE Head(events) = "showDetails" -> Sends(<<OneCommand("showDetails", 0)>>) /\ UNCHANGED runtime
       [] Head(events) = "refresh"     -> UNCHANGED <<outbox, runtime>>
       [] Head(events) = "exit"        -> Sends(<<OneCommand("exit", 0)>>) /\ runtime' = "stopping"
  /\ UNCHANGED <<host, ui, stack, expired, commands, waking, version, input>>

(* NativeHostHandle::send: the command, then the wake message.  The run loop  *)
(* ends when the window is gone: the channels or PostMessageW fail.           *)
Send ==
  /\ outbox # <<>> /\ ~waking /\ host = "running"
  /\ commands' = Append(commands, Head(outbox)) /\ outbox' = Tail(outbox) /\ waking' = TRUE
  /\ UNCHANGED <<threadVars, runtime, version, input>>
Wake ==
  /\ waking /\ waking' = FALSE /\ host = "running"
  /\ ui' = Posted(ui, Owner, "command")
  /\ UNCHANGED <<host, stack, events, expired, commands, runtime, outbox, version, input>>
HostStopped ==
  /\ runtime = "looping" /\ host = "ended" /\ (outbox # <<>> \/ waking \/ events = <<>>)
  /\ runtime' = "stopping" /\ outbox' = <<>> /\ waking' = FALSE
  /\ UNCHANGED <<threadVars, commands, version, input>>
RuntimeEnds ==
  /\ runtime = "stopping" /\ ((outbox = <<>> /\ ~waking) \/ host = "ended")
  /\ runtime' = "ended" /\ outbox' = <<>> /\ waking' = FALSE
  /\ UNCHANGED <<threadVars, commands, version, input>>

-----------------------------------------------------------------------------
Init ==
  /\ host = "running" /\ stack = <<>> /\ commands = <<>> /\ events = <<>>
  /\ ui = NoWindows
  /\ runtime = "looping" /\ outbox = <<>> /\ waking = FALSE
  /\ version = 0 /\ input = 0 /\ expired = 0

WindowProc ==
  \/ OnCommand \/ OnClick \/ OnTray \/ OnMenu \/ OnDetailsClosed \/ OnStripClosed
  \/ OnCardRequest \/ OnExit
  \/ \E w \in Windows : OnReady(w) \/ OnPageRequest(w)
ProcessCommands ==
  \/ DrainDetails \/ DrainSnapshot \/ DrainShowDetails \/ DrainShowStrip
  \/ DrainAttach \/ DrainExit \/ DrainEnd
UserInput ==
  \/ OnMouseMove \/ OnMouseLeave \/ UserPosts \/ ExplorerEnds
  \/ \E w \in Windows : ClosedByUser(w) \/ PageRequests(w)
RunLoop == Publish \/ Consume \/ ReloadSettings \/ HostEvent \/ Send \/ Wake \/ HostStopped \/ RuntimeEnds

Next ==
  \/ WindowProc \/ ProcessCommands \/ CreateFinish \/ MenuEnd \/ UserInput \/ RunLoop
  \/ \E w \in Windows : StripTimer(w) \/ PageReady(w)

Spec == Init /\ [][Next]_vars

(* The window thread goes on as long as it has something to do: messages,     *)
(* timers, a WebView that gets created, a menu that is left.  So does the     *)
(* run loop.                                                                  *)
WindowThread ==
  WindowProc \/ ProcessCommands \/ CreateFinish \/ MenuEnd \/ \E w \in Windows : StripTimer(w)
FairSpec ==
  /\ Spec
  /\ WF_vars(WindowThread) /\ WF_vars(HostEvent \/ Send \/ Wake \/ HostStopped \/ RuntimeEnds)

-----------------------------------------------------------------------------
(* Properties. *)

Open(kind) == {w \in Windows : ui.windows[w].open /\ ui.windows[w].kind = kind}

TypeOK ==
  /\ host \in {"running", "ended", "undefined"} /\ runtime \in {"looping", "stopping", "ended"}
  /\ ui.detailsWindow \in Windows \cup {None} /\ ui.stripWindow \in Windows \cup {None}
  /\ ui.detailsWindow # None => ui.windows[ui.detailsWindow].kind \in {"none", "details"}
  /\ ui.stripWindow # None => ui.windows[ui.stripWindow].kind \in {"none", "strip"}
  /\ ui.details \in Version /\ ui.snapshot \in Version \cup {None}
  /\ \A w \in Windows :
       /\ ui.windows[w].kind \in {"none", "details", "strip"}
       /\ ui.windows[w].data \in Version \cup {None} /\ ui.windows[w].shown \in Version \cup {None}
       /\ ui.windows[w].page \in {"none", "loading", "ready"}
  /\ \A i \in 1..Len(stack) : stack[i].kind \in {"drain", "create", "menu"}
  /\ \A i \in 1..Len(ui.posted) : ui.posted[i].to = Owner \/ ui.windows[ui.posted[i].to].open
  /\ version \in Version /\ input \in 0..MaxInput /\ expired \in Version /\ waking \in BOOLEAN

Pending(name) == \E i \in 1..Len(ui.posted) : ui.posted[i].to = Owner /\ ui.posted[i].name = name

(* A command in the channel is never forgotten: its wake message is coming,  *)
(* or a handler that empties the channel is at work, however the handlers    *)
(* are nested (host.rs:444-449, native.rs:716-717).                          *)
NoLostWake ==
  commands # <<>> /\ host = "running" =>
    waking \/ Pending("command") \/ Pending("exit") \/ \E i \in 1..Len(stack) : stack[i].kind = "drain"

(* A handle of a window that is gone is about to be cleared: until then every *)
(* use asks IsWindow first (native.rs:656-667, :1701-1713).                   *)
HandlesSettle ==
  host = "running" =>
    /\ ui.stripWindow # None /\ ~IsWindow(ui, ui.stripWindow) => Pending("stripClosed")
    /\ ui.detailsWindow # None /\ ~IsWindow(ui, ui.detailsWindow) => Pending("detailsClosed")

(* Once every message is handled, the strip the window knows of shows the    *)
(* latest snapshot, although the page may have missed posts before it was    *)
(* ready (native.rs:83-85, :1678-1686).                                      *)
StripShowsLatest ==
  LET w == ui.stripWindow IN
    stack = <<>> /\ ui.posted = <<>> /\ IsWindow(ui, w) /\ ui.windows[w].page = "ready" =>
      ui.windows[w].shown = ui.snapshot

(* The mouse never brings back a consumption whose strip closed by itself    *)
(* (native.rs:661-667).                                                      *)
HoverNeverRepeats == stack = <<>> /\ ui.posted = <<>> /\ host = "running" /\ ui.snapshot # None => ui.snapshot > expired

(* Every token strip closes, also one the window lost track of: time and     *)
(* again none is open (native.rs:91-94).                                      *)
StripCloses == []<>(Open("strip") = {} \/ host # "running")

(* An exit chosen in the menu ends the window thread and the run loop; a     *)
(* window that Explorer destroyed ends the run loop too.                     *)
ExitEnds == (runtime = "stopping" \/ host = "ended") ~> (runtime = "ended" /\ host # "running") \/ host = "undefined"

(* However the handlers are nested, no command waits without a wake and no   *)
(* handle of a dead window without the message that clears it                *)
(* (host.rs:444-449, native.rs:656-667, 716-717).                            *)
NothingForgotten == TypeOK /\ NoLostWake /\ HandlesSettle

(* A strip shows the latest snapshot, and never one that closed by itself    *)
(* (native.rs:83-94, 661-667, 1678-1686).                                    *)
StripIsCurrent == StripShowsLatest /\ HoverNeverRepeats
=============================================================================
