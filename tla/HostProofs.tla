------------------------------- MODULE HostProofs -------------------------------
(***************************************************************************)
(* What the windows keep, for any number of publications, popups, inputs   *)
(* and nested message loops (module Host), and where they are placed, for  *)
(* all integers (module Placement).                                        *)
(*                                                                         *)
(* Host.  UiInv speaks of the context, the popups and the posted messages  *)
(* alone, so that each function of the context (Destroyed, CloseStrip,     *)
(* Deliver, ...) keeps it by a lemma of its own, whatever handler calls it. *)
(* A window whose WebView is being created belongs to the handler that     *)
(* waits for it: no handle names it, so nobody else destroys it.  RiseInv  *)
(* says that the snapshots still on their way are newer than all that was  *)
(* ever in a strip.                                                        *)
(***************************************************************************)
EXTENDS Host, Placement, FiniteSetTheorems, TLAPS

Kinds    == {"details", "strip"}
Pages    == {"none", "loading", "ready"}
Data     == Version \cup {None}
Handles  == Windows \cup {None}
Records  == [kind : Kinds \cup {"none"}, open : BOOLEAN, data : Data, page : Pages, shown : Data]
Names    == {"command", "click", "tray", "menu", "detailsClosed", "stripClosed", "refresh", "exit", "ready"}
Messages == [to : Windows \cup {Owner}, name : Names]
Contexts == [windows : [Windows -> Records], posted : Seq(Messages), details : Version,
             snapshot : Data, detailsWindow : Handles, stripWindow : Handles, tracking : BOOLEAN]
Commands == [op : {"details", "snapshot", "showDetails", "showStrip", "attach", "exit"}, version : Version]
Calls    == [kind : {"drain", "create", "menu"}, window : Handles, emits : BOOLEAN]

Types ==
  /\ host \in {"running", "ended", "undefined"} /\ runtime \in {"looping", "stopping", "ended"}
  /\ ui \in Contexts /\ stack \in Seq(Calls)
  /\ commands \in Seq(Commands) /\ outbox \in Seq(Commands)
  /\ events \in Seq({"showDetails", "refresh", "exit"})
  /\ version \in Version /\ input \in 0..MaxInput /\ expired \in Version /\ waking \in BOOLEAN

(* The windows that handlers of the stack wait for, each by one handler.     *)
Creating(calls) == {calls[i].window : i \in {j \in DOMAIN calls : calls[j].kind = "create"}}
CreatedOnce(calls) ==
  \A i, j \in DOMAIN calls :
    calls[i].kind = "create" /\ calls[j].kind = "create" /\ calls[i].window = calls[j].window => i = j
Drains(calls) == \E i \in DOMAIN calls : calls[i].kind = "drain"

(* The context u, with the windows C under creation and the last snapshot x  *)
(* that expired.                                                             *)
Holds(u, to, name) == \E i \in DOMAIN u.posted : u.posted[i].to = to /\ u.posted[i].name = name

RecordInv(u) ==
  \A w \in Windows :
    /\ u.windows[w].open => u.windows[w].kind \in Kinds
    /\ ~u.windows[w].open => u.windows[w] = Unused
HandleInv(u) ==
  /\ u.detailsWindow # None => u.windows[u.detailsWindow].kind \in {"none", "details"}
  /\ u.stripWindow # None => u.windows[u.stripWindow].kind \in {"none", "strip"}
CreationInv(u, C) ==
  \A w \in C :
    /\ w \in Windows /\ u.windows[w].open /\ u.windows[w].page = "none"
    /\ w \notin {u.detailsWindow, u.stripWindow}
Listens(u, w) == u.windows[w].open /\ u.windows[w].page = "ready"
AddressInv(u) ==
  \A i \in DOMAIN u.posted : u.posted[i].to = Owner \/ Listens(u, u.posted[i].to)
SettleInv(u) ==
  /\ u.stripWindow # None /\ ~u.windows[u.stripWindow].open => Holds(u, Owner, "stripClosed")
  /\ u.detailsWindow # None /\ ~u.windows[u.detailsWindow].open => Holds(u, Owner, "detailsClosed")
PageInv(u, E) ==
  \A w \in Windows :
    /\ u.windows[w].page # "ready" => u.windows[w].shown = None
    /\ u.windows[w].data = None => u.windows[w].shown = None
    /\ w \notin E /\ u.windows[w].page = "ready" =>
         u.windows[w].shown = u.windows[w].data \/ Holds(u, w, "ready")
StripInv(u) ==
  u.stripWindow # None /\ u.windows[u.stripWindow].open => u.windows[u.stripWindow].data = u.snapshot
HoverInv(u, x) == u.snapshot # None => u.snapshot > x \/ Holds(u, Owner, "stripClosed")

(* In the middle of a handler the pages of E may lack the data of their      *)
(* windows.                                                                  *)
UiBut(u, C, x, E) ==
  /\ u \in Contexts /\ RecordInv(u) /\ HandleInv(u) /\ CreationInv(u, C) /\ AddressInv(u)
  /\ SettleInv(u) /\ PageInv(u, E) /\ StripInv(u) /\ HoverInv(u, x)
UiInv(u, C, x) == UiBut(u, C, x, {})

(* n has nothing newer than u in a strip. *)
Aged(n, u) ==
  /\ n.snapshot \in {None, u.snapshot}
  /\ \A w \in Windows : n.windows[w].kind = "strip" /\ n.windows[w].data # None =>
       \/ n.windows[w].data = u.snapshot
       \/ u.windows[w].kind = "strip" /\ n.windows[w].data = u.windows[w].data

(* Snapshots on their way come in the order of their versions and are newer  *)
(* than x and than what u has in a strip.                                    *)
NewerThan(u, x, v) ==
  /\ v > x /\ (u.snapshot # None => v > u.snapshot)
  /\ \A w \in Windows : u.windows[w].kind = "strip" /\ u.windows[w].data # None => v > u.windows[w].data
Rising(queue) ==
  \A i, j \in DOMAIN queue :
    queue[i].op = "snapshot" /\ queue[j].op = "snapshot" /\ i < j => queue[i].version < queue[j].version
Sent(queue, v) == \E i \in DOMAIN queue : queue[i].op = "snapshot" /\ queue[i].version = v
RiseInv ==
  /\ Rising(commands) /\ Rising(outbox)
  /\ \A v, n \in Version : Sent(commands, v) /\ Sent(outbox, n) => v < n
  /\ \A v \in Version : Sent(commands, v) \/ Sent(outbox, v) => NewerThan(ui, expired, v)
  /\ \A v \in Version : v > version => NewerThan(ui, expired, v)
  /\ \A v \in Version : Sent(commands, v) \/ Sent(outbox, v) => v <= version

Woken ==
  commands # <<>> /\ host = "running" =>
    waking \/ Holds(ui, Owner, "command") \/ Holds(ui, Owner, "exit") \/ Drains(stack)

HostInv ==
  /\ Types /\ CreatedOnce(stack) /\ UiInv(ui, Creating(stack), expired) /\ RiseInv /\ Woken

-----------------------------------------------------------------------------
(* 1. The queue of posted messages. *)

(* Every rank in a finite set of integers is taken ...                       *)
LEMMA RankOnto ==
  ASSUME NEW T \in SUBSET Int, IsFiniteSet(T), NEW n \in 1..Cardinality(T)
  PROVE  \E i \in T : Cardinality({j \in T : j <= i}) = n
<1> DEFINE Below(i) == {j \in T : j <= i}
           r == [i \in T |-> Cardinality(Below(i))]
           N == 1..Cardinality(T)
<1>1. Cardinality(T) \in Nat
  BY FS_CardinalityType
<1>2. \A i \in T : IsFiniteSet(Below(i)) /\ Cardinality(Below(i)) \in N
  <2> SUFFICES ASSUME NEW i \in T
               PROVE  IsFiniteSet(Below(i)) /\ Cardinality(Below(i)) \in N
    OBVIOUS
  <2>1. Below(i) \in SUBSET T /\ i \in Below(i)
    OBVIOUS
  <2> HIDE DEF Below
  <2>2. IsFiniteSet(Below(i)) /\ Cardinality(Below(i)) <= Cardinality(T)
    BY <2>1, FS_Subset
  <2>3. Cardinality(Below(i)) \in Nat /\ Cardinality(Below(i)) # 0
    BY <2>1, <2>2, FS_CardinalityType, FS_EmptySet
  <2> QED BY <2>2, <2>3, <1>1
<1>3. \A i, k \in T : i < k => Cardinality(Below(i)) # Cardinality(Below(k))
  <2> SUFFICES ASSUME NEW i \in T, NEW k \in T, i < k, Cardinality(Below(i)) = Cardinality(Below(k))
               PROVE  FALSE
    OBVIOUS
  <2>1. Below(i) \in SUBSET Below(k) /\ k \in Below(k) /\ k \notin Below(i)
    <3>1. \A j \in T : j <= i => j <= k
      OBVIOUS
    <3>2. k <= k /\ ~(k <= i)
      OBVIOUS
    <3> QED BY <3>1, <3>2
  <2>2. IsFiniteSet(Below(k))
    BY <1>2
  <2> HIDE DEF Below
  <2>3. Below(k) = Below(i)
    BY <2>1, <2>2, FS_Subset
  <2> QED BY <2>1, <2>3
<1>4. r \in Injection(T, N)
  <2>1. r \in [T -> N]
    BY <1>2
  <2>2. \A i, k \in T : r[i] = r[k] => i = k
    <3> SUFFICES ASSUME NEW i \in T, NEW k \in T, i # k
                 PROVE  r[i] # r[k]
      OBVIOUS
    <3>1. i < k \/ k < i
      OBVIOUS
    <3> QED BY <3>1, <1>3
  <2> HIDE DEF r
  <2> QED BY <2>1, <2>2 DEF Injection, IsInjective
<1>5. IsFiniteSet(N) /\ Cardinality(N) = Cardinality(T)
  BY <1>1, FS_Interval
<1>6. r \in Surjection(T, N)
  <2> HIDE DEF r, N
  <2> QED BY <1>4, <1>5, FS_Injection
<1>7. \E i \in T : r[i] = n
  <2> HIDE DEF r
  <2> QED BY <1>6 DEF Surjection
<1> QED BY <1>7

(* ... by one element.                                                       *)
LEMMA RankOnce ==
  ASSUME NEW T \in SUBSET Int, IsFiniteSet(T), NEW i \in T, NEW k \in T,
         Cardinality({j \in T : j <= i}) = Cardinality({j \in T : j <= k})
  PROVE  i = k
<1> DEFINE Below(a) == {j \in T : j <= a}
<1>1. ASSUME NEW a \in T, NEW b \in T, a < b, Cardinality(Below(a)) = Cardinality(Below(b))
      PROVE  FALSE
  <2>1. Below(a) \in SUBSET Below(b) /\ b \in Below(b) /\ b \notin Below(a) /\ Below(b) \in SUBSET T
    <3>1. \A j \in T : j <= a => j <= b
      BY <1>1
    <3>2. b <= b /\ ~(b <= a)
      BY <1>1
    <3> QED BY <3>1, <3>2
  <2> HIDE DEF Below
  <2>2. IsFiniteSet(Below(b))
    BY <2>1, FS_Subset
  <2>3. Below(b) = Below(a)
    BY <1>1, <2>1, <2>2, FS_Subset
  <2> QED BY <2>1, <2>3
<1>2. i < k \/ k < i \/ i = k
  OBVIOUS
<1> QED BY <1>1, <1>2

LEMMA WithoutFacts ==
  ASSUME NEW S, NEW q \in Seq(S), NEW w
  PROVE  /\ Without(q, w) \in Seq(S)
         /\ \A k \in DOMAIN Without(q, w) : \E i \in DOMAIN q : q[i] = Without(q, w)[k] /\ q[i].to # w
         /\ \A i \in DOMAIN q : q[i].to # w => \E k \in DOMAIN Without(q, w) : Without(q, w)[k] = q[i]
<1> DEFINE kept   == {i \in DOMAIN q : q[i].to # w}
           rank(i) == Cardinality({j \in kept : j <= i})
           nth(k) == CHOOSE i \in kept : rank(i) = k
           r      == [k \in 1..Cardinality(kept) |-> q[nth(k)]]
<1>1. r = Without(q, w)
  BY DEF Without
<1>2. kept \in SUBSET Int /\ kept \in SUBSET (1..Len(q)) /\ Len(q) \in Nat
  OBVIOUS
<1>3. IsFiniteSet(kept) /\ Cardinality(kept) \in Nat
  <2> HIDE DEF kept
  <2>1. IsFiniteSet(1..Len(q))
    BY <1>2, FS_Interval
  <2>2. IsFiniteSet(kept)
    BY <1>2, <2>1, FS_Subset
  <2> QED BY <2>2, FS_CardinalityType
<1>4. \A i \in kept : i \in DOMAIN q /\ q[i].to # w /\ q[i] \in S
  OBVIOUS
<1>5. \A i \in DOMAIN q : q[i].to # w => i \in kept
  OBVIOUS
<1> HIDE DEF kept
<1>6. \A k \in 1..Cardinality(kept) : nth(k) \in kept /\ rank(nth(k)) = k
  <2> SUFFICES ASSUME NEW k \in 1..Cardinality(kept) PROVE nth(k) \in kept /\ rank(nth(k)) = k
    OBVIOUS
  <2>1. \E i \in kept : rank(i) = k
    BY <1>2, <1>3, RankOnto
  <2> HIDE DEF rank
  <2> QED BY <2>1
<1>7. \A i \in kept : rank(i) \in 1..Cardinality(kept) /\ nth(rank(i)) = i
  <2> SUFFICES ASSUME NEW i \in kept PROVE rank(i) \in 1..Cardinality(kept) /\ nth(rank(i)) = i
    OBVIOUS
  <2>1. {j \in kept : j <= i} \in SUBSET kept /\ i \in {j \in kept : j <= i}
    BY <1>2
  <2>2. rank(i) \in 1..Cardinality(kept)
    <3> DEFINE B == {j \in kept : j <= i}
    <3>1. B \in SUBSET kept /\ i \in B
      BY <2>1
    <3> HIDE DEF B
    <3>2. IsFiniteSet(B) /\ Cardinality(B) <= Cardinality(kept)
      BY <3>1, <1>3, FS_Subset
    <3>3. Cardinality(B) \in Nat /\ Cardinality(B) # 0
      BY <3>1, <3>2, FS_CardinalityType, FS_EmptySet
    <3>4. Cardinality(B) \in 1..Cardinality(kept)
      BY <3>2, <3>3, <1>3
    <3> QED BY <3>4 DEF B
  <2>3. nth(rank(i)) \in kept /\ rank(nth(rank(i))) = rank(i)
    BY <2>2, <1>6
  <2> QED BY <2>2, <2>3, <1>2, <1>3, RankOnce
<1> HIDE DEF rank, nth
<1>8. r \in Seq(S) /\ DOMAIN r = 1..Cardinality(kept)
  BY <1>3, <1>4, <1>6
<1>9. \A k \in DOMAIN r : \E i \in DOMAIN q : q[i] = r[k] /\ q[i].to # w
  BY <1>4, <1>6, <1>8
<1>10. \A i \in DOMAIN q : q[i].to # w => \E k \in DOMAIN r : r[k] = q[i]
  BY <1>5, <1>7, <1>8
<1> HIDE DEF r
<1> QED BY <1>1, <1>8, <1>9, <1>10

-----------------------------------------------------------------------------
(* 2. The functions of the context. *)

LEMMA Apart ==
  /\ None \notin Windows /\ None \notin Version /\ Owner \notin Windows /\ None # Owner
  /\ Windows \subseteq Nat /\ Version \subseteq Nat /\ 0 \in Version
BY HostAssumption DEF Windows, Version, Owner

LEMMA UnusedRecord ==
  /\ Unused \in Records /\ ~Unused.open /\ Unused.kind = "none" /\ Unused.page = "none"
  /\ Unused.data = None /\ Unused.shown = None
BY DEF Unused, Records, Data, Kinds, Pages

LEMMA AgedSelf == ASSUME NEW u PROVE Aged(u, u)
BY DEF Aged

LEMMA AgedTransitive ==
  ASSUME NEW u, NEW m, NEW n, Aged(m, u), Aged(n, m)
  PROVE  Aged(n, u)
BY DEF Aged

LEMMA AgedNewer ==
  ASSUME NEW u, NEW n, NEW x, NEW v, Aged(n, u), NewerThan(u, x, v)
  PROVE  NewerThan(n, x, v)
BY DEF Aged, NewerThan

(* Another queue: no message that somebody counts on is missing.             *)
LEMMA QueueChanged ==
  ASSUME NEW u, NEW C, NEW x, NEW E, UiBut(u, C, x, E), NEW q \in Seq(Messages),
         NEW n, n = [u EXCEPT !.posted = q],
         \A i \in DOMAIN q : q[i].to = Owner \/ Listens(u, q[i].to),
         u.detailsWindow # None /\ Holds(u, Owner, "detailsClosed") => Holds(n, Owner, "detailsClosed"),
         (u.stripWindow # None \/ u.snapshot # None) /\ Holds(u, Owner, "stripClosed")
           => Holds(n, Owner, "stripClosed"),
         \A w \in Windows \ E : Holds(u, w, "ready") => Holds(n, w, "ready")
  PROVE  UiBut(n, C, x, E) /\ Aged(n, u)
<1>1. /\ n \in Contexts /\ n.posted = q /\ n.windows = u.windows /\ n.snapshot = u.snapshot
      /\ n.detailsWindow = u.detailsWindow /\ n.stripWindow = u.stripWindow
  BY DEF UiBut, Contexts
<1>2. RecordInv(n) /\ HandleInv(n) /\ CreationInv(n, C) /\ StripInv(n)
  BY <1>1 DEF UiBut, RecordInv, HandleInv, CreationInv, StripInv
<1>3. AddressInv(n)
  BY <1>1 DEF AddressInv, Listens
<1>4. SettleInv(n)
  BY <1>1 DEF UiBut, SettleInv
<1>5. PageInv(n, E)
  BY <1>1 DEF UiBut, PageInv
<1>6. HoverInv(n, x)
  BY <1>1 DEF UiBut, HoverInv
<1>7. Aged(n, u)
  BY <1>1 DEF Aged
<1> QED BY <1>1, <1>2, <1>3, <1>4, <1>5, <1>6, <1>7 DEF UiBut

LEMMA PostedKeeps ==
  ASSUME NEW u, NEW C, NEW x, NEW E, UiBut(u, C, x, E),
         NEW to \in Windows \cup {Owner}, NEW name \in Names, to = Owner \/ Listens(u, to)
  PROVE  LET n == Posted(u, to, name) IN
         /\ UiBut(n, C, x, E) /\ Aged(n, u)
         /\ \A a, b : Holds(n, a, b) <=> Holds(u, a, b) \/ (a = to /\ b = name)
         /\ n.windows = u.windows /\ n.detailsWindow = u.detailsWindow
         /\ n.stripWindow = u.stripWindow /\ n.snapshot = u.snapshot
<1> DEFINE m == [to |-> to, name |-> name]
           q == Append(u.posted, m)
           n == Posted(u, to, name)
<1>1. u \in Contexts /\ u.posted \in Seq(Messages) /\ m \in Messages
  BY DEF UiBut, Contexts, Messages
<1>2. /\ q \in Seq(Messages) /\ DOMAIN q = 1..(Len(u.posted) + 1) /\ DOMAIN u.posted = 1..Len(u.posted)
      /\ q[Len(u.posted) + 1] = m /\ \A i \in DOMAIN u.posted : q[i] = u.posted[i]
      /\ Len(u.posted) \in Nat
  <2> HIDE DEF m
  <2> QED BY <1>1
<1>3. n = [u EXCEPT !.posted = q]
  BY DEF Posted
<1>4. /\ n.posted = q /\ n.windows = u.windows /\ n.detailsWindow = u.detailsWindow
      /\ n.stripWindow = u.stripWindow /\ n.snapshot = u.snapshot
  BY <1>1, <1>3 DEF Contexts
<1>5. m.to = to /\ m.name = name
  OBVIOUS
<1> HIDE DEF m, q, n
<1>6. \A i \in DOMAIN q : i \in DOMAIN u.posted \/ i = Len(u.posted) + 1
  BY <1>2
<1>7. \A a, b : Holds(n, a, b) <=> Holds(u, a, b) \/ (a = to /\ b = name)
  <2> SUFFICES ASSUME NEW a, NEW b PROVE Holds(n, a, b) <=> Holds(u, a, b) \/ (a = to /\ b = name)
    OBVIOUS
  <2>1. Holds(n, a, b) => Holds(u, a, b) \/ (a = to /\ b = name)
    BY <1>2, <1>4, <1>5, <1>6 DEF Holds
  <2>2. Holds(u, a, b) => Holds(n, a, b)
    <3>1. \A i \in DOMAIN u.posted : i \in DOMAIN q
      BY <1>2
    <3> QED BY <3>1, <1>2, <1>4 DEF Holds
  <2>3. a = to /\ b = name => Holds(n, a, b)
    <3>1. Len(u.posted) + 1 \in DOMAIN q
      BY <1>2
    <3> QED BY <3>1, <1>2, <1>4, <1>5 DEF Holds
  <2> QED BY <2>1, <2>2, <2>3
<1>8. \A i \in DOMAIN q : q[i].to = Owner \/ Listens(u, q[i].to)
  BY <1>2, <1>5, <1>6 DEF UiBut, AddressInv, Listens
<1>9. UiBut(n, C, x, E) /\ Aged(n, u)
  BY <1>2, <1>3, <1>7, <1>8, QueueChanged
<1> QED BY <1>4, <1>7, <1>9 DEF n

(* The head of the queue is taken.                                           *)
LEMMA TakenFacts ==
  ASSUME NEW u \in Contexts, u.posted # <<>>
  PROVE  LET q == Tail(u.posted) IN
         /\ q \in Seq(Messages) /\ Head(u.posted) \in Messages
         /\ \A i \in DOMAIN q : \E j \in DOMAIN u.posted : q[i] = u.posted[j]
         /\ \A j \in DOMAIN u.posted : u.posted[j] = Head(u.posted) \/ \E i \in DOMAIN q : q[i] = u.posted[j]
<1> DEFINE q == Tail(u.posted)
<1>1. u.posted \in Seq(Messages) /\ Len(u.posted) \in Nat /\ Len(u.posted) > 0
  BY DEF Contexts
<1>2. /\ q \in Seq(Messages) /\ Head(u.posted) = u.posted[1] /\ DOMAIN u.posted = 1..Len(u.posted)
      /\ DOMAIN q = 1..(Len(u.posted) - 1) /\ \A i \in DOMAIN q : q[i] = u.posted[i + 1]
      /\ Head(u.posted) \in Messages
  BY <1>1
<1> HIDE DEF q
<1>3. \A i \in DOMAIN q : i + 1 \in DOMAIN u.posted
  BY <1>1, <1>2
<1>4. \A j \in DOMAIN u.posted : j # 1 => j - 1 \in DOMAIN q /\ q[j - 1] = u.posted[j]
  <2> SUFFICES ASSUME NEW j \in DOMAIN u.posted, j # 1
               PROVE  j - 1 \in DOMAIN q /\ q[j - 1] = u.posted[j]
    OBVIOUS
  <2>1. j - 1 \in DOMAIN q /\ (j - 1) + 1 = j
    BY <1>1, <1>2
  <2> QED BY <2>1, <1>2
<1>5. \A i \in DOMAIN q : \E j \in DOMAIN u.posted : q[i] = u.posted[j]
  BY <1>2, <1>3
<1>6. \A j \in DOMAIN u.posted : u.posted[j] = Head(u.posted) \/ \E i \in DOMAIN q : q[i] = u.posted[j]
  BY <1>2, <1>4
<1> QED BY <1>2, <1>5, <1>6 DEF q

Popped(u) == [u EXCEPT !.posted = Tail(@)]
MayTake(u, to, name, E) ==
  /\ u.posted # <<>> /\ Head(u.posted) = [to |-> to, name |-> name]
  /\ name = "detailsClosed" => u.detailsWindow = None
  /\ name = "stripClosed" => u.stripWindow = None /\ u.snapshot = None
  /\ name = "ready" => to \in E

LEMMA TakenKeeps ==
  ASSUME NEW u, NEW C, NEW x, NEW E, UiBut(u, C, x, E),
         NEW to, NEW name, MayTake(u, to, name, E), NEW n, n = Popped(u)
  PROVE  /\ UiBut(n, C, x, E) /\ Aged(n, u)
         /\ \A a, b : Holds(u, a, b) => Holds(n, a, b) \/ (a = to /\ b = name)
         /\ n.windows = u.windows /\ n.detailsWindow = u.detailsWindow
         /\ n.stripWindow = u.stripWindow /\ n.snapshot = u.snapshot
         /\ to \in Windows \cup {Owner} /\ (to = Owner \/ Listens(u, to))
<1> DEFINE q == Tail(u.posted)
<1>1. u \in Contexts /\ u.posted # <<>> /\ Head(u.posted) = [to |-> to, name |-> name]
  BY DEF UiBut, MayTake
<1>2. /\ q \in Seq(Messages) /\ Head(u.posted) \in Messages
      /\ \A i \in DOMAIN q : \E j \in DOMAIN u.posted : q[i] = u.posted[j]
      /\ \A j \in DOMAIN u.posted : u.posted[j] = Head(u.posted) \/ \E i \in DOMAIN q : q[i] = u.posted[j]
  BY <1>1, TakenFacts
<1>3. n = [u EXCEPT !.posted = q]
  BY <1>1 DEF Contexts, Popped
<1>4. /\ n.posted = q /\ n.windows = u.windows /\ n.detailsWindow = u.detailsWindow
      /\ n.stripWindow = u.stripWindow /\ n.snapshot = u.snapshot
  BY <1>1, <1>3 DEF Contexts
<1>5. Head(u.posted).to = to /\ Head(u.posted).name = name /\ to \in Windows \cup {Owner}
  BY <1>1, <1>2 DEF Messages
<1> HIDE DEF q
<1>6. \A a, b : Holds(u, a, b) => Holds(n, a, b) \/ (a = to /\ b = name)
  BY <1>2, <1>4, <1>5 DEF Holds
<1>7. \A i \in DOMAIN q : q[i].to = Owner \/ Listens(u, q[i].to)
  BY <1>2 DEF UiBut, AddressInv, Listens
<1>8. UiBut(n, C, x, E) /\ Aged(n, u)
  <2>1. u.detailsWindow # None /\ Holds(u, Owner, "detailsClosed") => Holds(n, Owner, "detailsClosed")
    BY <1>6 DEF MayTake
  <2>2. (u.stripWindow # None \/ u.snapshot # None) /\ Holds(u, Owner, "stripClosed")
           => Holds(n, Owner, "stripClosed")
    BY <1>6 DEF MayTake
  <2>3. \A w \in Windows \ E : Holds(u, w, "ready") => Holds(n, w, "ready")
    BY <1>6 DEF MayTake
  <2> QED BY <1>2, <1>3, <1>7, <2>1, <2>2, <2>3, QueueChanged
<1>9. to = Owner \/ Listens(u, to)
  <2>1. 1 \in DOMAIN u.posted /\ Head(u.posted) = u.posted[1]
    BY <1>1 DEF Contexts
  <2> QED BY <2>1, <1>5 DEF UiBut, AddressInv, Listens
<1> QED BY <1>4, <1>5, <1>6, <1>8, <1>9

(* Messages of the commands' wake and of the exit are never lost by a        *)
(* function of the context.                                                  *)
Wakes(n, u) == \A name \in {"command", "exit"} : Holds(u, Owner, name) => Holds(n, Owner, name)

LEMMA ButLess ==
  ASSUME NEW u, NEW C, NEW x, NEW E, UiBut(u, C, x, E), NEW D, E \ D = {}
  PROVE  UiBut(u, C, x, D)
BY DEF UiBut, PageInv

LEMMA Promised ==
  ASSUME NEW u, NEW C, NEW x, NEW E, UiBut(u, C, x, E), \A w \in E : Holds(u, w, "ready")
  PROVE  UiInv(u, C, x)
BY DEF UiInv, UiBut, PageInv

(* Handles that are dropped. *)
LEMMA DetailsDropped ==
  ASSUME NEW u, NEW C, NEW x, NEW E, UiBut(u, C, x, E), NEW n, n = [u EXCEPT !.detailsWindow = None]
  PROVE  UiBut(n, C, x, E) /\ Aged(n, u) /\ n.posted = u.posted /\ n.windows = u.windows
         /\ n.detailsWindow = None /\ n.stripWindow = u.stripWindow /\ n.snapshot = u.snapshot
<1>1. /\ n \in Contexts /\ n.posted = u.posted /\ n.windows = u.windows /\ n.snapshot = u.snapshot
      /\ n.detailsWindow = None /\ n.stripWindow = u.stripWindow
  BY DEF UiBut, Contexts, Handles
<1>2. RecordInv(n) /\ HandleInv(n) /\ StripInv(n) /\ AddressInv(n)
  BY <1>1 DEF UiBut, RecordInv, HandleInv, StripInv, AddressInv, Listens
<1>3. CreationInv(n, C)
  BY <1>1, Apart DEF UiBut, CreationInv
<1>4. SettleInv(n) /\ PageInv(n, E) /\ HoverInv(n, x)
  BY <1>1 DEF UiBut, SettleInv, PageInv, HoverInv, Holds
<1>5. Aged(n, u)
  BY <1>1 DEF Aged
<1> QED BY <1>1, <1>2, <1>3, <1>4, <1>5 DEF UiBut

NoStrip(u) == [u EXCEPT !.snapshot = None, !.stripWindow = None]
LEMMA StripDropped ==
  ASSUME NEW u, NEW C, NEW x, NEW E, UiBut(u, C, x, E), NEW n, n = NoStrip(u)
  PROVE  UiBut(n, C, x, E) /\ Aged(n, u) /\ n.posted = u.posted /\ n.windows = u.windows
         /\ n.detailsWindow = u.detailsWindow /\ n.stripWindow = None /\ n.snapshot = None
<1>1. /\ n \in Contexts /\ n.posted = u.posted /\ n.windows = u.windows /\ n.snapshot = None
      /\ n.detailsWindow = u.detailsWindow /\ n.stripWindow = None
  BY DEF UiBut, Contexts, Handles, Data, NoStrip
<1>2. RecordInv(n) /\ HandleInv(n) /\ StripInv(n) /\ AddressInv(n)
  BY <1>1 DEF UiBut, RecordInv, HandleInv, StripInv, AddressInv, Listens
<1>3. CreationInv(n, C)
  BY <1>1, Apart DEF UiBut, CreationInv
<1>4. SettleInv(n) /\ PageInv(n, E) /\ HoverInv(n, x)
  BY <1>1 DEF UiBut, SettleInv, PageInv, HoverInv, Holds
<1>5. Aged(n, u)
  BY <1>1 DEF Aged
<1> QED BY <1>1, <1>2, <1>3, <1>4, <1>5 DEF UiBut

(* DestroyWindow, whoever calls it, for a window that nobody waits for.      *)
LEMMA DestroyedKeeps ==
  ASSUME NEW u, NEW C, NEW x, NEW E, UiBut(u, C, x, E),
         NEW w \in Windows, u.windows[w].open, w \notin C
  PROVE  UiBut(Destroyed(u, w), C, x, E) /\ Aged(Destroyed(u, w), u) /\ Wakes(Destroyed(u, w), u)
         /\ Holds(Destroyed(u, w), Owner, IF u.windows[w].kind = "details" THEN "detailsClosed"
                                                                           ELSE "stripClosed")
         /\ Destroyed(u, w).detailsWindow = u.detailsWindow /\ Destroyed(u, w).stripWindow = u.stripWindow
         /\ Destroyed(u, w).snapshot = u.snapshot
<1> DEFINE name == IF u.windows[w].kind = "details" THEN "detailsClosed" ELSE "stripClosed"
           m    == [to |-> Owner, name |-> name]
           left == Without(u.posted, w)
           q    == Append(left, m)
           n    == Destroyed(u, w)
<1>1. u \in Contexts /\ u.posted \in Seq(Messages) /\ m \in Messages
  <2>1. name = "detailsClosed" \/ name = "stripClosed"
    OBVIOUS
  <2>2. u \in Contexts /\ u.posted \in Seq(Messages)
    BY DEF UiBut, Contexts
  <2> HIDE DEF name
  <2>3. name \in Names
    BY <2>1 DEF Names
  <2> QED BY <2>2, <2>3 DEF Messages
<1>2. /\ left \in Seq(Messages)
      /\ \A k \in DOMAIN left : \E i \in DOMAIN u.posted : u.posted[i] = left[k] /\ u.posted[i].to # w
      /\ \A i \in DOMAIN u.posted : u.posted[i].to # w => \E k \in DOMAIN left : left[k] = u.posted[i]
  BY <1>1, WithoutFacts
<1>3. m.to = Owner /\ m.name = name
  OBVIOUS
<1>4. n = [u EXCEPT !.windows[w] = Unused, !.posted = q]
  BY <1>1 DEF Destroyed, Posted, Contexts
<1> HIDE DEF left, m
<1>5. /\ q \in Seq(Messages) /\ DOMAIN q = 1..(Len(left) + 1) /\ DOMAIN left = 1..Len(left)
      /\ q[Len(left) + 1] = m /\ \A i \in DOMAIN left : q[i] = left[i]
      /\ Len(left) \in Nat
  BY <1>1, <1>2
<1> HIDE DEF q, n
<1>6. /\ n \in Contexts /\ n.posted = q /\ n.detailsWindow = u.detailsWindow /\ n.stripWindow = u.stripWindow
      /\ n.snapshot = u.snapshot /\ n.windows = [u.windows EXCEPT ![w] = Unused]
  BY <1>1, <1>4, <1>5, UnusedRecord DEF Contexts
<1>7. /\ n.windows[w] = Unused /\ \A v \in Windows : v # w => n.windows[v] = u.windows[v]
      /\ u.windows \in [Windows -> Records]
  BY <1>1, <1>6 DEF Contexts
<1>8. \A i \in DOMAIN q : (i \in DOMAIN left /\ q[i] = left[i]) \/ q[i] = m
  <2>1. \A i \in DOMAIN q : i \in DOMAIN left \/ i = Len(left) + 1
    BY <1>5
  <2> QED BY <2>1, <1>5
<1>9. \A a, b : a # w /\ Holds(u, a, b) => Holds(n, a, b)
  <2>1. \A i \in DOMAIN left : i \in DOMAIN q
    BY <1>5
  <2> QED BY <2>1, <1>2, <1>5, <1>6 DEF Holds
<1>10. Holds(n, Owner, name)
  <2>1. Len(left) + 1 \in DOMAIN q
    BY <1>5
  <2> QED BY <2>1, <1>3, <1>5, <1>6 DEF Holds
<1>11. Owner # w /\ w # None
  BY Apart
<1>12. RecordInv(n)
  BY <1>7, UnusedRecord DEF UiBut, RecordInv
<1>13. HandleInv(n)
  BY <1>1, <1>6, <1>7, UnusedRecord DEF UiBut, HandleInv, Contexts, Handles
<1>14. CreationInv(n, C)
  BY <1>6, <1>7 DEF UiBut, CreationInv
<1>15. AddressInv(n)
  <2> SUFFICES ASSUME NEW i \in DOMAIN q, q[i].to # Owner PROVE Listens(n, q[i].to)
    BY <1>6 DEF AddressInv, Listens
  <2>1. i \in DOMAIN left /\ q[i] = left[i]
    BY <1>3, <1>8
  <2>2. PICK k \in DOMAIN u.posted : u.posted[k] = q[i] /\ u.posted[k].to # w
    BY <2>1, <1>2
  <2>3. u.posted[k] \in Messages
    BY <1>1, <2>2
  <2>4. Listens(u, q[i].to) /\ q[i].to \in Windows
    BY <2>2, <2>3 DEF UiBut, AddressInv, Listens, Messages
  <2> QED BY <2>2, <2>4, <1>7 DEF Listens
<1>16. SettleInv(n)
  <2>1. ASSUME u.stripWindow # None, ~n.windows[u.stripWindow].open
        PROVE  Holds(n, Owner, "stripClosed")
    <3>1. u.stripWindow \in Windows
      BY <1>1, <2>1 DEF Contexts, Handles
    <3>2. CASE u.stripWindow = w
      <4>1. u.windows[w].kind # "details"
        BY <2>1, <3>2 DEF UiBut, HandleInv
      <4> QED BY <4>1, <1>10
    <3>3. CASE u.stripWindow # w
      BY <2>1, <3>1, <3>3, <1>7, <1>9, <1>11 DEF UiBut, SettleInv
    <3> QED BY <3>2, <3>3
  <2>2. ASSUME u.detailsWindow # None, ~n.windows[u.detailsWindow].open
        PROVE  Holds(n, Owner, "detailsClosed")
    <3>1. u.detailsWindow \in Windows
      BY <1>1, <2>2 DEF Contexts, Handles
    <3>2. CASE u.detailsWindow = w
      <4>1. u.windows[w].kind = "details"
        BY <2>2, <3>2 DEF UiBut, HandleInv, RecordInv, Kinds
      <4> QED BY <4>1, <1>10
    <3>3. CASE u.detailsWindow # w
      BY <2>2, <3>1, <3>3, <1>7, <1>9, <1>11 DEF UiBut, SettleInv
    <3> QED BY <3>2, <3>3
  <2> QED BY <2>1, <2>2, <1>6 DEF SettleInv
<1>17. PageInv(n, E)
  BY <1>7, <1>9, UnusedRecord DEF UiBut, PageInv
<1>18. StripInv(n)
  <2>1. u.stripWindow # None => u.stripWindow \in Windows
    BY <1>1 DEF Contexts, Handles
  <2> QED BY <2>1, <1>6, <1>7, UnusedRecord DEF UiBut, StripInv
<1>19. HoverInv(n, x)
  BY <1>6, <1>9, <1>11 DEF UiBut, HoverInv
<1>20. Aged(n, u)
  BY <1>6, <1>7, UnusedRecord DEF Aged
<1>21. Wakes(n, u)
  BY <1>9, <1>11 DEF Wakes
<1> QED BY <1>6, <1>10, <1>12, <1>13, <1>14, <1>15, <1>16, <1>17, <1>18, <1>19, <1>20, <1>21 DEF UiBut, n, name

LEMMA CloseStripKeeps ==
  ASSUME NEW u, NEW C, NEW x, NEW E, UiBut(u, C, x, E)
  PROVE  UiBut(CloseStrip(u), C, x, E) /\ Aged(CloseStrip(u), u) /\ Wakes(CloseStrip(u), u)
         /\ CloseStrip(u).stripWindow = None
<1>0. PICK v : v = NoStrip(u)
  OBVIOUS
<1>1. /\ UiBut(v, C, x, E) /\ Aged(v, u) /\ v.posted = u.posted /\ v.windows = u.windows
      /\ v.stripWindow = None
  BY <1>0, StripDropped
<1>2. CloseStrip(u) = IF IsWindow(u, u.stripWindow) THEN Destroyed(v, u.stripWindow) ELSE v
  BY <1>0 DEF CloseStrip, NoStrip
<1>3. Wakes(v, u)
  BY <1>1 DEF Wakes, Holds
<1>4. CASE IsWindow(u, u.stripWindow)
  <2>1. u.stripWindow \in Windows /\ u.windows[u.stripWindow].open /\ u.stripWindow \notin C
    BY <1>4 DEF IsWindow, UiBut, Contexts, Handles, CreationInv
  <2>2. /\ UiBut(Destroyed(v, u.stripWindow), C, x, E) /\ Aged(Destroyed(v, u.stripWindow), v)
        /\ Wakes(Destroyed(v, u.stripWindow), v) /\ Destroyed(v, u.stripWindow).stripWindow = None
    BY <2>1, <1>1, DestroyedKeeps
  <2>3. Aged(Destroyed(v, u.stripWindow), u)
    BY <2>2, <1>1, AgedTransitive
  <2> QED BY <2>2, <2>3, <1>2, <1>3, <1>4 DEF Wakes
<1>5. CASE ~IsWindow(u, u.stripWindow)
  BY <1>1, <1>2, <1>3, <1>5
<1> QED BY <1>4, <1>5

LEMMA CloseDetailsKeeps ==
  ASSUME NEW u, NEW C, NEW x, NEW E, UiBut(u, C, x, E)
  PROVE  UiBut(CloseDetails(u), C, x, E) /\ Aged(CloseDetails(u), u) /\ Wakes(CloseDetails(u), u)
<1> DEFINE v == [u EXCEPT !.detailsWindow = None]
<1>1. /\ UiBut(v, C, x, E) /\ Aged(v, u) /\ v.posted = u.posted /\ v.windows = u.windows
  BY DetailsDropped
<1>2. CloseDetails(u) = IF IsWindow(u, u.detailsWindow) THEN Destroyed(v, u.detailsWindow) ELSE v
  BY DEF CloseDetails
<1>3. Wakes(v, u)
  BY <1>1 DEF Wakes, Holds
<1> HIDE DEF v
<1>4. CASE IsWindow(u, u.detailsWindow)
  <2>1. u.detailsWindow \in Windows /\ u.windows[u.detailsWindow].open /\ u.detailsWindow \notin C
    BY <1>4 DEF IsWindow, UiBut, Contexts, Handles, CreationInv
  <2>2. /\ UiBut(Destroyed(v, u.detailsWindow), C, x, E) /\ Aged(Destroyed(v, u.detailsWindow), v)
        /\ Wakes(Destroyed(v, u.detailsWindow), v)
    BY <2>1, <1>1, DestroyedKeeps
  <2>3. Aged(Destroyed(v, u.detailsWindow), u)
    BY <2>2, <1>1, AgedTransitive
  <2> QED BY <2>2, <2>3, <1>2, <1>3, <1>4 DEF Wakes
<1>5. CASE ~IsWindow(u, u.detailsWindow)
  BY <1>1, <1>2, <1>3, <1>5
<1> QED BY <1>4, <1>5

(* Another record for one window, which stays as open and of the same kind.  *)
Suits(r, u, w, D) ==
  /\ r \in Records /\ r.open /\ r.kind = u.windows[w].kind /\ u.windows[w].open
  /\ w \notin D => (r.page = "ready" => r.shown = r.data)
  /\ u.windows[w].page = "ready" => r.page = "ready"
  /\ r.page # "ready" => r.shown = None
  /\ r.data = None => r.shown = None
  /\ w = u.stripWindow => r.data = u.snapshot
  /\ r.kind = "strip" => r.data \in {None, u.windows[w].data, u.snapshot}

Recorded(u, w, r) == [u EXCEPT !.windows[w] = r]
AllBut(E, w, D)   == E \ {w} \subseteq D

LEMMA RecordChanged ==
  ASSUME NEW u, NEW C, NEW x, NEW E, UiBut(u, C, x, E),
         NEW w \in Windows, w \notin C, NEW r, NEW D, Suits(r, u, w, D), AllBut(E, w, D),
         NEW n, n = Recorded(u, w, r)
  PROVE  UiBut(n, C, x, D) /\ Aged(n, u) /\ n.posted = u.posted
         /\ n.windows = [u.windows EXCEPT ![w] = r]
         /\ n.detailsWindow = u.detailsWindow /\ n.stripWindow = u.stripWindow /\ n.snapshot = u.snapshot
<1>0. /\ r \in Records /\ r.open /\ r.kind = u.windows[w].kind /\ u.windows[w].open
      /\ w = u.stripWindow => r.data = u.snapshot
      /\ r.kind = "strip" => r.data \in {None, u.windows[w].data, u.snapshot}
      /\ u.windows[w].page = "ready" => r.page = "ready"
  BY DEF Suits
<1>1. /\ n \in Contexts /\ n.posted = u.posted /\ n.detailsWindow = u.detailsWindow
      /\ n.stripWindow = u.stripWindow /\ n.snapshot = u.snapshot
      /\ n.windows = [u.windows EXCEPT ![w] = r]
  BY <1>0 DEF UiBut, Contexts, Recorded
<1>2. /\ n.windows[w] = r /\ \A v \in Windows : v # w => n.windows[v] = u.windows[v]
      /\ u.windows \in [Windows -> Records]
  BY <1>0, <1>1 DEF UiBut, Contexts
<1>3. /\ u.stripWindow # None => u.stripWindow \in Windows
      /\ u.detailsWindow # None => u.detailsWindow \in Windows
  BY DEF UiBut, Contexts, Handles
<1>4. \A a, b : Holds(n, a, b) <=> Holds(u, a, b)
  BY <1>1 DEF Holds
<1>5. RecordInv(n)
  BY <1>0, <1>2 DEF UiBut, RecordInv
<1>6. HandleInv(n)
  BY <1>0, <1>1, <1>2, <1>3 DEF UiBut, HandleInv
<1>7. CreationInv(n, C)
  BY <1>0, <1>1, <1>2 DEF UiBut, CreationInv
<1>8. AddressInv(n)
  <2> SUFFICES ASSUME NEW i \in DOMAIN u.posted, u.posted[i].to # Owner
               PROVE  Listens(n, u.posted[i].to)
    BY <1>1 DEF AddressInv, Listens
  <2>1. u.posted[i] \in Messages
    BY DEF UiBut, Contexts
  <2>2. u.posted[i].to \in Windows /\ Listens(u, u.posted[i].to)
    BY <2>1 DEF UiBut, AddressInv, Listens, Messages
  <2> QED BY <1>0, <2>2, <1>2 DEF Listens
<1>9. SettleInv(n)
  BY <1>0, <1>1, <1>2, <1>3, <1>4 DEF UiBut, SettleInv
<1>10. PageInv(n, D)
  <2> SUFFICES ASSUME NEW v \in Windows
               PROVE  /\ n.windows[v].page # "ready" => n.windows[v].shown = None
                      /\ n.windows[v].data = None => n.windows[v].shown = None
                      /\ v \notin D /\ n.windows[v].page = "ready" =>
                           n.windows[v].shown = n.windows[v].data \/ Holds(n, v, "ready")
    BY DEF PageInv
  <2>1. CASE v = w
    BY <2>1, <1>2 DEF Suits
  <2>2. CASE v # w
    <3>1. v \notin D => v \notin E
      BY <2>2 DEF AllBut
    <3> QED BY <2>2, <3>1, <1>2, <1>4 DEF UiBut, PageInv
  <2> QED BY <2>1, <2>2
<1>11. StripInv(n)
  BY <1>0, <1>1, <1>2, <1>3 DEF UiBut, StripInv
<1>12. HoverInv(n, x)
  BY <1>1, <1>4 DEF UiBut, HoverInv
<1>13. Aged(n, u)
  BY <1>0, <1>1, <1>2 DEF Aged
<1> QED BY <1>1, <1>5, <1>6, <1>7, <1>8, <1>9, <1>10, <1>11, <1>12, <1>13 DEF UiBut

(* A page gets the data of its window. *)
LEMMA DeliverKeeps ==
  ASSUME NEW u, NEW C, NEW x, NEW E, UiBut(u, C, x, E), NEW w \in Windows, u.windows[w].open, w \notin C,
         NEW D, AllBut(E, w, D)
  PROVE  LET n == Deliver(u, w, u.windows[w].data) IN
         /\ UiBut(n, C, x, D) /\ Aged(n, u) /\ n.posted = u.posted
         /\ n.detailsWindow = u.detailsWindow /\ n.stripWindow = u.stripWindow
<1>1. PICK n : n = Deliver(u, w, u.windows[w].data)
  OBVIOUS
<1>2. PICK r : r = [u.windows[w] EXCEPT !.shown = u.windows[w].data]
  OBVIOUS
<1>3. u \in Contexts /\ u.windows[w] \in Records
  BY DEF UiBut, Contexts
<1>4. /\ r \in Records /\ r.open = u.windows[w].open /\ r.kind = u.windows[w].kind
      /\ r.page = u.windows[w].page /\ r.data = u.windows[w].data /\ r.shown = u.windows[w].data
  BY <1>2, <1>3 DEF Records
<1>5. CASE u.windows[w].data # None /\ u.windows[w].page = "ready"
  <2>1. n = Recorded(u, w, r)
    BY <1>1, <1>2, <1>3, <1>5 DEF Deliver, Contexts, Recorded
  <2>2. w = u.stripWindow => r.data = u.snapshot
    BY <1>4, Apart DEF UiBut, StripInv
  <2>3. /\ UiBut(n, C, x, D) /\ Aged(n, u) /\ n.posted = u.posted
        /\ n.detailsWindow = u.detailsWindow /\ n.stripWindow = u.stripWindow
    <3>1. r.page # "ready" => r.shown = None
      BY <1>4, <1>5
    <3>2. r.data = None => r.shown = None
      BY <1>4
    <3>3. w \notin D => (r.page = "ready" => r.shown = r.data)
      BY <1>4
    <3>4. r.kind = "strip" => r.data \in {None, u.windows[w].data, u.snapshot}
      BY <1>4
    <3>5. Suits(r, u, w, D)
      BY <1>4, <2>2, <3>1, <3>2, <3>3, <3>4 DEF Suits
    <3>6. UiBut(n, C, x, D) /\ Aged(n, u)
      BY <2>1, <3>5, RecordChanged, ZenonT(30)
    <3>7. n.posted = u.posted /\ n.detailsWindow = u.detailsWindow /\ n.stripWindow = u.stripWindow
      BY <2>1, <1>3 DEF Recorded, Contexts
    <3> QED BY <3>6, <3>7
  <2> QED BY <2>3, <1>1
<1>6. CASE ~(u.windows[w].data # None /\ u.windows[w].page = "ready")
  <2>1. n = u
    BY <1>1, <1>6 DEF Deliver
  <2>2. PageInv(u, D)
    <3> SUFFICES ASSUME NEW v \in Windows
                 PROVE  /\ u.windows[v].page # "ready" => u.windows[v].shown = None
                        /\ u.windows[v].data = None => u.windows[v].shown = None
                        /\ v \notin D /\ u.windows[v].page = "ready" =>
                             u.windows[v].shown = u.windows[v].data \/ Holds(u, v, "ready")
      BY DEF PageInv
    <3>1. CASE v = w
      BY <3>1, <1>6 DEF UiBut, PageInv
    <3>2. CASE v # w
      <4>1. v \notin D => v \notin E
        BY <3>2 DEF AllBut
      <4> QED BY <4>1 DEF UiBut, PageInv
    <3> QED BY <3>1, <3>2
  <2> QED BY <2>1, <2>2, <1>1, AgedSelf DEF UiBut
<1> QED BY <1>5, <1>6

(* Data for the card. *)
LEMMA UpdateDetailsKeeps ==
  ASSUME NEW u, NEW C, NEW x, UiInv(u, C, x), NEW v \in Version
  PROVE  UiInv(UpdateDetails(u, v), C, x) /\ Aged(UpdateDetails(u, v), u) /\ Wakes(UpdateDetails(u, v), u)
<1>1. PICK s : s = [u EXCEPT !.details = v]
  OBVIOUS
<1>2. /\ s \in Contexts /\ s.windows = u.windows /\ s.posted = u.posted /\ s.snapshot = u.snapshot
      /\ s.detailsWindow = u.detailsWindow /\ s.stripWindow = u.stripWindow
  BY <1>1 DEF UiInv, UiBut, Contexts
<1>3. UiBut(s, C, x, {}) /\ Aged(s, u) /\ Wakes(s, u)
  <2>1. \A a, b : Holds(s, a, b) <=> Holds(u, a, b)
    BY <1>2 DEF Holds
  <2>2. RecordInv(s) /\ HandleInv(s) /\ CreationInv(s, C) /\ AddressInv(s) /\ StripInv(s)
    BY <1>2 DEF UiInv, UiBut, RecordInv, HandleInv, CreationInv, AddressInv, Listens, StripInv
  <2>3. SettleInv(s) /\ PageInv(s, {}) /\ HoverInv(s, x)
    BY <1>2, <2>1 DEF UiInv, UiBut, SettleInv, PageInv, HoverInv
  <2>4. Aged(s, u) /\ Wakes(s, u)
    BY <1>2, <2>1 DEF Aged, Wakes
  <2> QED BY <1>2, <2>2, <2>3, <2>4 DEF UiBut
<1>4. UpdateDetails(u, v) = IF IsWindow(u, u.detailsWindow)
                            THEN Deliver([s EXCEPT !.windows[u.detailsWindow].data = v], u.detailsWindow, v)
                            ELSE s
  BY <1>1 DEF UpdateDetails
<1>5. CASE IsWindow(u, u.detailsWindow)
  <2>1. PICK w : w = u.detailsWindow
    OBVIOUS
  <2>2. w \in Windows /\ s.windows[w].open /\ w \notin C /\ s.windows[w].kind = "details"
        /\ s.windows[w] \in Records
    BY <1>2, <1>3, <1>5, <2>1
       DEF IsWindow, UiBut, Contexts, Handles, CreationInv, HandleInv, RecordInv, Kinds
  <2>3. PICK r : r = [s.windows[w] EXCEPT !.data = v]
    OBVIOUS
  <2>4. PICK m : m = [s EXCEPT !.windows[w].data = v]
    OBVIOUS
  <2>5. /\ r \in Records /\ r.open /\ r.kind = "details" /\ r.page = s.windows[w].page
        /\ r.data = v /\ r.shown = s.windows[w].shown
    BY <2>2, <2>3 DEF Records, Data
  <2>6. m = Recorded(s, w, r)
    BY <2>3, <2>4, <1>2 DEF Contexts, Recorded
  <2>7. w # s.stripWindow
    BY <2>2, Apart, <1>3 DEF UiBut, HandleInv
  <2>8. r.page # "ready" => r.shown = None
    BY <2>2, <2>5, <1>3 DEF UiBut, PageInv
  <2>9. r.data # None
    BY <2>5, Apart
  <2>10. /\ UiBut(m, C, x, {w}) /\ Aged(m, s) /\ m.posted = s.posted
         /\ m.windows = [s.windows EXCEPT ![w] = r]
    <3>1. w \notin {w} => (r.page = "ready" => r.shown = r.data)
      OBVIOUS
    <3>2. r.kind # "strip" /\ r.kind = s.windows[w].kind
      BY <2>2, <2>5
    <3>3. AllBut({}, w, {w})
      BY DEF AllBut
    <3>4. Suits(r, s, w, {w})
      BY <2>2, <2>5, <2>7, <2>8, <2>9, <3>1, <3>2 DEF Suits
    <3> QED BY <2>2, <2>6, <1>3, <3>3, <3>4, RecordChanged
  <2>11. m.windows[w] = r
    BY <2>2, <2>10, <1>2 DEF Contexts
  <2>12. LET n == Deliver(m, w, m.windows[w].data) IN
           UiBut(n, C, x, {}) /\ Aged(n, m) /\ n.posted = m.posted
    <3>1. AllBut({w}, w, {})
      BY DEF AllBut
    <3> QED BY <3>1, <2>2, <2>5, <2>10, <2>11, DeliverKeeps
  <2>13. UpdateDetails(u, v) = Deliver(m, w, m.windows[w].data)
    BY <2>1, <2>4, <2>5, <2>11, <1>4, <1>5
  <2>14. Aged(UpdateDetails(u, v), u)
    BY <2>10, <2>12, <2>13, <1>3, AgedTransitive
  <2>15. Wakes(UpdateDetails(u, v), u)
    BY <2>10, <2>12, <2>13, <1>3 DEF Wakes, Holds
  <2> QED BY <2>12, <2>13, <2>14, <2>15 DEF UiInv
<1>6. CASE ~IsWindow(u, u.detailsWindow)
  BY <1>3, <1>4, <1>6 DEF UiInv
<1> QED BY <1>5, <1>6

(* A snapshot for the strip, newer than all that was in one. *)
LEMMA UpdateStripKeeps ==
  ASSUME NEW u, NEW C, NEW x \in Version, UiInv(u, C, x), NEW v \in Version, NewerThan(u, x, v)
  PROVE  LET n == UpdateStripSnapshot(u, v) IN
         /\ UiInv(n, C, x) /\ Wakes(n, u)
         /\ \A k \in Version : k > v /\ NewerThan(u, x, k) => NewerThan(n, x, k)
<1> DEFINE Newer(n) == \A k \in Version : k > v /\ NewerThan(u, x, k) => NewerThan(n, x, k)
<1>0. PICK n : n = UpdateStripSnapshot(u, v)
  OBVIOUS
<1>1. PICK s : s = [u EXCEPT !.snapshot = v]
  OBVIOUS
<1>2. /\ s \in Contexts /\ s.windows = u.windows /\ s.posted = u.posted /\ s.snapshot = v
      /\ s.detailsWindow = u.detailsWindow /\ s.stripWindow = u.stripWindow
  BY <1>1 DEF UiInv, UiBut, Contexts, Data
<1>3. /\ RecordInv(s) /\ HandleInv(s) /\ CreationInv(s, C) /\ AddressInv(s) /\ SettleInv(s)
      /\ PageInv(s, {}) /\ HoverInv(s, x) /\ Wakes(s, u) /\ Newer(s)
  <2>1. \A a, b : Holds(s, a, b) <=> Holds(u, a, b)
    BY <1>2 DEF Holds
  <2>2. RecordInv(s) /\ HandleInv(s) /\ CreationInv(s, C) /\ AddressInv(s)
    BY <1>2 DEF UiInv, UiBut, RecordInv, HandleInv, CreationInv, AddressInv, Listens
  <2>3. SettleInv(s) /\ PageInv(s, {})
    BY <1>2, <2>1 DEF UiInv, UiBut, SettleInv, PageInv
  <2>4. Wakes(s, u)
    BY <1>2, <2>1 DEF Wakes
  <2>5. HoverInv(s, x) /\ Newer(s)
    BY <1>2 DEF NewerThan, HoverInv
  <2> QED BY <2>2, <2>3, <2>4, <2>5
<1>4. n = IF IsWindow(u, u.stripWindow)
          THEN Deliver([s EXCEPT !.windows[u.stripWindow].data = v], u.stripWindow, v) ELSE s
  BY <1>0, <1>1 DEF UpdateStripSnapshot
<1>5. CASE IsWindow(u, u.stripWindow)
  <2>1. PICK w : w = u.stripWindow
    OBVIOUS
  <2>2. w \in Windows /\ u.windows[w].open /\ w \notin C /\ u.windows[w].kind = "strip"
        /\ u.windows[w] \in Records
    BY <1>5, <2>1 DEF IsWindow, UiInv, UiBut, Contexts, Handles, CreationInv, HandleInv, RecordInv, Kinds
  <2>3. PICK r : r = [u.windows[w] EXCEPT !.data = v]
    OBVIOUS
  <2>4. PICK m : m = [s EXCEPT !.windows[w].data = v]
    OBVIOUS
  <2>5. /\ r \in Records /\ r.open /\ r.kind = "strip" /\ r.page = u.windows[w].page
        /\ r.data = v /\ r.shown = u.windows[w].shown
    BY <2>2, <2>3 DEF Records, Data
  <2>6. /\ m \in Contexts /\ m.windows = [u.windows EXCEPT ![w] = r] /\ m.posted = u.posted /\ m.snapshot = v
        /\ m.detailsWindow = u.detailsWindow /\ m.stripWindow = w
    BY <2>1, <2>2, <2>3, <2>4, <2>5, <1>2 DEF Contexts
  <2>7. /\ m.windows[w] = r /\ \A k \in Windows : k # w => m.windows[k] = u.windows[k]
    BY <2>2, <2>6, <1>2 DEF Contexts
  <2>8. \A a, b : Holds(m, a, b) <=> Holds(u, a, b)
    BY <2>6 DEF Holds
  <2>9. /\ u.detailsWindow # None => u.detailsWindow \in Windows
    BY DEF UiInv, UiBut, Contexts, Handles
  <2>10. RecordInv(m) /\ CreationInv(m, C)
    BY <2>2, <2>5, <2>6, <2>7 DEF UiInv, UiBut, RecordInv, CreationInv, Kinds
  <2>11. HandleInv(m)
    BY <2>1, <2>2, <2>5, <2>6, <2>7, <2>9 DEF UiInv, UiBut, HandleInv
  <2>12. AddressInv(m)
    <3> SUFFICES ASSUME NEW i \in DOMAIN u.posted, u.posted[i].to # Owner
                 PROVE  Listens(m, u.posted[i].to)
      BY <2>6 DEF AddressInv, Listens
    <3>1. u.posted[i] \in Messages
      BY DEF UiInv, UiBut, Contexts
    <3>2. u.posted[i].to \in Windows /\ Listens(u, u.posted[i].to)
      BY <3>1 DEF UiInv, UiBut, AddressInv, Listens, Messages
    <3> QED BY <3>2, <2>5, <2>7 DEF Listens
  <2>13. SettleInv(m)
    BY <2>5, <2>6, <2>7, <2>8, <2>9 DEF UiInv, UiBut, SettleInv
  <2>14. PageInv(m, {w})
    <3> SUFFICES ASSUME NEW k \in Windows
                 PROVE  /\ m.windows[k].page # "ready" => m.windows[k].shown = None
                        /\ m.windows[k].data = None => m.windows[k].shown = None
                        /\ k \notin {w} /\ m.windows[k].page = "ready" =>
                             m.windows[k].shown = m.windows[k].data \/ Holds(m, k, "ready")
      BY DEF PageInv
    <3>1. CASE k = w
      BY <3>1, <2>5, <2>7, Apart DEF UiInv, UiBut, PageInv
    <3>2. CASE k # w
      BY <3>2, <2>7, <2>8 DEF UiInv, UiBut, PageInv
    <3> QED BY <3>1, <3>2
  <2>15. StripInv(m)
    BY <2>5, <2>6, <2>7 DEF StripInv
  <2>16. HoverInv(m, x)
    BY <2>6 DEF HoverInv, NewerThan
  <2>17. UiBut(m, C, x, {w})
    BY <2>6, <2>10, <2>11, <2>12, <2>13, <2>14, <2>15, <2>16 DEF UiBut
  <2>18. Newer(m)
    <3> SUFFICES ASSUME NEW k \in Version, k > v, NewerThan(u, x, k) PROVE NewerThan(m, x, k)
      OBVIOUS
    <3>1. \A a \in Windows : m.windows[a].kind = "strip" /\ m.windows[a].data # None => k > m.windows[a].data
      BY <2>5, <2>7 DEF NewerThan
    <3> QED BY <3>1, <2>6 DEF NewerThan
  <2>19. LET d == Deliver(m, w, m.windows[w].data) IN
           UiBut(d, C, x, {}) /\ Aged(d, m) /\ d.posted = m.posted
    <3>1. AllBut({w}, w, {})
      BY DEF AllBut
    <3> QED BY <3>1, <2>2, <2>5, <2>7, <2>17, DeliverKeeps
  <2>20. n = Deliver(m, w, m.windows[w].data)
    BY <2>1, <2>4, <2>5, <2>7, <1>4, <1>5
  <2>21. Newer(n)
    BY <2>18, <2>19, <2>20, AgedNewer
  <2>22. Wakes(n, u)
    BY <2>6, <2>19, <2>20 DEF Wakes, Holds
  <2> QED BY <2>19, <2>20, <2>21, <2>22, <1>0 DEF UiInv
<1>6. CASE ~IsWindow(u, u.stripWindow)
  <2>1. StripInv(s)
    BY <1>2, <1>6 DEF StripInv, IsWindow
  <2>2. n = s
    BY <1>4, <1>6
  <2> QED BY <2>1, <2>2, <1>0, <1>2, <1>3 DEF UiInv, UiBut
<1> QED BY <1>5, <1>6

(* A window for a handler that waits for its WebView. *)
LEMMA CreatedKeeps ==
  ASSUME NEW u, NEW C, NEW x, UiInv(u, C, x), NEW w \in Windows, Free(u, w),
         NEW kind \in Kinds, NEW data \in Data, kind = "strip" => data = None,
         NEW n, n = Recorded(u, w, Popup(kind, data))
  PROVE  UiInv(n, C \cup {w}, x) /\ Aged(n, u) /\ n.posted = u.posted /\ w \notin C
<1> DEFINE r == Popup(kind, data)
           F == C \cup {w}
<1>1. /\ r \in Records /\ r.open /\ r.kind = kind /\ r.page = "none" /\ r.data = data /\ r.shown = None
  BY DEF Popup, Records, Pages, Data
<1>2. u \in Contexts /\ u.windows \in [Windows -> Records] /\ u.windows[w] = Unused
      /\ w # u.detailsWindow /\ w # u.stripWindow
  BY DEF UiInv, UiBut, Contexts, Free
<1> HIDE DEF r
<1>3. /\ n \in Contexts /\ n.posted = u.posted /\ n.detailsWindow = u.detailsWindow
      /\ n.stripWindow = u.stripWindow /\ n.snapshot = u.snapshot
      /\ n.windows = [u.windows EXCEPT ![w] = r]
  BY <1>1, <1>2 DEF Contexts, Recorded, r
<1>4. n.windows[w] = r /\ \A v \in Windows : v # w => n.windows[v] = u.windows[v]
  BY <1>2, <1>3
<1>5. w \notin C
  BY <1>2, UnusedRecord DEF UiInv, UiBut, CreationInv
<1>6. \A a, b : Holds(n, a, b) <=> Holds(u, a, b)
  BY <1>3 DEF Holds
<1>7. /\ u.stripWindow # None => u.stripWindow \in Windows
      /\ u.detailsWindow # None => u.detailsWindow \in Windows
  BY <1>2 DEF Contexts, Handles
<1>8. RecordInv(n)
  BY <1>1, <1>4 DEF UiInv, UiBut, RecordInv
<1>9. HandleInv(n)
  BY <1>2, <1>3, <1>4, <1>7 DEF UiInv, UiBut, HandleInv
<1>10. CreationInv(n, F)
  BY <1>1, <1>2, <1>3, <1>4 DEF UiInv, UiBut, CreationInv
<1>11. AddressInv(n)
  <2> SUFFICES ASSUME NEW i \in DOMAIN u.posted, u.posted[i].to # Owner
               PROVE  Listens(n, u.posted[i].to)
    BY <1>3 DEF AddressInv, Listens
  <2>1. u.posted[i] \in Messages
    BY DEF UiInv, UiBut, Contexts
  <2>2. u.posted[i].to \in Windows /\ Listens(u, u.posted[i].to)
    BY <2>1 DEF UiInv, UiBut, AddressInv, Listens, Messages
  <2> QED BY <2>2, <1>2, <1>4, UnusedRecord DEF Listens
<1>12. SettleInv(n)
  BY <1>2, <1>3, <1>4, <1>6, <1>7 DEF UiInv, UiBut, SettleInv
<1>13. PageInv(n, {})
  <2> SUFFICES ASSUME NEW v \in Windows
               PROVE  /\ n.windows[v].page # "ready" => n.windows[v].shown = None
                      /\ n.windows[v].data = None => n.windows[v].shown = None
                      /\ n.windows[v].page = "ready" =>
                           n.windows[v].shown = n.windows[v].data \/ Holds(n, v, "ready")
    BY DEF PageInv
  <2>1. CASE v = w
    BY <2>1, <1>1, <1>4
  <2>2. CASE v # w
    BY <2>2, <1>4, <1>6 DEF UiInv, UiBut, PageInv
  <2> QED BY <2>1, <2>2
<1>14. StripInv(n)
  BY <1>2, <1>3, <1>4, <1>7 DEF UiInv, UiBut, StripInv
<1>15. HoverInv(n, x)
  BY <1>3, <1>6 DEF UiInv, UiBut, HoverInv
<1>16. Aged(n, u)
  BY <1>1, <1>3, <1>4 DEF Aged
<1> QED BY <1>3, <1>5, <1>8, <1>9, <1>10, <1>11, <1>12, <1>13, <1>14, <1>15, <1>16 DEF UiInv, UiBut

(* The WebView is there: the handler's window gets its handle. *)
LEMMA RegisteredKeeps ==
  ASSUME NEW u, NEW C, NEW x, UiInv(u, C, x), NEW w \in C
  PROVE  LET n == Registered(u, w) IN
         UiInv(n, C \ {w}, x) /\ Aged(n, u) /\ n.posted = u.posted
<1> DEFINE F == C \ {w}
<1>0. PICK n : n = Registered(u, w)
  OBVIOUS
<1>1. /\ u \in Contexts /\ u.windows \in [Windows -> Records] /\ w \in Windows /\ u.windows[w] \in Records
      /\ u.windows[w].open /\ u.windows[w].page = "none" /\ w # u.detailsWindow /\ w # u.stripWindow
      /\ u.windows[w].kind \in Kinds /\ u.windows[w].shown = None /\ w # None
  BY Apart DEF UiInv, UiBut, CreationInv, Contexts, RecordInv, PageInv
<1>2. PICK s : s = IF u.windows[w].kind = "details" THEN u.stripWindow ELSE w
  OBVIOUS
<1>3. PICK d : d = IF u.windows[w].kind = "details" THEN w ELSE u.detailsWindow
  OBVIOUS
<1>4. PICK r : r = IF u.windows[w].kind = "details" THEN [u.windows[w] EXCEPT !.page = "loading"]
                   ELSE [u.windows[w] EXCEPT !.page = "loading", !.data = u.snapshot]
  OBVIOUS
<1>5. /\ r \in Records /\ r.open /\ r.kind = u.windows[w].kind /\ r.page = "loading" /\ r.shown = None
      /\ u.windows[w].kind # "details" => r.data = u.snapshot
  BY <1>1, <1>4 DEF Records, Pages, Contexts
<1>6. PICK m : m = [u EXCEPT !.detailsWindow = d, !.stripWindow = s, !.windows = [u.windows EXCEPT ![w] = r]]
  OBVIOUS
<1>7. n = m
  <2>1. CASE u.windows[w].kind = "details"
    <3>1. [u EXCEPT !.detailsWindow = w, !.windows[w].page = "loading"] = m
      BY <2>1, <1>1, <1>2, <1>3, <1>4, <1>6, ZenonT(60) DEF Contexts
    <3>2. m.windows[w].page = "loading"
      BY <1>1, <1>5, <1>6 DEF Contexts
    <3> QED BY <2>1, <3>1, <3>2, <1>0 DEF Registered, Deliver
  <2>2. CASE u.windows[w].kind # "details"
    <3>1. [u EXCEPT !.stripWindow = w, !.windows[w].page = "loading", !.windows[w].data = u.snapshot] = m
      BY <2>2, <1>1, <1>2, <1>3, <1>4, <1>6, ZenonT(60) DEF Contexts
    <3>2. m.windows[w].page = "loading"
      BY <1>1, <1>5, <1>6 DEF Contexts
    <3> QED BY <2>2, <3>1, <3>2, <1>0 DEF Registered, Deliver
  <2> QED BY <2>1, <2>2
<1>8. /\ m \in Contexts /\ m.posted = u.posted /\ m.snapshot = u.snapshot /\ m.detailsWindow = d
      /\ m.stripWindow = s /\ m.windows = [u.windows EXCEPT ![w] = r]
  BY <1>1, <1>2, <1>3, <1>5, <1>6 DEF Contexts, Handles
<1>9. m.windows[w] = r /\ \A v \in Windows : v # w => m.windows[v] = u.windows[v]
  BY <1>1, <1>8
<1>10. \A a, b : Holds(m, a, b) <=> Holds(u, a, b)
  BY <1>8 DEF Holds
<1>11. /\ u.stripWindow # None => u.stripWindow \in Windows
       /\ u.detailsWindow # None => u.detailsWindow \in Windows
  BY <1>1 DEF Contexts, Handles
<1>12. \/ (d = w /\ s = u.stripWindow /\ r.kind = "details")
       \/ (d = u.detailsWindow /\ s = w /\ r.kind = "strip" /\ r.data = u.snapshot)
  BY <1>1, <1>2, <1>3, <1>5 DEF Kinds
<1>13. RecordInv(m)
  BY <1>1, <1>5, <1>9 DEF UiInv, UiBut, RecordInv
<1>14. HandleInv(m)
  BY <1>1, <1>8, <1>9, <1>11, <1>12 DEF UiInv, UiBut, HandleInv
<1>15. CreationInv(m, F)
  BY <1>8, <1>9, <1>12 DEF UiInv, UiBut, CreationInv
<1>16. AddressInv(m)
  <2> SUFFICES ASSUME NEW i \in DOMAIN u.posted, u.posted[i].to # Owner
               PROVE  Listens(m, u.posted[i].to)
    BY <1>8 DEF AddressInv, Listens
  <2>1. u.posted[i] \in Messages
    BY <1>1 DEF Contexts
  <2>2. u.posted[i].to \in Windows /\ Listens(u, u.posted[i].to)
    BY <2>1 DEF UiInv, UiBut, AddressInv, Listens, Messages
  <2> QED BY <2>2, <1>1, <1>9 DEF Listens
<1>17. SettleInv(m)
  BY <1>1, <1>5, <1>8, <1>9, <1>10, <1>11, <1>12 DEF UiInv, UiBut, SettleInv
<1>18. PageInv(m, {})
  <2> SUFFICES ASSUME NEW v \in Windows
               PROVE  /\ m.windows[v].page # "ready" => m.windows[v].shown = None
                      /\ m.windows[v].data = None => m.windows[v].shown = None
                      /\ m.windows[v].page = "ready" =>
                           m.windows[v].shown = m.windows[v].data \/ Holds(m, v, "ready")
    BY DEF PageInv
  <2>1. CASE v = w
    BY <2>1, <1>5, <1>9
  <2>2. CASE v # w
    BY <2>2, <1>9, <1>10 DEF UiInv, UiBut, PageInv
  <2> QED BY <2>1, <2>2
<1>19. StripInv(m)
  BY <1>1, <1>8, <1>9, <1>11, <1>12 DEF UiInv, UiBut, StripInv
<1>20. HoverInv(m, x)
  BY <1>8, <1>10 DEF UiInv, UiBut, HoverInv
<1>21. Aged(m, u)
  <2>1. r.kind = "strip" => r.data = u.snapshot
    BY <1>12
  <2> QED BY <2>1, <1>8, <1>9 DEF Aged
<1>22. UiInv(n, F, x) /\ Aged(n, u) /\ n.posted = u.posted
  BY <1>7, <1>8, <1>13, <1>14, <1>15, <1>16, <1>17, <1>18, <1>19, <1>20, <1>21 DEF UiInv, UiBut
<1> QED BY <1>22, <1>0

(* A page installs its listener. *)
LEMMA PageReadyKeeps ==
  ASSUME NEW u, NEW C, NEW x, UiInv(u, C, x), NEW w \in Windows, u.windows[w].open,
         u.windows[w].page = "loading"
  PROVE  LET n == Posted([u EXCEPT !.windows[w].page = "ready"], w, "ready") IN
         UiInv(n, C, x) /\ Aged(n, u) /\ Wakes(n, u)
<1>1. PICK r : r = [u.windows[w] EXCEPT !.page = "ready"]
  OBVIOUS
<1>2. PICK m : m = [u EXCEPT !.windows[w].page = "ready"]
  OBVIOUS
<1>3. PICK n : n = Posted(m, w, "ready")
  OBVIOUS
<1>4. u \in Contexts /\ u.windows \in [Windows -> Records] /\ u.windows[w] \in Records /\ w # None
      /\ w \notin C /\ UiBut(u, C, x, {})
  BY Apart DEF UiInv, UiBut, Contexts, CreationInv
<1>5. /\ r \in Records /\ r.open /\ r.kind = u.windows[w].kind /\ r.page = "ready"
      /\ r.data = u.windows[w].data /\ r.shown = u.windows[w].shown
  BY <1>1, <1>4 DEF Records, Pages
<1>6. m = Recorded(u, w, r)
  BY <1>1, <1>2, <1>4 DEF Recorded, Contexts
<1>7. Suits(r, u, w, {w})
  <2>1. w = u.stripWindow => r.data = u.snapshot
    BY <1>4, <1>5 DEF UiBut, StripInv
  <2>2. r.data = None => r.shown = None
    BY <1>4, <1>5 DEF UiBut, PageInv
  <2> QED BY <1>5, <2>1, <2>2 DEF Suits
<1>8. AllBut({}, w, {w})
  BY DEF AllBut
<1>9. UiBut(m, C, x, {w}) /\ Aged(m, u) /\ m.posted = u.posted /\ m.windows = [u.windows EXCEPT ![w] = r]
  BY <1>4, <1>6, <1>7, <1>8, RecordChanged
<1>10. Listens(m, w)
  BY <1>4, <1>5, <1>9 DEF Listens
<1>11. "ready" \in Names
  BY DEF Names
<1>12. UiBut(n, C, x, {w}) /\ Aged(n, m) /\ Holds(n, w, "ready")
       /\ \A a, b : Holds(m, a, b) => Holds(n, a, b)
  BY <1>3, <1>9, <1>10, <1>11, PostedKeeps
<1>13. UiInv(n, C, x)
  BY <1>12, Promised
<1>14. Aged(n, u)
  BY <1>9, <1>12, AgedTransitive
<1>15. Wakes(n, u)
  BY <1>9, <1>12 DEF Wakes, Holds
<1> QED BY <1>2, <1>3, <1>13, <1>14, <1>15

(* The window has its ready message: it gets what it missed. *)
LEMMA OnReadyKeeps ==
  ASSUME NEW u, NEW C, NEW x, UiInv(u, C, x), u.posted # <<>>,
         NEW w \in Windows, Head(u.posted) = [to |-> w, name |-> "ready"]
  PROVE  LET n == Deliver(Popped(u), w, u.windows[w].data) IN
         UiInv(n, C, x) /\ Aged(n, u) /\ Wakes(n, u)
<1>1. PICK t : t = Popped(u)
  OBVIOUS
<1>2. PICK n : n = Deliver(t, w, u.windows[w].data)
  OBVIOUS
<1>3. UiBut(u, C, x, {w})
  BY ButLess DEF UiInv
<1>4. /\ UiBut(t, C, x, {w}) /\ Aged(t, u) /\ t.windows = u.windows
      /\ \A a, b : Holds(u, a, b) => Holds(t, a, b) \/ (a = w /\ b = "ready")
      /\ w = Owner \/ Listens(u, w)
  <2>1. MayTake(u, w, "ready", {w})
    BY DEF MayTake
  <2> QED BY <2>1, <1>1, <1>3, TakenKeeps
<1>5. t.windows[w].open /\ t.windows[w].page = "ready" /\ w # Owner
  BY <1>4, Apart DEF Listens
<1>6. Wakes(t, u)
  BY <1>4, <1>5 DEF Wakes
<1>7. w \notin C
  BY <1>4, <1>5 DEF UiBut, CreationInv
<1>8. AllBut({w}, w, {})
  BY DEF AllBut
<1>9. UiBut(n, C, x, {}) /\ Aged(n, t) /\ n.posted = t.posted
  BY <1>2, <1>4, <1>5, <1>7, <1>8, DeliverKeeps
<1>10. Aged(n, u)
  BY <1>4, <1>9, AgedTransitive
<1>11. Wakes(n, u)
  BY <1>6, <1>9 DEF Wakes, Holds
<1> QED BY <1>1, <1>2, <1>9, <1>10, <1>11 DEF UiInv

LEMMA TrackingKeeps ==
  ASSUME NEW u, NEW C, NEW x, UiInv(u, C, x), NEW b \in BOOLEAN, NEW n, n = [u EXCEPT !.tracking = b]
  PROVE  UiInv(n, C, x) /\ Aged(n, u) /\ n.posted = u.posted
         /\ n.windows = u.windows /\ n.detailsWindow = u.detailsWindow
         /\ n.stripWindow = u.stripWindow /\ n.snapshot = u.snapshot
<1>1. /\ n \in Contexts /\ n.posted = u.posted /\ n.windows = u.windows /\ n.snapshot = u.snapshot
      /\ n.detailsWindow = u.detailsWindow /\ n.stripWindow = u.stripWindow
  BY DEF UiInv, UiBut, Contexts
<1>2. RecordInv(n) /\ HandleInv(n) /\ StripInv(n) /\ AddressInv(n) /\ CreationInv(n, C)
  BY <1>1 DEF UiInv, UiBut, RecordInv, HandleInv, StripInv, AddressInv, Listens, CreationInv
<1>3. SettleInv(n) /\ PageInv(n, {}) /\ HoverInv(n, x)
  BY <1>1 DEF UiInv, UiBut, SettleInv, PageInv, HoverInv, Holds
<1>4. Aged(n, u)
  BY <1>1 DEF Aged
<1> QED BY <1>1, <1>2, <1>3, <1>4 DEF UiInv, UiBut

-----------------------------------------------------------------------------
(* 3. The handlers that wait. *)

LEMMA CallAdded ==
  ASSUME NEW calls \in Seq(Calls), NEW c \in Calls, CreatedOnce(calls),
         c.kind = "create" => c.window \notin Creating(calls)
  PROVE  LET n == Append(calls, c) IN
         /\ n \in Seq(Calls) /\ CreatedOnce(n) /\ (Drains(calls) => Drains(n))
         /\ c.kind = "create" => Creating(n) = Creating(calls) \cup {c.window}
         /\ c.kind # "create" => Creating(n) = Creating(calls)
         /\ c.kind = "drain" => Drains(n)
<1> DEFINE n == Append(calls, c)
           k == Len(calls) + 1
<1>1. /\ n \in Seq(Calls) /\ DOMAIN n = 1..k /\ DOMAIN calls = 1..Len(calls) /\ Len(calls) \in Nat
      /\ n[k] = c /\ \A i \in DOMAIN calls : n[i] = calls[i]
  OBVIOUS
<1>2. k \in DOMAIN n /\ k \notin DOMAIN calls
  BY <1>1
<1> HIDE DEF n
<1>3. \A i : i \in DOMAIN n <=> i \in DOMAIN calls \/ i = k
  BY <1>1
<1> HIDE DEF k
<1>4. Drains(calls) => Drains(n)
  BY <1>1, <1>3 DEF Drains
<1>5. c.kind = "drain" => Drains(n)
  BY <1>1, <1>3 DEF Drains
<1>6. \A i \in DOMAIN calls : calls[i].kind = "create" => calls[i].window \in Creating(calls)
  BY DEF Creating
<1>7. CreatedOnce(n)
  <2> SUFFICES ASSUME NEW i \in DOMAIN n, NEW j \in DOMAIN n, n[i].kind = "create", n[j].kind = "create",
                      n[i].window = n[j].window
               PROVE  i = j
    BY DEF CreatedOnce
  <2>1. CASE i \in DOMAIN calls /\ j \in DOMAIN calls
    BY <2>1, <1>1 DEF CreatedOnce
  <2>2. CASE i \in DOMAIN calls /\ j = k
    BY <2>2, <1>1, <1>6
  <2>3. CASE i = k /\ j \in DOMAIN calls
    BY <2>3, <1>1, <1>6
  <2>4. CASE i = k /\ j = k
    BY <2>4
  <2> QED BY <2>1, <2>2, <2>3, <2>4, <1>3
<1>8. \A v : v \in Creating(n) <=> v \in Creating(calls) \/ (c.kind = "create" /\ v = c.window)
  <2> SUFFICES ASSUME NEW v
               PROVE  v \in Creating(n) <=> v \in Creating(calls) \/ (c.kind = "create" /\ v = c.window)
    OBVIOUS
  <2>1. v \in Creating(n) <=> \E i \in DOMAIN n : n[i].kind = "create" /\ v = n[i].window
    BY DEF Creating
  <2>2. v \in Creating(calls) <=> \E i \in DOMAIN calls : calls[i].kind = "create" /\ v = calls[i].window
    BY DEF Creating
  <2> QED BY <2>1, <2>2, <1>1, <1>3
<1>9. /\ c.kind = "create" => Creating(n) = Creating(calls) \cup {c.window}
      /\ c.kind # "create" => Creating(n) = Creating(calls)
  BY <1>8
<1> QED BY <1>1, <1>4, <1>5, <1>7, <1>9 DEF n

LEMMA CallEnds ==
  ASSUME NEW calls \in Seq(Calls), calls # <<>>, CreatedOnce(calls)
  PROVE  LET n == Front(calls)
             c == Last(calls) IN
         /\ n \in Seq(Calls) /\ c \in Calls /\ CreatedOnce(n)
         /\ Drains(calls) /\ c.kind # "drain" => Drains(n)
         /\ c.kind = "create" => c.window \in Creating(calls) /\ Creating(n) = Creating(calls) \ {c.window}
         /\ c.kind # "create" => Creating(n) = Creating(calls)
         /\ c.kind = "drain" => Drains(calls)
<1> DEFINE n == Front(calls)
           c == Last(calls)
           k == Len(calls)
<1>1. /\ n \in Seq(Calls) /\ DOMAIN calls = 1..k /\ k \in Nat /\ k > 0 /\ DOMAIN n = 1..(k - 1)
      /\ calls[k] = c /\ c \in Calls /\ \A i \in DOMAIN n : n[i] = calls[i]
  BY DEF Front, Last
<1>2. k \in DOMAIN calls /\ k \notin DOMAIN n
  BY <1>1
<1> HIDE DEF n, c
<1>3. \A i : i \in DOMAIN calls <=> i \in DOMAIN n \/ i = k
  BY <1>1
<1> HIDE DEF k
<1>4. Drains(calls) /\ c.kind # "drain" => Drains(n)
  BY <1>1, <1>3 DEF Drains
<1>5. c.kind = "drain" => Drains(calls)
  BY <1>1, <1>2 DEF Drains
<1>6. CreatedOnce(n)
  BY <1>1, <1>3 DEF CreatedOnce
<1>7. \A v : v \in Creating(calls) <=> \E i \in DOMAIN calls : calls[i].kind = "create" /\ v = calls[i].window
  BY DEF Creating
<1>8. \A v : v \in Creating(n) <=> \E i \in DOMAIN n : n[i].kind = "create" /\ v = n[i].window
  BY DEF Creating
<1>9. c.kind = "create" => c.window \in Creating(calls) /\ c.window \notin Creating(n)
  <2> SUFFICES ASSUME c.kind = "create" PROVE c.window \in Creating(calls) /\ c.window \notin Creating(n)
    OBVIOUS
  <2>1. c.window \in Creating(calls)
    BY <1>1, <1>2, <1>7
  <2>2. \A i \in DOMAIN n : n[i].kind = "create" => n[i].window # c.window
    BY <1>1, <1>2, <1>3 DEF CreatedOnce
  <2> QED BY <2>1, <2>2, <1>8
<1>10. \A v : v \in Creating(calls) <=> v \in Creating(n) \/ (c.kind = "create" /\ v = c.window)
  BY <1>1, <1>2, <1>3, <1>7, <1>8
<1>11. /\ c.kind = "create" => Creating(n) = Creating(calls) \ {c.window}
       /\ c.kind # "create" => Creating(n) = Creating(calls)
  BY <1>9, <1>10
<1> QED BY <1>1, <1>4, <1>5, <1>6, <1>9, <1>11 DEF n, c

-----------------------------------------------------------------------------
(* 4. Handlers that may create a popup: what they leave of the context u     *)
(* they work on.                                                             *)

Reports == {"showDetails", "refresh", "exit"}
Formed(u) ==
  /\ UiInv(ui', Creating(stack'), expired) /\ Aged(ui', u)
  /\ stack' \in Seq(Calls) /\ CreatedOnce(stack') /\ events' \in Seq(Reports)
Settled(u) == Formed(u) /\ Wakes(ui', u) /\ (Drains(stack) => Drains(stack'))

LEMMA CreateStep ==
  ASSUME Types, CreatedOnce(stack), NEW u, UiInv(u, Creating(stack), expired),
         NEW kind \in Kinds, NEW emits \in BOOLEAN, CreatePopup(u, kind, emits)
  PROVE  Settled(u)
<1>0. stack \in Seq(Calls) /\ events \in Seq(Reports) /\ u \in Contexts
  BY DEF Types, Reports, UiInv, UiBut
<1>1. CASE \E w \in Windows :
             /\ Free(u, w)
             /\ ui' = [u EXCEPT !.windows[w] = Popup(kind, IF kind = "details" THEN u.details ELSE None)]
             /\ stack' = Append(stack, Waiting("create", w, emits)) /\ UNCHANGED events
  <2>1. PICK w \in Windows :
             /\ Free(u, w)
             /\ ui' = [u EXCEPT !.windows[w] = Popup(kind, IF kind = "details" THEN u.details ELSE None)]
             /\ stack' = Append(stack, Waiting("create", w, emits)) /\ UNCHANGED events
    BY <1>1
  <2>2. PICK data : data = IF kind = "details" THEN u.details ELSE None
    OBVIOUS
  <2>3. data \in Data /\ (kind = "strip" => data = None)
    BY <2>2, <1>0 DEF Contexts, Data
  <2>4. PICK n : n = Recorded(u, w, Popup(kind, data))
    OBVIOUS
  <2>5. ui' = n
    BY <2>1, <2>2, <2>4 DEF Recorded
  <2>6. UiInv(n, Creating(stack) \cup {w}, expired) /\ Aged(n, u) /\ n.posted = u.posted
        /\ w \notin Creating(stack)
    <3>1. Free(u, w)
      BY <2>1
    <3>2. PICK C : C = Creating(stack)
      OBVIOUS
    <3>3. UiInv(u, C, expired)
      BY <3>2
    <3>4. UiInv(n, C \cup {w}, expired) /\ Aged(n, u) /\ n.posted = u.posted /\ w \notin C
      BY <3>1, <3>3, <2>3, <2>4, CreatedKeeps
    <3> QED BY <3>2, <3>4
  <2>7. PICK c : c = Waiting("create", w, emits)
    OBVIOUS
  <2>8. c \in Calls /\ c.kind = "create" /\ c.window = w
    BY <2>7 DEF Waiting, Calls, Handles
  <2>9. /\ Append(stack, c) \in Seq(Calls) /\ CreatedOnce(Append(stack, c))
        /\ Drains(stack) => Drains(Append(stack, c))
        /\ Creating(Append(stack, c)) = Creating(stack) \cup {w}
    BY <2>6, <2>8, <1>0, CallAdded
  <2>10. Wakes(n, u)
    BY <2>6 DEF Wakes, Holds
  <2>11. stack' = Append(stack, c) /\ events' = events
    BY <2>1, <2>7
  <2> QED BY <2>5, <2>6, <2>9, <2>10, <2>11, <1>0 DEF Settled, Formed
<1>2. CASE ui' = u /\ UNCHANGED stack /\ events' = IF emits THEN Append(events, "showDetails") ELSE events
  <2>1. Wakes(u, u)
    BY DEF Wakes
  <2>2. events' \in Seq(Reports)
    BY <1>0, <1>2 DEF Reports
  <2> QED BY <2>1, <2>2, <1>0, <1>2, AgedSelf DEF Settled, Formed
<1> QED BY <1>1, <1>2 DEF CreatePopup

LEMMA ToggleStep ==
  ASSUME Types, CreatedOnce(stack), NEW u, UiInv(u, Creating(stack), expired),
         NEW emits \in BOOLEAN, ToggleDetails(u, emits)
  PROVE  Settled(u)
<1>0. stack \in Seq(Calls) /\ events \in Seq(Reports) /\ u \in Contexts
  BY DEF Types, Reports, UiInv, UiBut
<1>1. CASE IsWindow(u, u.detailsWindow)
  <2>1. /\ ui' = CloseDetails(u) /\ stack' = stack
        /\ events' = IF emits THEN Append(events, "showDetails") ELSE events
    BY <1>1 DEF ToggleDetails
  <2>2. UiInv(CloseDetails(u), Creating(stack), expired) /\ Aged(CloseDetails(u), u)
        /\ Wakes(CloseDetails(u), u)
    BY CloseDetailsKeeps DEF UiInv
  <2>3. events' \in Seq(Reports)
    BY <2>1, <1>0 DEF Reports
  <2> QED BY <2>1, <2>2, <2>3, <1>0 DEF Settled, Formed
<1>2. CASE ~IsWindow(u, u.detailsWindow)
  <2>1. PICK d : d = [u EXCEPT !.detailsWindow = None]
    OBVIOUS
  <2>2. CreatePopup(d, "details", emits)
    BY <2>1, <1>2 DEF ToggleDetails
  <2>3. UiInv(d, Creating(stack), expired) /\ Aged(d, u) /\ d.posted = u.posted
    BY <2>1, DetailsDropped DEF UiInv
  <2>4. Settled(d)
    BY <2>2, <2>3, CreateStep DEF Kinds
  <2>5. Aged(ui', u)
    BY <2>3, <2>4, AgedTransitive DEF Settled, Formed
  <2>6. Wakes(ui', u)
    BY <2>3, <2>4 DEF Settled, Formed, Wakes, Holds
  <2> QED BY <2>4, <2>5, <2>6 DEF Settled, Formed
<1> QED BY <1>1, <1>2

LEMMA ShowStripStep ==
  ASSUME Types, CreatedOnce(stack), NEW u, UiInv(u, Creating(stack), expired), ShowTokenStrip(u)
  PROVE  Settled(u)
<1>0. stack \in Seq(Calls) /\ events \in Seq(Reports) /\ u \in Contexts /\ UiBut(u, Creating(stack), expired, {})
  BY DEF Types, Reports, UiInv, UiBut
<1>1. CASE IsWindow(u, u.stripWindow)
  <2>1. PICK w : w = u.stripWindow
    OBVIOUS
  <2>2. w \in Windows /\ u.windows[w].open /\ w \notin Creating(stack) /\ u.windows[w].data = u.snapshot
    BY <2>1, <1>0, <1>1 DEF IsWindow, UiBut, Contexts, Handles, CreationInv, StripInv
  <2>3. PICK n : n = Deliver(u, w, u.windows[w].data)
    OBVIOUS
  <2>4. ui' = n /\ stack' = stack /\ events' = events
    BY <2>1, <2>2, <2>3, <1>1 DEF ShowTokenStrip
  <2>5. AllBut({}, w, {})
    BY DEF AllBut
  <2>6. UiBut(n, Creating(stack), expired, {}) /\ Aged(n, u) /\ n.posted = u.posted
    BY <2>2, <2>3, <2>5, <1>0, DeliverKeeps
  <2>7. Wakes(n, u)
    BY <2>6 DEF Wakes, Holds
  <2> QED BY <2>4, <2>6, <2>7, <1>0 DEF Settled, Formed, UiInv
<1>2. CASE ~IsWindow(u, u.stripWindow)
  BY <1>2, CreateStep DEF ShowTokenStrip, Kinds
<1> QED BY <1>1, <1>2

LEMMA WakesTransitive ==
  ASSUME NEW u, NEW m, NEW n, Wakes(m, u), Wakes(n, m)
  PROVE  Wakes(n, u)
BY DEF Wakes

LEMMA SettledFrom ==
  ASSUME NEW u, NEW m, Aged(m, u), Wakes(m, u), Settled(m)
  PROVE  Settled(u)
<1>1. Aged(ui', u) /\ Wakes(ui', u)
  BY AgedTransitive, WakesTransitive DEF Settled, Formed
<1> QED BY <1>1 DEF Settled, Formed

-----------------------------------------------------------------------------
(* 5. The queues of commands. *)

LEMMA QueueTail ==
  ASSUME NEW q \in Seq(Commands), q # <<>>
  PROVE  LET t == Tail(q) IN
         /\ t \in Seq(Commands) /\ Head(q) \in Commands
         /\ Rising(q) => Rising(t)
         /\ \A v : Sent(t, v) => Sent(q, v)
         /\ Head(q).op = "snapshot" => Sent(q, Head(q).version)
         /\ \A v : Rising(q) /\ Head(q).op = "snapshot" /\ Sent(t, v) => Head(q).version < v
<1> DEFINE t == Tail(q)
<1>1. /\ t \in Seq(Commands) /\ Head(q) = q[1] /\ Head(q) \in Commands /\ Len(q) \in Nat /\ Len(q) > 0
      /\ DOMAIN q = 1..Len(q) /\ DOMAIN t = 1..(Len(q) - 1) /\ \A i \in DOMAIN t : t[i] = q[i + 1]
  OBVIOUS
<1> HIDE DEF t
<1>2. 1 \in DOMAIN q /\ \A i \in DOMAIN t : i + 1 \in DOMAIN q /\ 1 < i + 1
  BY <1>1
<1>3. \A i, j \in DOMAIN t : i < j => i + 1 < j + 1
  BY <1>1
<1>4. Rising(q) => Rising(t)
  BY <1>1, <1>2, <1>3 DEF Rising
<1>5. \A v : Sent(t, v) => Sent(q, v)
  BY <1>1, <1>2 DEF Sent
<1>6. Head(q).op = "snapshot" => Sent(q, Head(q).version)
  BY <1>1, <1>2 DEF Sent
<1>7. \A v : Rising(q) /\ Head(q).op = "snapshot" /\ Sent(t, v) => Head(q).version < v
  BY <1>1, <1>2 DEF Rising, Sent
<1> QED BY <1>1, <1>4, <1>5, <1>6, <1>7 DEF t

LEMMA QueueAppend ==
  ASSUME NEW q \in Seq(Commands), NEW c \in Commands
  PROVE  LET n == Append(q, c) IN
         /\ n \in Seq(Commands)
         /\ \A v : Sent(n, v) <=> Sent(q, v) \/ (c.op = "snapshot" /\ v = c.version)
         /\ Rising(q) /\ (\A v \in Version : c.op = "snapshot" /\ Sent(q, v) => v < c.version) => Rising(n)
<1> DEFINE n == Append(q, c)
           k == Len(q) + 1
<1>0. \A i \in DOMAIN q : q[i].version \in Version
  <2>1. \A i \in DOMAIN q : q[i] \in Commands
    OBVIOUS
  <2> QED BY <2>1 DEF Commands
<1>1. /\ n \in Seq(Commands) /\ DOMAIN q = 1..Len(q) /\ Len(q) \in Nat /\ DOMAIN n = 1..k
      /\ n[k] = c /\ \A i \in DOMAIN q : n[i] = q[i]
  OBVIOUS
<1>2. k \in DOMAIN n /\ \A i \in DOMAIN q : i < k /\ i # k
  BY <1>1
<1>3. \A i : i \in DOMAIN n <=> i \in DOMAIN q \/ i = k
  BY <1>1
<1>4. ~(k < k) /\ \A i \in DOMAIN q : ~(k < i)
  BY <1>1
<1> HIDE DEF n, k
<1>5. \A v : Sent(n, v) <=> Sent(q, v) \/ (c.op = "snapshot" /\ v = c.version)
  BY <1>1, <1>3 DEF Sent
<1>6. ASSUME Rising(q), \A v \in Version : c.op = "snapshot" /\ Sent(q, v) => v < c.version
      PROVE  Rising(n)
  <2> SUFFICES ASSUME NEW i \in DOMAIN n, NEW j \in DOMAIN n, n[i].op = "snapshot", n[j].op = "snapshot", i < j
               PROVE  n[i].version < n[j].version
    BY DEF Rising
  <2>1. i \in DOMAIN q
    BY <1>3, <1>4
  <2>2. CASE j \in DOMAIN q
    BY <2>1, <2>2, <1>1, <1>6 DEF Rising
  <2>3. CASE j = k
    BY <2>1, <2>3, <1>0, <1>1, <1>6 DEF Sent
  <2> QED BY <2>2, <2>3, <1>3
<1> QED BY <1>1, <1>5, <1>6 DEF n

-----------------------------------------------------------------------------
(* 6. The steps. *)

(* What every step of the window thread leaves alone, but for StripTimer and *)
(* the end of the window.                                                    *)
Calm ==
  /\ expired' = expired /\ version' = version /\ outbox' = outbox /\ waking' = waking
  /\ host' = host /\ runtime' = runtime /\ input' \in 0..MaxInput
  /\ commands' = commands \/ (commands # <<>> /\ commands' = Tail(commands))

LEMMA FewerCommands ==
  ASSUME Types, Calm
  PROVE  /\ commands' \in Seq(Commands) /\ (Rising(commands) => Rising(commands'))
         /\ \A v : Sent(commands', v) => Sent(commands, v)
<1>1. commands \in Seq(Commands) /\ (commands' = commands \/ (commands # <<>> /\ commands' = Tail(commands)))
  BY DEF Types, Calm
<1>2. CASE commands' = commands
  BY <1>1, <1>2
<1>3. CASE commands # <<>> /\ commands' = Tail(commands)
  <2>1. /\ Tail(commands) \in Seq(Commands) /\ (Rising(commands) => Rising(Tail(commands)))
        /\ \A v : Sent(Tail(commands), v) => Sent(commands, v)
    BY <1>1, <1>3, QueueTail
  <2> QED BY <2>1, <1>3
<1> QED BY <1>1, <1>2, <1>3

LEMMA RiseKept ==
  ASSUME Types, RiseInv, Calm, Aged(ui', ui)
  PROVE  RiseInv'
<1>1. /\ commands' \in Seq(Commands) /\ (Rising(commands) => Rising(commands'))
      /\ \A v : Sent(commands', v) => Sent(commands, v)
  BY FewerCommands
<1>2. \A v : NewerThan(ui, expired, v) => NewerThan(ui', expired, v)
  BY AgedNewer
<1>3. expired' = expired /\ version' = version /\ outbox' = outbox
  BY DEF Calm
<1> QED BY <1>1, <1>2, <1>3 DEF RiseInv

LEMMA HandlerKeeps ==
  ASSUME HostInv, Calm, Formed(ui), Woken'
  PROVE  HostInv'
<1>1. RiseInv'
  BY RiseKept DEF HostInv, Formed
<1>2. UiInv(ui, Creating(stack), expired)' /\ CreatedOnce(stack)' /\ ui' \in Contexts
  BY DEF Formed, Calm, UiInv, UiBut
<1>3. commands' \in Seq(Commands)
  BY FewerCommands DEF HostInv
<1>4. Types'
  BY <1>2, <1>3 DEF HostInv, Types, Formed, Calm, Reports
<1> QED BY <1>1, <1>2, <1>4 DEF HostInv

LEMMA SettledKeeps ==
  ASSUME HostInv, Calm, Settled(ui)
  PROVE  HostInv'
<1>1. commands' # <<>> => commands # <<>>
  BY DEF Calm
<1>2. Woken'
  BY <1>1 DEF HostInv, Woken, Calm, Settled, Wakes
<1> QED BY <1>2, HandlerKeeps DEF Settled

(* A message is taken from the queue. *)
LEMMA TakenStep ==
  ASSUME HostInv, NEW to, NEW name, Dispatch(to, name),
         name \notin {"detailsClosed", "stripClosed", "ready"}
  PROVE  /\ UiInv(Taken, Creating(stack), expired) /\ Aged(Taken, ui) /\ host = "running"
         /\ name \notin {"command", "exit"} => Wakes(Taken, ui)
         /\ to \in Windows => Listens(ui, to) /\ Taken.windows = ui.windows
<1>1. PICK u : u = ui
  OBVIOUS
<1>2. PICK C : C = Creating(stack)
  OBVIOUS
<1>3. PICK n : n = Popped(u)
  OBVIOUS
<1>4. UiBut(u, C, expired, {})
  BY <1>1, <1>2 DEF HostInv, UiInv
<1>5. MayTake(u, to, name, {})
  BY <1>1 DEF Dispatch, MayTake
<1>6. /\ UiBut(n, C, expired, {}) /\ Aged(n, u)
      /\ \A a, b : Holds(u, a, b) => Holds(n, a, b) \/ (a = to /\ b = name)
      /\ n.windows = u.windows /\ (to = Owner \/ Listens(u, to))
  <2>1. PICK x : x = expired
    OBVIOUS
  <2>2. PICK E : E = {}
    OBVIOUS
  <2>3. UiBut(u, C, x, E) /\ MayTake(u, to, name, E)
    BY <2>1, <2>2, <1>4, <1>5
  <2>4. /\ UiBut(n, C, x, E) /\ Aged(n, u)
        /\ \A a, b : Holds(u, a, b) => Holds(n, a, b) \/ (a = to /\ b = name)
        /\ n.windows = u.windows /\ (to = Owner \/ Listens(u, to))
    BY <2>3, <1>3, TakenKeeps
  <2> QED BY <2>1, <2>2, <2>4
<1>7. n = Taken
  BY <1>1, <1>3 DEF Popped, Taken
<1>8. name \notin {"command", "exit"} => Wakes(n, u)
  BY <1>6 DEF Wakes
<1>9. to \in Windows => to # Owner
  BY Apart
<1> QED BY <1>1, <1>2, <1>6, <1>7, <1>8, <1>9 DEF UiInv, Dispatch, Pumping

LEMMA StripTaken ==
  ASSUME HostInv, NEW to, NEW name, Dispatch(to, name), name \notin {"detailsClosed", "stripClosed", "ready"}
  PROVE  /\ UiInv(CloseStrip(Taken), Creating(stack), expired) /\ Aged(CloseStrip(Taken), ui)
         /\ name \notin {"command", "exit"} => Wakes(CloseStrip(Taken), ui)
<1>1. /\ UiInv(Taken, Creating(stack), expired) /\ Aged(Taken, ui)
      /\ name \notin {"command", "exit"} => Wakes(Taken, ui)
  BY TakenStep
<1>2. PICK t : t = Taken
  OBVIOUS
<1>3. PICK C : C = Creating(stack)
  OBVIOUS
<1>4. PICK x : x = expired
  OBVIOUS
<1>5. UiBut(t, C, x, {})
  BY <1>1, <1>2, <1>3, <1>4 DEF UiInv
<1>6. UiBut(CloseStrip(t), C, x, {}) /\ Aged(CloseStrip(t), t) /\ Wakes(CloseStrip(t), t)
  BY <1>5, CloseStripKeeps
<1>7. Aged(CloseStrip(t), ui)
  BY <1>1, <1>2, <1>6, AgedTransitive
<1>8. name \notin {"command", "exit"} => Wakes(CloseStrip(t), ui)
  BY <1>1, <1>2, <1>6, WakesTransitive
<1> QED BY <1>2, <1>3, <1>4, <1>6, <1>7, <1>8 DEF UiInv

LEMMA QuietCalm == ASSUME HostInv, Quiet PROVE Calm
BY DEF HostInv, Types, Quiet, Calm, runtimeVars

LEMMA ClickStep ==
  ASSUME HostInv, OnClick \/ OnTray
  PROVE  HostInv'
<1>1. PICK emits \in BOOLEAN, name \in {"click", "tray"} :
        Dispatch(Owner, name) /\ ToggleDetails(CloseStrip(Taken), emits) /\ Quiet
  BY DEF OnClick, OnTray
<1>2. PICK u : u = CloseStrip(Taken)
  OBVIOUS
<1>3. UiInv(u, Creating(stack), expired) /\ Aged(u, ui) /\ Wakes(u, ui)
  BY <1>1, <1>2, StripTaken
<1>4. Settled(u)
  BY <1>1, <1>2, <1>3, ToggleStep DEF HostInv
<1>5. Settled(ui)
  BY <1>3, <1>4, SettledFrom
<1> QED BY <1>1, <1>5, QuietCalm, SettledKeeps

LEMMA CommandStep ==
  ASSUME HostInv, OnCommand
  PROVE  HostInv'
<1>1. PICK c : c = Waiting("drain", None, FALSE)
  OBVIOUS
<1>2. c \in Calls /\ c.kind = "drain"
  BY <1>1 DEF Waiting, Calls, Handles
<1>3. stack \in Seq(Calls) /\ CreatedOnce(stack) /\ events \in Seq(Reports)
  BY DEF HostInv, Types, Reports
<1>4. UiInv(Taken, Creating(stack), expired) /\ Aged(Taken, ui)
  BY TakenStep DEF OnCommand
<1>5. Append(stack, c) \in Seq(Calls) /\ CreatedOnce(Append(stack, c)) /\ Drains(Append(stack, c))
      /\ Creating(Append(stack, c)) = Creating(stack)
  BY <1>2, <1>3, CallAdded
<1>6. ui' = Taken /\ stack' = Append(stack, c) /\ events' = events /\ Calm
  BY <1>1, QuietCalm DEF OnCommand
<1>7. Formed(ui)
  BY <1>3, <1>4, <1>5, <1>6 DEF Formed
<1>8. Woken'
  BY <1>5, <1>6 DEF Woken
<1> QED BY <1>6, <1>7, <1>8, HandlerKeeps

LEMMA MenuStep ==
  ASSUME HostInv, OnMenu
  PROVE  HostInv'
<1>1. PICK c : c = Waiting("menu", None, FALSE)
  OBVIOUS
<1>2. c \in Calls /\ c.kind = "menu"
  BY <1>1 DEF Waiting, Calls, Handles
<1>3. stack \in Seq(Calls) /\ CreatedOnce(stack) /\ events \in Seq(Reports)
  BY DEF HostInv, Types, Reports
<1>4. UiInv(Taken, Creating(stack), expired) /\ Aged(Taken, ui) /\ Wakes(Taken, ui)
  BY TakenStep DEF OnMenu
<1>5. UiInv(CloseStrip(Taken), Creating(stack), expired) /\ Aged(CloseStrip(Taken), ui)
      /\ Wakes(CloseStrip(Taken), ui)
  BY StripTaken DEF OnMenu
<1>6. Append(stack, c) \in Seq(Calls) /\ CreatedOnce(Append(stack, c))
      /\ (Drains(stack) => Drains(Append(stack, c))) /\ Creating(Append(stack, c)) = Creating(stack)
  BY <1>2, <1>3, CallAdded
<1>7. (ui' = Taken \/ ui' = CloseStrip(Taken)) /\ stack' = Append(stack, c) /\ events' = events /\ Calm
  BY <1>1, QuietCalm DEF OnMenu
<1>8. Settled(ui)
  BY <1>3, <1>4, <1>5, <1>6, <1>7 DEF Settled, Formed
<1> QED BY <1>7, <1>8, SettledKeeps

LEMMA CardRequestStep ==
  ASSUME HostInv, OnCardRequest
  PROVE  HostInv'
<1>1. UiInv(Taken, Creating(stack), expired) /\ Aged(Taken, ui) /\ Wakes(Taken, ui)
  BY TakenStep DEF OnCardRequest
<1>2. events' \in Seq(Reports)
  BY DEF OnCardRequest, HostInv, Types, Reports
<1>3. Settled(ui)
  BY <1>1, <1>2 DEF OnCardRequest, Settled, Formed, HostInv, Types
<1> QED BY <1>3, QuietCalm, SettledKeeps DEF OnCardRequest

(* The owner learns that a popup is gone.  The handle is dropped before the  *)
(* message leaves the queue: nothing waits for it then.                      *)
LEMMA DetailsClosedStep ==
  ASSUME HostInv, OnDetailsClosed
  PROVE  HostInv'
<1>1. PICK C : C = Creating(stack)
  OBVIOUS
<1>2. PICK x : x = expired
  OBVIOUS
<1>3. PICK u : u = [ui EXCEPT !.detailsWindow = None]
  OBVIOUS
<1>4. PICK E : E = {}
  OBVIOUS
<1>5. ui \in Contexts /\ UiBut(ui, C, x, E) /\ ui.posted # <<>>
      /\ Head(ui.posted) = [to |-> Owner, name |-> "detailsClosed"]
  BY <1>1, <1>2, <1>4 DEF HostInv, UiInv, UiBut, OnDetailsClosed, Dispatch
<1>6. UiBut(u, C, x, E) /\ Aged(u, ui) /\ u.posted = ui.posted /\ u.detailsWindow = None
  <2>1. PICK o : o = ui
    OBVIOUS
  <2>2. UiBut(o, C, x, E) /\ u = [o EXCEPT !.detailsWindow = None]
    BY <2>1, <1>3, <1>5
  <2> QED BY <2>1, <2>2, DetailsDropped
<1>7. MayTake(u, Owner, "detailsClosed", E)
  BY <1>5, <1>6 DEF MayTake
<1>8. PICK n : n = Popped(u)
  OBVIOUS
<1>9. /\ UiBut(n, C, x, E) /\ Aged(n, u)
      /\ \A a, b : Holds(u, a, b) => Holds(n, a, b) \/ (a = Owner /\ b = "detailsClosed")
  BY <1>6, <1>7, <1>8, TakenKeeps
<1>10. ui' = n
  BY <1>3, <1>5, <1>8 DEF OnDetailsClosed, Taken, Popped, Contexts
<1>11. Wakes(n, ui)
  BY <1>6, <1>9 DEF Wakes, Holds
<1>12. Aged(n, ui)
  BY <1>6, <1>9, AgedTransitive
<1>13. Settled(ui)
  BY <1>1, <1>2, <1>4, <1>9, <1>10, <1>11, <1>12
     DEF OnDetailsClosed, Settled, Formed, HostInv, Types, Reports, UiInv
<1> QED BY <1>13, QuietCalm, SettledKeeps DEF OnDetailsClosed

LEMMA StripClosedStep ==
  ASSUME HostInv, OnStripClosed
  PROVE  HostInv'
<1>1. PICK C : C = Creating(stack)
  OBVIOUS
<1>2. PICK x : x = expired
  OBVIOUS
<1>3. PICK u : u = NoStrip(ui)
  OBVIOUS
<1>4. PICK E : E = {}
  OBVIOUS
<1>5. ui \in Contexts /\ UiBut(ui, C, x, E) /\ ui.posted # <<>>
      /\ Head(ui.posted) = [to |-> Owner, name |-> "stripClosed"]
  BY <1>1, <1>2, <1>4 DEF HostInv, UiInv, UiBut, OnStripClosed, Dispatch
<1>6. UiBut(u, C, x, E) /\ Aged(u, ui) /\ u.posted = ui.posted /\ u.stripWindow = None /\ u.snapshot = None
  <2>1. PICK o : o = ui
    OBVIOUS
  <2>2. UiBut(o, C, x, E) /\ u = NoStrip(o)
    BY <2>1, <1>3, <1>5
  <2> QED BY <2>1, <2>2, StripDropped
<1>7. MayTake(u, Owner, "stripClosed", E)
  BY <1>5, <1>6 DEF MayTake
<1>8. PICK n : n = Popped(u)
  OBVIOUS
<1>9. /\ UiBut(n, C, x, E) /\ Aged(n, u)
      /\ \A a, b : Holds(u, a, b) => Holds(n, a, b) \/ (a = Owner /\ b = "stripClosed")
  BY <1>6, <1>7, <1>8, TakenKeeps
<1>10. ui' = n
  BY <1>3, <1>5, <1>8 DEF OnStripClosed, StripClosed, Taken, Popped, Contexts, NoStrip
<1>11. Wakes(n, ui)
  BY <1>6, <1>9 DEF Wakes, Holds
<1>12. Aged(n, ui)
  BY <1>6, <1>9, AgedTransitive
<1>13. Settled(ui)
  BY <1>1, <1>2, <1>4, <1>9, <1>10, <1>11, <1>12
     DEF OnStripClosed, Settled, Formed, HostInv, Types, Reports, UiInv
<1> QED BY <1>13, QuietCalm, SettledKeeps DEF OnStripClosed

(* The window is gone: nothing is left that could be forgotten or stale.     *)
LEMMA NoWindowsKeeps == UiInv(NoWindows, {}, 0)
<1>1. /\ NoWindows.posted = <<>> /\ NoWindows.detailsWindow = None /\ NoWindows.stripWindow = None
      /\ NoWindows.snapshot = None /\ \A w \in Windows : NoWindows.windows[w] = Unused
  BY DEF NoWindows
<1>2. NoWindows \in Contexts
  BY UnusedRecord, Apart DEF NoWindows, Contexts, Handles, Data
<1> QED
  BY <1>1, <1>2, UnusedRecord
     DEF UiInv, UiBut, RecordInv, HandleInv, CreationInv, AddressInv, Listens, SettleInv, PageInv, StripInv, HoverInv

LEMMA GoneStep ==
  ASSUME HostInv, WindowGone, input' \in 0..MaxInput
  PROVE  HostInv'
<1>1. /\ ui' = NoWindows /\ stack' = <<>> /\ commands' = <<>> /\ expired' = 0
      /\ events' = events /\ runtime' = runtime /\ outbox' = outbox /\ waking' = waking /\ version' = version
      /\ host' \in {"ended", "undefined"}
  BY DEF WindowGone, runtimeVars
<1>2. Creating(<<>>) = {} /\ CreatedOnce(<<>>) /\ Rising(<<>>) /\ (\A v : ~Sent(<<>>, v))
  BY DEF Creating, CreatedOnce, Rising, Sent
<1>3. UiInv(ui, Creating(stack), expired)' /\ ui' \in Contexts
  BY <1>1, <1>2, NoWindowsKeeps DEF UiInv, UiBut
<1>4. Types'
  BY <1>1, <1>3, Apart DEF HostInv, Types
<1>5. \A v \in Version : NewerThan(ui, expired, v) => NewerThan(ui', expired', v)
  <2> SUFFICES ASSUME NEW v \in Version, v > expired PROVE NewerThan(ui', expired', v)
    BY DEF NewerThan
  <2>1. v > 0
    BY Apart DEF HostInv, Types, Version
  <2>2. \A w \in Windows : NoWindows.windows[w].kind = "none"
    BY UnusedRecord DEF NoWindows
  <2>3. NoWindows.snapshot = None
    BY DEF NoWindows
  <2> QED BY <2>1, <2>2, <2>3, <1>1 DEF NewerThan
<1>6. RiseInv'
  BY <1>1, <1>2, <1>5 DEF HostInv, RiseInv
<1>7. Woken'
  BY <1>1 DEF Woken
<1> QED BY <1>1, <1>2, <1>3, <1>4, <1>6, <1>7 DEF HostInv

LEMMA UserActsTypes == ASSUME HostInv, UserActs PROVE input' \in 0..MaxInput
BY HostAssumption DEF HostInv, Types, UserActs

LEMMA MouseStep ==
  ASSUME HostInv, OnMouseMove \/ OnMouseLeave
  PROVE  HostInv'
<1>0. PICK b \in BOOLEAN : (b = TRUE /\ OnMouseMove) \/ (b = FALSE /\ OnMouseLeave)
  OBVIOUS
<1>1. PICK u : u = [ui EXCEPT !.tracking = b]
  OBVIOUS
<1>2. PICK C : C = Creating(stack)
  OBVIOUS
<1>3. PICK x : x = expired
  OBVIOUS
<1>4. UiInv(u, C, x) /\ Aged(u, ui) /\ u.posted = ui.posted
  <2>1. PICK o : o = ui
    OBVIOUS
  <2>2. UiInv(o, C, x) /\ u = [o EXCEPT !.tracking = b]
    BY <2>1, <1>1, <1>2, <1>3 DEF HostInv
  <2> QED BY <2>1, <2>2, TrackingKeeps
<1>5. Wakes(u, ui)
  BY <1>4 DEF Wakes, Holds
<1>6. stack \in Seq(Calls) /\ CreatedOnce(stack) /\ events \in Seq(Reports) /\ Types
  BY DEF HostInv, Types, Reports
<1>7. CASE b = TRUE /\ OnMouseMove
  <2>1. u = [ui EXCEPT !.tracking = TRUE]
    BY <1>1, <1>7
  <2>2. Calm
    BY <1>7, UserActsTypes DEF OnMouseMove, Calm, runtimeVars
  <2>3. CASE ui' = u /\ UNCHANGED <<stack, events>>
    BY <2>3, <2>2, <1>2, <1>3, <1>4, <1>5, <1>6, SettledKeeps DEF Settled, Formed
  <2>4. CASE ShowTokenStrip(u)
    <3>1. Settled(u)
      BY <2>4, <1>2, <1>3, <1>4, <1>6, ShowStripStep
    <3> QED BY <3>1, <2>2, <1>4, <1>5, SettledFrom, SettledKeeps
  <2> QED BY <2>1, <2>3, <2>4, <1>7 DEF OnMouseMove
<1>8. CASE b = FALSE /\ OnMouseLeave
  <2>1. u = [ui EXCEPT !.tracking = FALSE]
    BY <1>1, <1>8
  <2>2. Calm
    BY <1>8 DEF OnMouseLeave, Calm, runtimeVars, HostInv, Types
  <2>3. UiBut(u, C, x, {})
    BY <1>4 DEF UiInv
  <2>4. UiBut(CloseStrip(u), C, x, {}) /\ Aged(CloseStrip(u), u) /\ Wakes(CloseStrip(u), u)
    BY <2>3, CloseStripKeeps
  <2>5. ui' = CloseStrip(u) /\ UNCHANGED <<stack, events>>
    BY <2>1, <1>8 DEF OnMouseLeave
  <2>6. Settled(u)
    BY <2>4, <2>5, <1>2, <1>3, <1>6 DEF Settled, Formed, UiInv
  <2> QED BY <2>2, <2>6, <1>4, <1>5, SettledFrom, SettledKeeps
<1> QED BY <1>0, <1>7, <1>8

(* A handler that only changes the context.                                  *)
LEMMA ContextStep ==
  ASSUME HostInv, Calm, UNCHANGED <<stack, events>>,
         UiInv(ui', Creating(stack), expired), Aged(ui', ui), Wakes(ui', ui)
  PROVE  HostInv'
<1>1. Settled(ui)
  BY DEF Settled, Formed, HostInv, Types, Reports
<1> QED BY <1>1, SettledKeeps

LEMMA PopupStep ==
  ASSUME HostInv, NEW w \in Windows, OnReady(w) \/ OnPageRequest(w) \/ PageReady(w) \/ PageRequests(w)
  PROVE  HostInv'
<1>1. PICK C : C = Creating(stack)
  OBVIOUS
<1>2. PICK x : x = expired
  OBVIOUS
<1>3. PICK u : u = ui
  OBVIOUS
<1>4. UiInv(u, C, x) /\ UiBut(u, C, x, {}) /\ Types
  BY <1>1, <1>2, <1>3 DEF HostInv, UiInv
<1>5. Calm /\ UNCHANGED <<stack, events>>
  BY QuietCalm DEF OnReady, OnPageRequest, PageReady, PageRequests
<1>6. SUFFICES UiInv(ui', C, x) /\ Aged(ui', u) /\ Wakes(ui', u)
  BY <1>1, <1>2, <1>3, <1>5, ContextStep
<1>7. CASE OnReady(w)
  <2>1. u.posted # <<>> /\ Head(u.posted) = [to |-> w, name |-> "ready"]
        /\ ui' = Deliver(Popped(u), w, u.windows[w].data)
    BY <1>3, <1>7 DEF OnReady, Dispatch, Taken, Popped
  <2> QED BY <2>1, <1>4, OnReadyKeeps
<1>8. CASE OnPageRequest(w)
  <2>1. /\ UiInv(Taken, C, x) /\ Aged(Taken, u) /\ Wakes(Taken, u)
        /\ Listens(u, w) /\ Taken.windows = u.windows
    BY <1>1, <1>2, <1>3, <1>8, TakenStep DEF OnPageRequest
  <2>2. PICK t : t = Taken
    OBVIOUS
  <2>3. PICK p : p = Posted(t, Owner, "refresh")
    OBVIOUS
  <2>4. Owner \in Windows \cup {Owner} /\ "refresh" \in Names /\ UiBut(t, C, x, {})
    BY <2>1, <2>2 DEF Names, UiInv
  <2>5. /\ UiBut(p, C, x, {}) /\ Aged(p, t) /\ p.windows = t.windows
        /\ \A a, b : Holds(t, a, b) => Holds(p, a, b)
    BY <2>3, <2>4, PostedKeeps
  <2>6. Aged(p, u) /\ Wakes(p, u)
    <3>1. Wakes(p, t)
      BY <2>5 DEF Wakes
    <3> QED BY <3>1, <2>1, <2>2, <2>5, AgedTransitive, WakesTransitive
  <2>7. w \notin C
    BY <2>1, <1>4 DEF Listens, UiBut, CreationInv
  <2>8. p.windows[w].open
    BY <2>1, <2>2, <2>5 DEF Listens
  <2>9. /\ UiBut(Destroyed(p, w), C, x, {}) /\ Aged(Destroyed(p, w), p) /\ Wakes(Destroyed(p, w), p)
    BY <2>5, <2>7, <2>8, DestroyedKeeps
  <2>10. ui' = Destroyed(p, w)
    BY <2>2, <2>3, <1>8 DEF OnPageRequest
  <2> QED BY <2>6, <2>9, <2>10, AgedTransitive, WakesTransitive DEF UiInv
<1>9. CASE PageReady(w)
  <2>1. u.windows[w].open /\ u.windows[w].page = "loading"
        /\ ui' = Posted([u EXCEPT !.windows[w].page = "ready"], w, "ready")
    BY <1>3, <1>9 DEF PageReady
  <2> QED BY <2>1, <1>4, PageReadyKeeps
<1>10. CASE PageRequests(w)
  <2>1. Listens(u, w) /\ w \in Windows \cup {Owner} /\ "refresh" \in Names
    BY <1>3, <1>10 DEF PageRequests, Shown, Names, Listens
  <2>2. PICK p : p = Posted(u, w, "refresh")
    OBVIOUS
  <2>3. UiBut(p, C, x, {}) /\ Aged(p, u) /\ \A a, b : Holds(u, a, b) => Holds(p, a, b)
    BY <2>1, <2>2, <1>4, PostedKeeps
  <2>4. ui' = p
    BY <2>2, <1>3, <1>10 DEF PageRequests
  <2> QED BY <2>3, <2>4 DEF UiInv, Wakes
<1> QED BY <1>7, <1>8, <1>9, <1>10

-----------------------------------------------------------------------------
(* 7. The commands. *)

LEMMA DrainCalm ==
  ASSUME HostInv, Draining, Drained, commands' = commands \/ (commands # <<>> /\ commands' = Tail(commands))
  PROVE  /\ Calm /\ stack \in Seq(Calls) /\ stack # <<>> /\ CreatedOnce(stack) /\ Last(stack).kind = "drain"
         /\ Drains(stack) /\ events \in Seq(Reports) /\ Types
<1>1. stack \in Seq(Calls) /\ CreatedOnce(stack) /\ events \in Seq(Reports) /\ Types
  BY DEF HostInv, Types, Reports
<1>2. stack # <<>> /\ Last(stack).kind = "drain"
  BY DEF Draining, Top, Waiting
<1>3. Drains(stack)
  BY <1>1, <1>2, CallEnds
<1>4. Calm
  BY DEF Calm, Drained, runtimeVars, HostInv, Types
<1> QED BY <1>1, <1>2, <1>3, <1>4

LEMMA DrainStep ==
  ASSUME HostInv, DrainDetails \/ DrainShowDetails \/ DrainShowStrip \/ DrainAttach
  PROVE  HostInv'
<1>1. PICK C : C = Creating(stack)
  OBVIOUS
<1>2. PICK x : x = expired
  OBVIOUS
<1>3. PICK u : u = ui
  OBVIOUS
<1>4. UiInv(u, C, x) /\ UiBut(u, C, x, {}) /\ Types
  BY <1>1, <1>2, <1>3 DEF HostInv, UiInv
<1>5. Draining /\ Drained /\ commands # <<>> /\ commands' = Tail(commands)
  BY DEF DrainDetails, DrainShowDetails, DrainShowStrip, DrainAttach, Command
<1>6. Calm /\ stack \in Seq(Calls) /\ CreatedOnce(stack) /\ events \in Seq(Reports)
  BY <1>5, DrainCalm
<1>7. UiInv(CloseStrip(u), C, x) /\ UiBut(CloseStrip(u), C, x, {}) /\ Aged(CloseStrip(u), u)
      /\ Wakes(CloseStrip(u), u)
  BY <1>4, CloseStripKeeps DEF UiInv
<1>8. CASE DrainDetails
  <2>1. PICK v : v = Head(commands).version
    OBVIOUS
  <2>2. v \in Version
    <3>1. commands \in Seq(Commands)
      BY <1>4 DEF Types
    <3>2. Head(commands) \in Commands
      BY <3>1, <1>5, QueueTail
    <3> QED BY <3>2, <2>1 DEF Commands
  <2>3. UiInv(UpdateDetails(u, v), C, x) /\ Aged(UpdateDetails(u, v), u) /\ Wakes(UpdateDetails(u, v), u)
    BY <2>2, <1>4, UpdateDetailsKeeps
  <2>4. ui' = UpdateDetails(u, v) /\ UNCHANGED <<stack, events>>
    BY <2>1, <1>3, <1>8 DEF DrainDetails
  <2> QED BY <2>3, <2>4, <1>1, <1>2, <1>3, <1>6, ContextStep
<1>9. CASE DrainShowDetails
  <2>1. PICK c : c = CloseStrip(u)
    OBVIOUS
  <2>2. UiInv(c, C, x) /\ UiBut(c, C, x, {}) /\ Aged(c, u) /\ Wakes(c, u)
    BY <2>1, <1>7
  <2>3. CASE ui' = c /\ UNCHANGED <<stack, events>>
    BY <2>2, <2>3, <1>1, <1>2, <1>3, <1>6, ContextStep
  <2>4. CASE CreatePopup([c EXCEPT !.detailsWindow = None], "details", FALSE)
    <3>1. PICK d : d = [c EXCEPT !.detailsWindow = None]
      OBVIOUS
    <3>2. UiBut(d, C, x, {}) /\ Aged(d, c) /\ d.posted = c.posted
      BY <3>1, <2>2, DetailsDropped
    <3>3. UiInv(d, Creating(stack), expired)
      BY <3>2, <1>1, <1>2 DEF UiInv
    <3>4. CreatePopup(d, "details", FALSE) /\ "details" \in Kinds
      BY <3>1, <2>4 DEF Kinds
    <3>5. Settled(d)
      BY <3>3, <3>4, <1>4, <1>6, CreateStep
    <3>6. Wakes(d, c)
      BY <3>2 DEF Wakes, Holds
    <3>7. Settled(c)
      BY <3>2, <3>5, <3>6, SettledFrom
    <3> QED BY <3>7, <2>2, <1>3, <1>6, SettledFrom, SettledKeeps
  <2> QED BY <2>1, <2>3, <2>4, <1>3, <1>9 DEF DrainShowDetails
<1>10. CASE DrainShowStrip
  <2>1. CASE ui' = CloseStrip(u) /\ UNCHANGED <<stack, events>>
    BY <2>1, <1>1, <1>2, <1>3, <1>6, <1>7, ContextStep
  <2>2. CASE ShowTokenStrip(ui)
    <3>1. ShowTokenStrip(u) /\ UiInv(u, Creating(stack), expired)
      BY <2>2, <1>1, <1>2, <1>3, <1>4
    <3>2. Settled(u)
      BY <3>1, <1>4, <1>6, ShowStripStep
    <3> QED BY <3>2, <1>3, <1>6, SettledKeeps
  <2> QED BY <2>1, <2>2, <1>3, <1>10 DEF DrainShowStrip
<1>11. CASE DrainAttach
  <2>1. PICK c : c = CloseDetails(u)
    OBVIOUS
  <2>2. UiBut(c, C, x, {}) /\ Aged(c, u) /\ Wakes(c, u)
    BY <2>1, <1>4, CloseDetailsKeeps
  <2>3. UiBut(CloseStrip(c), C, x, {}) /\ Aged(CloseStrip(c), c) /\ Wakes(CloseStrip(c), c)
    BY <2>2, CloseStripKeeps
  <2>4. UiInv(CloseStrip(c), C, x) /\ Aged(CloseStrip(c), u) /\ Wakes(CloseStrip(c), u)
    BY <2>2, <2>3, AgedTransitive, WakesTransitive DEF UiInv
  <2>5. UiInv(u, C, x) /\ Aged(u, u) /\ Wakes(u, u)
    BY <1>4, AgedSelf DEF Wakes
  <2>6. (ui' = CloseStrip(c) \/ ui' = u) /\ UNCHANGED <<stack, events>>
    BY <2>1, <1>3, <1>11 DEF DrainAttach
  <2> QED BY <2>4, <2>5, <2>6, <1>1, <1>2, <1>3, <1>6, ContextStep
<1> QED BY <1>8, <1>9, <1>10, <1>11

LEMMA DrainSnapshotStep ==
  ASSUME HostInv, DrainSnapshot
  PROVE  HostInv'
<1>1. PICK C : C = Creating(stack)
  OBVIOUS
<1>2. PICK x : x = expired
  OBVIOUS
<1>3. PICK u : u = ui
  OBVIOUS
<1>4. PICK v : v = Head(commands).version
  OBVIOUS
<1>5. UiInv(u, C, x) /\ Types /\ RiseInv /\ x \in Version /\ version \in Version
  BY <1>1, <1>2, <1>3 DEF HostInv, Types
<1>6. Draining /\ Drained /\ commands # <<>> /\ commands' = Tail(commands) /\ Head(commands).op = "snapshot"
  BY DEF DrainSnapshot, Command
<1>7. Calm /\ stack \in Seq(Calls) /\ CreatedOnce(stack) /\ events \in Seq(Reports)
  BY <1>6, DrainCalm
<1>8. /\ commands' \in Seq(Commands) /\ Rising(commands') /\ v \in Version
      /\ \A k : Sent(commands', k) => Sent(commands, k) /\ v < k
      /\ Sent(commands, v)
  <2>1. commands \in Seq(Commands) /\ Rising(commands)
    BY <1>5 DEF Types, RiseInv
  <2>2. /\ Tail(commands) \in Seq(Commands) /\ Head(commands) \in Commands /\ Rising(Tail(commands))
        /\ \A k : Sent(Tail(commands), k) => Sent(commands, k) /\ Head(commands).version < k
        /\ Sent(commands, Head(commands).version)
    BY <2>1, <1>6, QueueTail
  <2> QED BY <2>2, <1>4, <1>6 DEF Commands
<1>9. PICK n : n = UpdateStripSnapshot(u, v)
  OBVIOUS
<1>10. NewerThan(u, x, v)
  BY <1>2, <1>3, <1>5, <1>8 DEF RiseInv
<1>11. /\ UiInv(n, C, x) /\ Wakes(n, u)
       /\ \A k \in Version : k > v /\ NewerThan(u, x, k) => NewerThan(n, x, k)
  BY <1>5, <1>8, <1>9, <1>10, UpdateStripKeeps
<1>12. ui' = n /\ stack' = stack /\ events' = events
  BY <1>3, <1>4, <1>9 DEF DrainSnapshot
<1>13. \A k \in Version : (Sent(commands', k) \/ Sent(outbox, k) \/ k > version) => NewerThan(n, x, k)
  <2> SUFFICES ASSUME NEW k \in Version, Sent(commands', k) \/ Sent(outbox, k) \/ k > version
               PROVE  k > v /\ NewerThan(u, x, k)
    BY <1>11
  <2>1. CASE Sent(commands', k)
    BY <2>1, <1>2, <1>3, <1>5, <1>8, Apart DEF RiseInv
  <2>2. CASE Sent(outbox, k)
    BY <2>2, <1>2, <1>3, <1>5, <1>8, Apart DEF RiseInv
  <2>3. CASE k > version
    <3>1. v <= version
      BY <1>5, <1>8 DEF RiseInv
    <3>2. k > v
      BY <2>3, <3>1, <1>5, <1>8, Apart
    <3> QED BY <2>3, <3>2, <1>2, <1>3, <1>5 DEF RiseInv
  <2> QED BY <2>1, <2>2, <2>3
<1>14. RiseInv'
  BY <1>2, <1>5, <1>7, <1>8, <1>12, <1>13 DEF RiseInv, Calm
<1>15. Woken'
  BY <1>6, <1>3, <1>7, <1>11, <1>12 DEF HostInv, Woken, Calm, Wakes
<1>16. UiInv(ui, Creating(stack), expired)' /\ ui' \in Contexts /\ CreatedOnce(stack)'
  BY <1>1, <1>2, <1>7, <1>11, <1>12 DEF UiInv, UiBut, Calm
<1>17. Types'
  BY <1>5, <1>7, <1>8, <1>12, <1>16 DEF Types, Calm
<1> QED BY <1>14, <1>15, <1>16, <1>17 DEF HostInv

LEMMA DrainEndStep ==
  ASSUME HostInv, DrainExit \/ DrainEnd
  PROVE  HostInv'
<1>1. Draining /\ Drained /\ (commands' = commands \/ (commands # <<>> /\ commands' = Tail(commands)))
      /\ stack' = Front(stack) /\ events' = events
  BY DEF DrainExit, DrainEnd, Command
<1>2. /\ Calm /\ stack \in Seq(Calls) /\ stack # <<>> /\ CreatedOnce(stack) /\ Last(stack).kind = "drain"
      /\ events \in Seq(Reports) /\ Types
  BY <1>1, DrainCalm
<1>3. stack' \in Seq(Calls) /\ CreatedOnce(stack') /\ Creating(stack') = Creating(stack)
  BY <1>1, <1>2, CallEnds
<1>4. CASE DrainExit
  <2>1. PICK u : u = ui
    OBVIOUS
  <2>2. PICK C : C = Creating(stack)
    OBVIOUS
  <2>3. PICK n : n = Posted(u, Owner, "exit")
    OBVIOUS
  <2>4. UiBut(u, C, expired, {}) /\ Owner \in Windows \cup {Owner} /\ "exit" \in Names
    BY <2>1, <2>2 DEF HostInv, UiInv, Names
  <2>5. UiBut(n, C, expired, {}) /\ Aged(n, u) /\ Holds(n, Owner, "exit")
    BY <2>3, <2>4, PostedKeeps
  <2>6. ui' = n
    BY <2>1, <2>3, <1>4 DEF DrainExit
  <2>7. Formed(ui)
    BY <2>1, <2>2, <2>5, <2>6, <1>1, <1>2, <1>3 DEF Formed, UiInv
  <2>8. Woken'
    BY <2>5, <2>6 DEF Woken
  <2> QED BY <2>7, <2>8, <1>2, HandlerKeeps
<1>5. CASE DrainEnd
  <2>1. ui' = ui /\ commands' = <<>>
    BY <1>5 DEF DrainEnd
  <2>2. Formed(ui)
    BY <2>1, <1>1, <1>2, <1>3, AgedSelf DEF Formed, HostInv
  <2>3. Woken'
    BY <2>1 DEF Woken
  <2> QED BY <2>2, <2>3, <1>2, HandlerKeeps
<1> QED BY <1>4, <1>5

-----------------------------------------------------------------------------
(* 8. The ends of the nested loops, and the popups that close. *)

LEMMA CreateFinishStep ==
  ASSUME HostInv, CreateFinish
  PROVE  HostInv'
<1>1. PICK u : u = ui
  OBVIOUS
<1>2. PICK C : C = Creating(stack)
  OBVIOUS
<1>3. PICK x : x = expired
  OBVIOUS
<1>4. PICK w : w = Last(stack).window
  OBVIOUS
<1>5. PICK n : n = Registered(u, w)
  OBVIOUS
<1>6. stack \in Seq(Calls) /\ CreatedOnce(stack) /\ events \in Seq(Reports) /\ UiInv(u, C, x)
  BY <1>1, <1>2, <1>3 DEF HostInv, Types, Reports
<1>7. stack # <<>> /\ Last(stack).kind = "create" /\ Top = Last(stack)
  BY DEF CreateFinish, Top, Waiting
<1>8. /\ Front(stack) \in Seq(Calls) /\ CreatedOnce(Front(stack)) /\ w \in C
      /\ Creating(Front(stack)) = C \ {w} /\ (Drains(stack) => Drains(Front(stack)))
  BY <1>2, <1>4, <1>6, <1>7, CallEnds
<1>9. UiInv(n, C \ {w}, x) /\ Aged(n, u) /\ n.posted = u.posted
  BY <1>5, <1>6, <1>8, RegisteredKeeps
<1>10. Wakes(n, u)
  BY <1>9 DEF Wakes, Holds
<1>11. ui' = n /\ stack' = Front(stack) /\ Calm
  BY <1>1, <1>4, <1>5, <1>7, QuietCalm DEF CreateFinish
<1>12. events' \in Seq(Reports)
  <2>1. events' = Append(events, "showDetails") \/ events' = events
    BY DEF CreateFinish
  <2> QED BY <2>1, <1>6 DEF Reports
<1>13. Settled(ui)
  BY <1>1, <1>3, <1>8, <1>9, <1>10, <1>11, <1>12 DEF Settled, Formed
<1> QED BY <1>11, <1>13, SettledKeeps

LEMMA MenuEndStep ==
  ASSUME HostInv, MenuEnd
  PROVE  HostInv'
<1>1. stack \in Seq(Calls) /\ CreatedOnce(stack) /\ events \in Seq(Reports)
  BY DEF HostInv, Types, Reports
<1>2. stack # <<>> /\ Last(stack).kind = "menu"
  BY DEF MenuEnd, Top, Waiting
<1>3. /\ Front(stack) \in Seq(Calls) /\ CreatedOnce(Front(stack))
      /\ Creating(Front(stack)) = Creating(stack) /\ (Drains(stack) => Drains(Front(stack)))
  BY <1>1, <1>2, CallEnds
<1>4. ui' = ui /\ stack' = Front(stack) /\ Calm
  BY QuietCalm DEF MenuEnd
<1>5. events' \in Seq(Reports)
  <2>1. PICK choice \in MenuChoices : events' = events \o choice
    BY DEF MenuEnd
  <2>2. choice \in Seq(Reports)
    <3>1. <<>> \in Seq(Reports)
      OBVIOUS
    <3>2. <<"showDetails">> \in Seq(Reports)
      BY DEF Reports
    <3>3. <<"exit">> \in Seq(Reports)
      BY DEF Reports
    <3> QED BY <3>1, <3>2, <3>3 DEF MenuChoices
  <2> QED BY <2>1, <2>2, <1>1
<1>6. Wakes(ui, ui)
  BY DEF Wakes
<1>7. Settled(ui)
  BY <1>3, <1>4, <1>5, <1>6, AgedSelf DEF Settled, Formed, HostInv
<1> QED BY <1>4, <1>7, SettledKeeps

(* A popup that nobody waits for is destroyed, by the user or by its timer.  *)
LEMMA ShownDestroyed ==
  ASSUME HostInv, NEW w \in Windows, NEW kind \in Kinds, Shown(w, kind), NEW n, n = Destroyed(ui, w)
  PROVE  /\ UiInv(n, Creating(stack), expired) /\ Aged(n, ui) /\ Wakes(n, ui)
         /\ kind = "strip" => Holds(n, Owner, "stripClosed")
<1>1. PICK u : u = ui
  OBVIOUS
<1>2. PICK C : C = Creating(stack)
  OBVIOUS
<1>3. PICK x : x = expired
  OBVIOUS
<1>4. UiBut(u, C, x, {}) /\ u.windows[w].open /\ u.windows[w].kind = kind /\ w \notin C
  BY <1>1, <1>2, <1>3 DEF HostInv, UiInv, UiBut, CreationInv, Shown
<1>5. UiBut(Destroyed(u, w), C, x, {}) /\ Aged(Destroyed(u, w), u) /\ Wakes(Destroyed(u, w), u)
      /\ (kind = "strip" => Holds(Destroyed(u, w), Owner, "stripClosed"))
  <2>1. UiBut(Destroyed(u, w), C, x, {}) /\ Aged(Destroyed(u, w), u) /\ Wakes(Destroyed(u, w), u)
        /\ Holds(Destroyed(u, w), Owner, IF u.windows[w].kind = "details" THEN "detailsClosed" ELSE "stripClosed")
    BY <1>4, DestroyedKeeps
  <2> QED BY <2>1, <1>4
<1> QED BY <1>1, <1>2, <1>3, <1>5 DEF UiInv

LEMMA UserStep ==
  ASSUME HostInv, UserPosts \/ \E w \in Windows : ClosedByUser(w)
  PROVE  HostInv'
<1>1. CASE UserPosts
  <2>1. PICK name \in {"click", "tray", "menu"} : ui' = Posted(ui, Owner, name)
    BY <1>1 DEF UserPosts
  <2>2. PICK u : u = ui
    OBVIOUS
  <2>3. PICK C : C = Creating(stack)
    OBVIOUS
  <2>4. UiBut(u, C, expired, {}) /\ Owner \in Windows \cup {Owner} /\ name \in Names
    BY <2>2, <2>3 DEF HostInv, UiInv, Names
  <2>5. PICK n : n = Posted(u, Owner, name)
    OBVIOUS
  <2>6. UiBut(n, C, expired, {}) /\ Aged(n, u) /\ \A a, b : Holds(u, a, b) => Holds(n, a, b)
    BY <2>4, <2>5, PostedKeeps
  <2>7. Calm /\ UNCHANGED <<stack, events>>
    BY <1>1, UserActsTypes DEF UserPosts, Calm, runtimeVars
  <2> QED BY <2>1, <2>2, <2>3, <2>5, <2>6, <2>7, ContextStep DEF UiInv, Wakes
<1>2. ASSUME NEW w \in Windows, ClosedByUser(w) PROVE HostInv'
  <2>1. PICK kind \in Kinds : Shown(w, kind)
    BY <1>2 DEF ClosedByUser, Kinds
  <2>2. ui' = Destroyed(ui, w)
    BY <1>2 DEF ClosedByUser
  <2>3. UiInv(ui', Creating(stack), expired) /\ Aged(ui', ui) /\ Wakes(ui', ui)
    BY <2>1, <2>2, ShownDestroyed
  <2>4. Calm /\ UNCHANGED <<stack, events>>
    BY <1>2, UserActsTypes DEF ClosedByUser, Calm, runtimeVars
  <2> QED BY <2>3, <2>4, ContextStep
<1> QED BY <1>1, <1>2

LEMMA LaterOf ==
  ASSUME NEW a \in Version, NEW d \in Data, NEW m, m = Max({a} \cup ({d} \ {None}))
  PROVE  /\ m \in Version
         /\ \A v \in Version : v > a /\ (d # None => v > d) => v > m
<1>1. a \in Nat /\ (d # None => d \in Nat /\ d \in Version)
  BY Apart DEF Data
<1>2. CASE d = None
  <2>1. {a} \cup ({d} \ {None}) = {a}
    BY <1>2
  <2>2. a >= a
    BY <1>1
  <2>3. m = a
    BY <2>1, <2>2 DEF Max
  <2> QED BY <2>3, <1>2
<1>3. CASE d # None
  <2>1. {a} \cup ({d} \ {None}) = {a, d}
    BY <1>3
  <2>2. a >= d \/ d >= a
    BY <1>1, <1>3
  <2>3. a >= a /\ d >= d
    BY <1>1, <1>3
  <2>4. \E x \in {a, d} : \A y \in {a, d} : x >= y
    BY <2>2, <2>3
  <2>5. m \in {a, d}
    BY <2>1, <2>4 DEF Max
  <2> QED BY <2>5, <1>1, <1>3
<1> QED BY <1>2, <1>3

(* The timer of a strip: what it showed has expired.                         *)
LEMMA TimerStep ==
  ASSUME HostInv, NEW w \in Windows, StripTimer(w)
  PROVE  HostInv'
<1>1. PICK d : d = ui.windows[w].data
  OBVIOUS
<1>2. d \in Data /\ ui.windows[w].kind = "strip" /\ expired \in Version
  BY <1>1 DEF HostInv, Types, Contexts, Records, StripTimer, Shown
<1>3. /\ UiInv(ui', Creating(stack), expired) /\ Aged(ui', ui) /\ Wakes(ui', ui)
      /\ Holds(ui', Owner, "stripClosed")
  BY ShownDestroyed DEF StripTimer, Kinds
<1>4. /\ stack' = stack /\ commands' = commands /\ events' = events /\ host' = host /\ runtime' = runtime
      /\ outbox' = outbox /\ waking' = waking /\ version' = version /\ input' = input
  BY DEF StripTimer, runtimeVars
<1>5. expired' \in Version /\ \A v \in Version : v > expired /\ (d # None => v > d) => v > expired'
  BY <1>1, <1>2, LaterOf DEF StripTimer
<1>6. UiInv(ui, Creating(stack), expired)' /\ ui' \in Contexts
  BY <1>3, <1>4 DEF UiInv, UiBut, HoverInv
<1>7. \A v \in Version : NewerThan(ui, expired, v) => NewerThan(ui', expired', v)
  <2> SUFFICES ASSUME NEW v \in Version, NewerThan(ui, expired, v) PROVE NewerThan(ui', expired', v)
    OBVIOUS
  <2>1. NewerThan(ui', expired, v)
    BY <1>3, AgedNewer
  <2>2. v > expired /\ (d # None => v > d)
    BY <1>1, <1>2 DEF NewerThan
  <2>3. v > expired'
    BY <2>2, <1>5
  <2> QED BY <2>1, <2>3 DEF NewerThan
<1>8. RiseInv'
  BY <1>4, <1>7 DEF HostInv, RiseInv
<1>9. Woken'
  BY <1>3, <1>4 DEF HostInv, Woken, Wakes
<1>10. Types' /\ CreatedOnce(stack)'
  BY <1>4, <1>5, <1>6 DEF HostInv, Types
<1> QED BY <1>6, <1>8, <1>9, <1>10 DEF HostInv

-----------------------------------------------------------------------------
(* 9. The run loop. *)

LEMMA VersionNext == ASSUME HostInv, version < MaxVersion PROVE version + 1 \in Version
BY HostAssumption DEF HostInv, Types, Version

(* What the two halves of a publication make, in either order.               *)
LEMMA TwoThenOne ==
  ASSUME NEW S, NEW x \in S, NEW y \in S, NEW z \in S
  PROVE  /\ <<x, y>> \o <<z>> \in Seq(S) /\ DOMAIN (<<x, y>> \o <<z>>) = 1..3
         /\ (<<x, y>> \o <<z>>)[1] = x /\ (<<x, y>> \o <<z>>)[2] = y
         /\ (<<x, y>> \o <<z>>)[3] = z
OBVIOUS

LEMMA OneThenTwo ==
  ASSUME NEW S, NEW x \in S, NEW y \in S, NEW z \in S
  PROVE  /\ <<z>> \o <<x, y>> \in Seq(S) /\ DOMAIN (<<z>> \o <<x, y>>) = 1..3
         /\ (<<z>> \o <<x, y>>)[1] = z /\ (<<z>> \o <<x, y>>)[2] = x
         /\ (<<z>> \o <<x, y>>)[3] = y
OBVIOUS

(* A publication carries the next version, in one snapshot at most.          *)
LEMMA PublishStep ==
  ASSUME HostInv, Publish \/ Consume \/ ReloadSettings
  PROVE  HostInv'
<1>1. /\ outbox = <<>> /\ version < MaxVersion /\ version' = version + 1
      /\ host' = host /\ ui' = ui /\ stack' = stack /\ events' = events /\ expired' = expired
      /\ commands' = commands /\ runtime' = runtime /\ waking' = waking /\ input' = input
  BY DEF Publish, Consume, ReloadSettings, Ready, threadVars
<1>2. PICK v : v = version + 1
  OBVIOUS
<1>3. v \in Version /\ version' = v /\ version \in Version /\ v > version /\ v \in Nat /\ version \in Nat
  BY <1>1, <1>2, VersionNext, Apart DEF HostInv, Types
<1>4. PICK s : s = OneCommand("snapshot", v)
  OBVIOUS
<1>5. PICK t : t = OneCommand("showStrip", v)
  OBVIOUS
<1>6. PICK d : d = OneCommand("details", v)
  OBVIOUS
<1>7. PICK a : a = OneCommand("attach", v)
  OBVIOUS
<1>8. /\ s \in Commands /\ t \in Commands /\ d \in Commands /\ a \in Commands
      /\ s.op = "snapshot" /\ t.op = "showStrip" /\ d.op = "details" /\ a.op = "attach" /\ s.version = v
  BY <1>3, <1>4, <1>5, <1>6, <1>7 DEF OneCommand, Commands
<1>9. outbox' \in {<<d>>, <<a, d>>, <<s, t>> \o <<d>>, <<d>> \o <<s, t>>}
  <2>1. CASE Publish
    BY <2>1, <1>3, <1>6 DEF Publish, Sends
  <2>2. CASE ReloadSettings
    BY <2>2, <1>3, <1>6, <1>7 DEF ReloadSettings, Sends
  <2>3. CASE Consume
    <3>1. outbox' = <<s, t>> \o <<d>> \/ outbox' = <<d>> \o <<s, t>>
      BY <2>3, <1>3, <1>4, <1>5, <1>6 DEF Consume, Sends
    <3> QED BY <3>1
  <2> QED BY <2>1, <2>2, <2>3
<1>10. outbox' \in Seq(Commands) /\ Rising(outbox') /\ \A k : Sent(outbox', k) => k = v
  <2>1. CASE outbox' = <<d>>
    BY <2>1, <1>8 DEF Rising, Sent
  <2>2. CASE outbox' = <<a, d>>
    BY <2>2, <1>8 DEF Rising, Sent
  <2>3. CASE outbox' = <<s, t>> \o <<d>>
    <3>1. /\ outbox' \in Seq(Commands) /\ DOMAIN outbox' = 1..3
          /\ outbox'[1] = s /\ outbox'[2] = t /\ outbox'[3] = d
      BY <2>3, <1>8, TwoThenOne
    <3> QED BY <3>1, <1>8 DEF Rising, Sent
  <2>4. CASE outbox' = <<d>> \o <<s, t>>
    <3>1. /\ outbox' \in Seq(Commands) /\ DOMAIN outbox' = 1..3
          /\ outbox'[1] = d /\ outbox'[2] = s /\ outbox'[3] = t
      BY <2>4, <1>8, OneThenTwo
    <3> QED BY <3>1, <1>8 DEF Rising, Sent
  <2> QED BY <2>1, <2>2, <2>3, <2>4, <1>9
<1>11. \A k \in Version : Sent(commands, k) => k < v
  BY <1>3, Apart DEF HostInv, RiseInv
<1>12. \A k \in Version : Sent(commands, k) \/ k = v \/ k > v => NewerThan(ui, expired, k)
  <2> SUFFICES ASSUME NEW k \in Version, Sent(commands, k) \/ k = v \/ k > v
               PROVE  NewerThan(ui, expired, k)
    OBVIOUS
  <2>1. k = v \/ k > v => k > version
    BY <1>3, Apart
  <2> QED BY <2>1 DEF HostInv, RiseInv
<1>13. \A k \in Version : Sent(commands, k) \/ k = v => k <= v
  BY <1>3, <1>11, Apart
<1>14. RiseInv'
  BY <1>1, <1>3, <1>10, <1>11, <1>12, <1>13 DEF HostInv, RiseInv
<1>15. Types' /\ CreatedOnce(stack)' /\ UiInv(ui, Creating(stack), expired)' /\ Woken'
  BY <1>1, <1>3, <1>10 DEF HostInv, Types, Woken
<1> QED BY <1>14, <1>15 DEF HostInv

LEMMA SendStep ==
  ASSUME HostInv, Send
  PROVE  HostInv'
<1>1. PICK c : c = Head(outbox)
  OBVIOUS
<1>2. /\ outbox # <<>> /\ commands' = Append(commands, c) /\ outbox' = Tail(outbox) /\ waking' = TRUE
      /\ host' = host /\ ui' = ui /\ stack' = stack /\ events' = events /\ expired' = expired
      /\ runtime' = runtime /\ version' = version /\ input' = input
  BY <1>1 DEF Send, threadVars
<1>3. Types /\ RiseInv /\ commands \in Seq(Commands) /\ outbox \in Seq(Commands)
  BY DEF HostInv, Types
<1>4. /\ outbox' \in Seq(Commands) /\ c \in Commands /\ (Rising(outbox) => Rising(outbox'))
      /\ \A v : Sent(outbox', v) => Sent(outbox, v)
      /\ c.op = "snapshot" => Sent(outbox, c.version)
      /\ \A v : Rising(outbox) /\ c.op = "snapshot" /\ Sent(outbox', v) => c.version < v
  BY <1>1, <1>2, <1>3, QueueTail
<1>5. c.version \in Version
  BY <1>4 DEF Commands
<1>6. \A v \in Version : c.op = "snapshot" /\ Sent(commands, v) => v < c.version
  BY <1>3, <1>4, <1>5 DEF RiseInv
<1>7. /\ commands' \in Seq(Commands)
      /\ \A v : Sent(commands', v) <=> Sent(commands, v) \/ (c.op = "snapshot" /\ v = c.version)
      /\ Rising(commands')
  <2>1. Rising(commands)
    BY <1>3 DEF RiseInv
  <2> QED BY <2>1, <1>2, <1>3, <1>4, <1>6, QueueAppend
<1>8. \A v \in Version : Sent(commands', v) \/ Sent(outbox', v) => Sent(commands, v) \/ Sent(outbox, v)
  BY <1>4, <1>7
<1>9. \A v, n \in Version : Sent(commands', v) /\ Sent(outbox', n) => v < n
  <2> SUFFICES ASSUME NEW v \in Version, NEW n \in Version, Sent(commands', v), Sent(outbox', n) PROVE v < n
    OBVIOUS
  <2>1. CASE Sent(commands, v)
    BY <2>1, <1>3, <1>4 DEF RiseInv
  <2>2. CASE c.op = "snapshot" /\ v = c.version
    BY <2>2, <1>3, <1>4 DEF RiseInv
  <2> QED BY <2>1, <2>2, <1>7
<1>10. RiseInv'
  BY <1>2, <1>3, <1>4, <1>7, <1>8, <1>9 DEF RiseInv
<1>11. Types' /\ CreatedOnce(stack)' /\ UiInv(ui, Creating(stack), expired)' /\ Woken'
  BY <1>2, <1>4, <1>7 DEF HostInv, Types, Woken
<1> QED BY <1>10, <1>11 DEF HostInv

LEMMA WakeStep ==
  ASSUME HostInv, Wake
  PROVE  HostInv'
<1>1. PICK u : u = ui
  OBVIOUS
<1>2. PICK C : C = Creating(stack)
  OBVIOUS
<1>3. PICK n : n = Posted(u, Owner, "command")
  OBVIOUS
<1>4. UiBut(u, C, expired, {}) /\ Owner \in Windows \cup {Owner} /\ "command" \in Names
  BY <1>1, <1>2 DEF HostInv, UiInv, Names
<1>5. UiBut(n, C, expired, {}) /\ Aged(n, u) /\ Holds(n, Owner, "command")
  BY <1>3, <1>4, PostedKeeps
<1>6. /\ ui' = n /\ waking' = FALSE /\ host' = host /\ stack' = stack /\ events' = events /\ expired' = expired
      /\ commands' = commands /\ runtime' = runtime /\ outbox' = outbox /\ version' = version /\ input' = input
  BY <1>1, <1>3 DEF Wake
<1>7. UiInv(ui, Creating(stack), expired)' /\ ui' \in Contexts
  BY <1>2, <1>5, <1>6 DEF UiInv, UiBut
<1>8. \A v : NewerThan(ui, expired, v) => NewerThan(ui', expired, v)
  BY <1>1, <1>5, <1>6, AgedNewer
<1>9. RiseInv'
  BY <1>6, <1>8 DEF HostInv, RiseInv
<1>10. Woken'
  BY <1>5, <1>6 DEF Woken
<1>11. Types' /\ CreatedOnce(stack)'
  BY <1>6, <1>7 DEF HostInv, Types
<1> QED BY <1>7, <1>9, <1>10, <1>11 DEF HostInv

(* The run loop answers an event, or ends: no snapshot is sent.              *)
LEMMA LoopStep ==
  ASSUME HostInv, HostEvent \/ HostStopped \/ RuntimeEnds
  PROVE  HostInv'
<1>1. /\ host' = host /\ ui' = ui /\ stack' = stack /\ expired' = expired
      /\ commands' = commands /\ version' = version /\ input' = input
  BY DEF HostEvent, HostStopped, RuntimeEnds, threadVars
<1>2. events' \in Seq(Reports)
  <2>1. events \in Seq(Reports)
    BY DEF HostInv, Types, Reports
  <2>2. events' = events \/ (events # <<>> /\ events' = Tail(events))
    BY DEF HostEvent, HostStopped, RuntimeEnds, threadVars
  <2> QED BY <2>1, <2>2
<1>3. OneCommand("showDetails", 0) \in Commands /\ OneCommand("exit", 0) \in Commands
  BY Apart DEF OneCommand, Commands
<1>4. /\ outbox' \in {outbox, <<>>, <<OneCommand("showDetails", 0)>>, <<OneCommand("exit", 0)>>}
      /\ runtime' \in {runtime, "stopping", "ended"}
  <2>1. CASE HostEvent
    <3>1. Head(events) \in Reports
      BY <2>1 DEF HostEvent, HostInv, Types, Reports
    <3>2. CASE Head(events) = "showDetails"
      BY <2>1, <3>2 DEF HostEvent, Sends
    <3>3. CASE Head(events) = "refresh"
      BY <2>1, <3>3 DEF HostEvent, Sends
    <3>4. CASE Head(events) = "exit"
      BY <2>1, <3>4 DEF HostEvent, Sends
    <3> QED BY <3>1, <3>2, <3>3, <3>4 DEF Reports
  <2>2. CASE HostStopped
    BY <2>2 DEF HostStopped
  <2>3. CASE RuntimeEnds
    BY <2>3 DEF RuntimeEnds
  <2> QED BY <2>1, <2>2, <2>3
<1>5. outbox' \in Seq(Commands) /\ Rising(outbox') /\ \A v : Sent(outbox', v) => Sent(outbox, v)
  <2>1. CASE outbox' = outbox
    BY <2>1 DEF HostInv, Types, RiseInv
  <2>2. CASE outbox' = <<>>
    BY <2>2 DEF Rising, Sent
  <2>3. CASE outbox' = <<OneCommand("showDetails", 0)>>
    BY <2>3, <1>3 DEF Rising, Sent, OneCommand
  <2>4. CASE outbox' = <<OneCommand("exit", 0)>>
    BY <2>4, <1>3 DEF Rising, Sent, OneCommand
  <2> QED BY <2>1, <2>2, <2>3, <2>4, <1>4
<1>6. waking' \in BOOLEAN /\ (waking' = waking \/ host # "running" \/ ~waking)
  BY DEF HostEvent, HostStopped, RuntimeEnds, HostInv, Types
<1>7. RiseInv'
  BY <1>1, <1>5 DEF HostInv, RiseInv
<1>8. Woken'
  BY <1>1, <1>6 DEF HostInv, Woken
<1>9. Types' /\ CreatedOnce(stack)' /\ UiInv(ui, Creating(stack), expired)'
  BY <1>1, <1>2, <1>4, <1>5, <1>6 DEF HostInv, Types, Reports
<1> QED BY <1>7, <1>8, <1>9 DEF HostInv

-----------------------------------------------------------------------------
(* 10. The theorems. *)

LEMMA HostInit == Init => HostInv
<1> SUFFICES ASSUME Init PROVE HostInv
  OBVIOUS
<1>1. Creating(<<>>) = {} /\ CreatedOnce(<<>>) /\ Rising(<<>>) /\ (\A v : ~Sent(<<>>, v))
  BY DEF Creating, CreatedOnce, Rising, Sent
<1>2. UiInv(ui, {}, 0) /\ ui \in Contexts
  BY NoWindowsKeeps DEF Init, UiInv, UiBut
<1>3. 0 \in 0..MaxInput
  BY HostAssumption
<1>4. Types
  <2>1. /\ host = "running" /\ runtime = "looping" /\ stack = <<>> /\ commands = <<>> /\ outbox = <<>>
        /\ events = <<>> /\ version = 0 /\ input = 0 /\ expired = 0
    BY DEF Init
  <2>2. waking \in BOOLEAN
    BY DEF Init
  <2> QED BY <2>1, <2>2, <1>2, <1>3, Apart DEF Types
<1>5. \A v \in Version : v > 0 => NewerThan(NoWindows, 0, v)
  <2>1. \A w \in Windows : NoWindows.windows[w].kind = "none"
    BY UnusedRecord DEF NoWindows
  <2>2. NoWindows.snapshot = None
    BY DEF NoWindows
  <2> QED BY <2>1, <2>2 DEF NewerThan
<1>6. RiseInv
  BY <1>1, <1>5 DEF Init, RiseInv
<1> QED BY <1>1, <1>2, <1>4, <1>6 DEF HostInv, Init, Woken

LEMMA HostStep == HostInv /\ [Next]_vars => HostInv'
<1> SUFFICES ASSUME HostInv, [Next]_vars PROVE HostInv'
  OBVIOUS
<1>1. CASE WindowProc
  <2>1. CASE OnExit
    BY <2>1, GoneStep DEF OnExit, HostInv, Types
  <2>2. CASE OnClick \/ OnTray
    BY <2>2, ClickStep
  <2>3. CASE \E w \in Windows : OnReady(w) \/ OnPageRequest(w)
    BY <2>3, PopupStep
  <2> QED
    BY <2>1, <2>2, <2>3, <1>1, CommandStep, MenuStep, CardRequestStep, DetailsClosedStep, StripClosedStep
       DEF WindowProc
<1>2. CASE ProcessCommands
  BY <1>2, DrainStep, DrainSnapshotStep, DrainEndStep DEF ProcessCommands
<1>3. CASE UserInput
  <2>1. CASE ExplorerEnds
    BY <2>1, GoneStep, UserActsTypes DEF ExplorerEnds
  <2>2. CASE \E w \in Windows : PageRequests(w)
    BY <2>2, PopupStep
  <2> QED BY <2>1, <2>2, <1>3, MouseStep, UserStep DEF UserInput
<1>4. CASE RunLoop
  BY <1>4, PublishStep, SendStep, WakeStep, LoopStep DEF RunLoop
<1>5. CASE \E w \in Windows : StripTimer(w) \/ PageReady(w)
  BY <1>5, TimerStep, PopupStep
<1>6. CASE UNCHANGED vars
  BY <1>6 DEF vars, HostInv, Types, RiseInv, Woken
<1> QED BY <1>1, <1>2, <1>3, <1>4, <1>5, <1>6, CreateFinishStep, MenuEndStep DEF Next

LEMMA HostInvariant == Spec => []HostInv
BY HostInit, HostStep, PTL DEF Spec

LEMMA SettledForgetsNothing == HostInv => NothingForgotten
<1> SUFFICES ASSUME HostInv PROVE NothingForgotten
  OBVIOUS
<1>1. Types /\ ui \in Contexts /\ RecordInv(ui) /\ HandleInv(ui) /\ AddressInv(ui) /\ SettleInv(ui) /\ Woken
  BY DEF HostInv, UiInv, UiBut
<1>2. ui.posted \in Seq(Messages) /\ DOMAIN ui.posted = 1..Len(ui.posted)
      /\ stack \in Seq(Calls) /\ DOMAIN stack = 1..Len(stack)
  BY <1>1 DEF Contexts, Types
<1>3. \A name : Pending(name) <=> Holds(ui, Owner, name)
  BY <1>2 DEF Pending, Holds
<1>4. NoLostWake
  BY <1>1, <1>2, <1>3 DEF Woken, NoLostWake, Drains
<1>5. HandlesSettle
  BY <1>1, <1>3, Apart DEF HandlesSettle, SettleInv, IsWindow
<1>6. \A i \in 1..Len(stack) : stack[i].kind \in {"drain", "create", "menu"}
  <2>1. \A i \in 1..Len(stack) : stack[i] \in Calls
    BY <1>2
  <2> QED BY <2>1 DEF Calls
<1>7. \A i \in 1..Len(ui.posted) : ui.posted[i].to = Owner \/ ui.windows[ui.posted[i].to].open
  BY <1>1, <1>2 DEF AddressInv, Listens
<1>8. \A w \in Windows :
       /\ ui.windows[w].kind \in {"none", "details", "strip"}
       /\ ui.windows[w].data \in Version \cup {None} /\ ui.windows[w].shown \in Version \cup {None}
       /\ ui.windows[w].page \in {"none", "loading", "ready"}
  <2>1. \A w \in Windows : ui.windows[w] \in Records
    BY <1>1 DEF Contexts
  <2> QED BY <2>1 DEF Records, Kinds, Data, Pages
<1>9. TypeOK
  BY <1>1, <1>6, <1>7, <1>8 DEF TypeOK, Types, Contexts, Handles, Data, HandleInv
<1> QED BY <1>4, <1>5, <1>9 DEF NothingForgotten

LEMMA SettledStripIsCurrent == HostInv => StripIsCurrent
<1> SUFFICES ASSUME HostInv PROVE StripIsCurrent
  OBVIOUS
<1>1. ui \in Contexts /\ PageInv(ui, {}) /\ StripInv(ui) /\ HoverInv(ui, expired)
  BY DEF HostInv, UiInv, UiBut
<1>2. ui.posted = <<>> => \A to, name : ~Holds(ui, to, name)
  BY DEF Holds
<1>3. StripShowsLatest
  <2> SUFFICES ASSUME ui.posted = <<>>, IsWindow(ui, ui.stripWindow), ui.windows[ui.stripWindow].page = "ready"
               PROVE  ui.windows[ui.stripWindow].shown = ui.snapshot
    BY DEF StripShowsLatest
  <2>1. ui.stripWindow \in Windows /\ ui.windows[ui.stripWindow].data = ui.snapshot
    BY <1>1 DEF IsWindow, Contexts, Handles, StripInv
  <2> QED BY <2>1, <1>1, <1>2 DEF PageInv
<1>4. HoverNeverRepeats
  BY <1>1, <1>2 DEF HoverNeverRepeats, HoverInv
<1> QED BY <1>3, <1>4 DEF StripIsCurrent

(* However the handlers are nested and whatever the user does, a command in  *)
(* the channel has a wake message on its way or a handler at work, and a     *)
(* handle of a window that is gone has the message that clears it            *)
(* (host.rs:444-449, native.rs:656-667, 716-717).                            *)
THEOREM NothingIsForgotten == Spec => []NothingForgotten
BY HostInvariant, SettledForgetsNothing, PTL

(* Once every message is handled, the strip shows the latest snapshot, and   *)
(* the mouse never brings back one whose strip closed by its timer           *)
(* (native.rs:83-94, 661-667, 1678-1686).                                    *)
THEOREM StripStaysCurrent == Spec => []StripIsCurrent
BY HostInvariant, SettledStripIsCurrent, PTL

-----------------------------------------------------------------------------
(* 11. Placement. *)

Rects == [left : Int, top : Int, right : Int, bottom : Int]

(* What the settings say of the strip, old files with any offset included.   *)
Configs == [anchor : {"Left", "Right"}, gap : Nat, offset : Int, width : Int]

(* A snapshot of a taskbar, as far as the strip is concerned.                *)
Bars == [rect : Rects, boundary : SUBSET Int]

-----------------------------------------------------------------------------
(* The strip. *)

LEMMA ProbeInPlace ==
  ASSUME NEW bar \in Bars, NEW config \in Configs
  PROVE  LET p == LayoutProbe(bar, config) IN
         /\ p.error \in {"none", "InsufficientSpace", "MissingRightSafetyBoundary"}
         /\ p.error = "MissingRightSafetyBoundary" => config.anchor = "Right" /\ bar.boundary = {}
         /\ p.error = "none" =>
              /\ Within(p.rect, bar.rect)
              /\ Width(p.rect) = config.width /\ Height(p.rect) = Height(bar.rect)
              /\ config.anchor = "Right" => \A b \in bar.boundary : p.rect.right <= b - config.gap
<1> DEFINE xs == IF config.anchor = "Left"
                 THEN {bar.rect.left + config.gap + config.offset}
                 ELSE {b - config.gap - config.offset - config.width : b \in bar.boundary}
           x == CHOOSE v \in xs : TRUE
           rect == [bar.rect EXCEPT !.left = x, !.right = x + config.width]
           pastLimit == \E b \in bar.boundary :
                          config.anchor = "Right" /\ x + config.width > b - config.gap
           p == LayoutProbe(bar, config)
<1>1. /\ bar.rect \in Rects /\ bar.boundary \subseteq Int
      /\ config.gap \in Nat /\ config.offset \in Int /\ config.width \in Int
      /\ config.anchor \in {"Left", "Right"}
      /\ bar.rect.left \in Int /\ bar.rect.right \in Int
      /\ bar.rect.top \in Int /\ bar.rect.bottom \in Int
  BY DEF Bars, Configs, Rects
<1>2. p = IF ~IsValid(bar.rect) \/ config.width <= 0 \/ config.width > Width(bar.rect)
          THEN Refused("InsufficientSpace")
          ELSE IF xs = {} THEN Refused("MissingRightSafetyBoundary")
          ELSE IF x < bar.rect.left \/ x + config.width > bar.rect.right \/ pastLimit
          THEN Refused("InsufficientSpace")
          ELSE Placed(rect)
  BY DEF LayoutProbe
<1>3. xs \subseteq Int
  BY <1>1
<1>4. xs = {} => config.anchor = "Right" /\ bar.boundary = {}
  BY <1>1
<1> HIDE DEF xs
<1>5. CASE p = Refused("InsufficientSpace")
  BY <1>5 DEF Refused
<1>6. CASE xs = {} /\ p = Refused("MissingRightSafetyBoundary")
  BY <1>4, <1>6 DEF Refused
<1>7. CASE /\ xs # {} /\ p = Placed(rect)
           /\ ~(x < bar.rect.left \/ x + config.width > bar.rect.right \/ pastLimit)
  <2>1. x \in Int
    BY <1>3, <1>7
  <2>2. /\ rect.left = x /\ rect.right = x + config.width
        /\ rect.top = bar.rect.top /\ rect.bottom = bar.rect.bottom
    <3>1. ASSUME NEW v \in Int
          PROVE  LET r == [bar.rect EXCEPT !.left = v, !.right = v + config.width]
                 IN  /\ r.left = v /\ r.right = v + config.width
                     /\ r.top = bar.rect.top /\ r.bottom = bar.rect.bottom
      BY <1>1 DEF Rects
    <3> QED BY <2>1, <3>1
  <2>3. p.error = "none" /\ p.rect = rect
    BY <1>7 DEF Placed
  <2> HIDE DEF p, rect, x
  <2>4. Within(rect, bar.rect) /\ Width(rect) = config.width /\ Height(rect) = Height(bar.rect)
    BY <1>1, <1>7, <2>1, <2>2 DEF Within, Width, Height
  <2>5. ASSUME config.anchor = "Right", NEW b \in bar.boundary PROVE rect.right <= b - config.gap
    BY <1>1, <1>7, <2>1, <2>2, <2>5
  <2> QED BY <2>3, <2>4, <2>5 DEF p
<1> QED BY <1>2, <1>5, <1>6, <1>7

(* A strip is placed whole on its taskbar and never over the notification    *)
(* area it is anchored to, for every offset an old file may hold; a missing  *)
(* notification area puts it on the left (geometry.rs:41-91).                *)
THEOREM StripAlwaysInPlace ==
  ASSUME NEW bar \in Bars, NEW config \in Configs
  PROVE  StripInPlace(bar, config)
<1> DEFINE left == [config EXCEPT !.anchor = "Left"]
<1>1. /\ left \in Configs /\ left.width = config.width /\ left.anchor = "Left"
  BY DEF Configs
<1>2. LET p == LayoutProbe(bar, left) IN
      /\ p.error \in {"none", "InsufficientSpace"}
      /\ p.error = "none" =>
           /\ Within(p.rect, bar.rect)
           /\ Width(p.rect) = config.width /\ Height(p.rect) = Height(bar.rect)
  <2> HIDE DEF left
  <2> QED BY <1>1, ProbeInPlace
<1> QED BY <1>2, ProbeInPlace DEF StripInPlace, LayoutWithSafeLeftFallback

-----------------------------------------------------------------------------
(* Another program's gauges. *)

LEMMA RectTypes ==
  ASSUME NEW r \in Rects
  PROVE  r.left \in Int /\ r.right \in Int /\ r.top \in Int /\ r.bottom \in Int
BY DEF Rects

(* The first usable window is usable, and there is no other first one.       *)
LEMMA FirstObstacle ==
  ASSUME NEW windows \in Seq(Rects), NEW bar \in Rects
  PROVE  /\ \A w \in ObstacleIn(windows, bar) :
              w \in Rects /\ IsValid(w) /\ w.right > bar.left /\ w.left < bar.right
         /\ \A w, v \in ObstacleIn(windows, bar) : w = v
<1> DEFINE Usable(w) == IsValid(w) /\ w.right > bar.left /\ w.left < bar.right
           usable == {i \in DOMAIN windows : Usable(windows[i])}
           first == {k \in usable : \A j \in usable : k <= j}
<1>1. usable \subseteq Int
  OBVIOUS
<1>2. \A i, j \in first : i = j
  BY <1>1
<1>3. \A i \in first : windows[i] \in Rects /\ Usable(windows[i])
  OBVIOUS
<1>4. ObstacleIn(windows, bar) = {windows[i] : i \in first}
  BY DEF ObstacleIn
<1> HIDE DEF first
<1> QED BY <1>2, <1>3, <1>4

Clear(r, rect, w, bar, gap) ==
  /\ Width(r) = Width(rect) /\ r.top = rect.top /\ r.bottom = rect.bottom
  /\ Within(rect, bar) => Within(r, bar)
  /\ r # rect => r.right + gap <= w.left \/ w.right + gap <= r.left
  /\ (r.left < w.right /\ r.right > w.left) =>
       /\ w.left - gap - Width(rect) < bar.left
       /\ w.right + gap + Width(rect) > bar.right

LEMMA ShiftIsClear ==
  ASSUME NEW rect \in Rects, NEW w \in Rects, NEW bar \in Rects, NEW gap \in Nat,
         IsValid(w), w.right > bar.left, w.left < bar.right
  PROVE  Clear(ShiftAwayFromObstacle(rect, w, bar, gap), rect, w, bar, gap)
<1> DEFINE toRight == [rect EXCEPT !.left = w.right + gap, !.right = w.right + gap + Width(rect)]
           toLeft == [rect EXCEPT !.left = w.left - gap - Width(rect), !.right = w.left - gap]
           r == ShiftAwayFromObstacle(rect, w, bar, gap)
           apart == ~(rect.left < w.right /\ rect.right > w.left)
<1>0. /\ rect.left \in Int /\ rect.right \in Int /\ rect.top \in Int /\ rect.bottom \in Int
      /\ w.left \in Int /\ w.right \in Int /\ bar.left \in Int /\ bar.right \in Int
      /\ Width(rect) = rect.right - rect.left
      /\ bar.top \in Int /\ bar.bottom \in Int /\ w.right > w.left
  BY RectTypes DEF IsValid, Width
<1>1. /\ toRight.left = w.right + gap /\ toRight.right = w.right + gap + Width(rect)
      /\ toRight.top = rect.top /\ toRight.bottom = rect.bottom
  BY <1>0 DEF Rects
<1>2. /\ toLeft.left = w.left - gap - Width(rect) /\ toLeft.right = w.left - gap
      /\ toLeft.top = rect.top /\ toLeft.bottom = rect.bottom
  BY <1>0 DEF Rects
<1>3. \/ apart /\ r = rect
      \/ ~apart /\ r = toRight /\ toRight.right <= bar.right
      \/ ~apart /\ r = toLeft /\ toLeft.left >= bar.left
      \/ ~apart /\ r = rect /\ ~(toRight.right <= bar.right) /\ ~(toLeft.left >= bar.left)
  BY DEF ShiftAwayFromObstacle
<1> HIDE DEF toRight, toLeft, r
<1>4. ASSUME apart /\ r = rect
      PROVE  Clear(r, rect, w, bar, gap)
  BY <1>0, <1>4 DEF Clear
<1>5. ASSUME ~apart /\ r = toRight /\ toRight.right <= bar.right
      PROVE  Clear(r, rect, w, bar, gap)
  BY <1>0, <1>1, <1>5 DEF Clear, Width, Within
<1>6. ASSUME ~apart /\ r = toLeft /\ toLeft.left >= bar.left
      PROVE  Clear(r, rect, w, bar, gap)
  BY <1>0, <1>2, <1>6 DEF Clear, Width, Within
<1>7. ASSUME ~apart /\ r = rect /\ ~(toRight.right <= bar.right) /\ ~(toLeft.left >= bar.left)
      PROVE  Clear(r, rect, w, bar, gap)
  BY <1>0, <1>1, <1>2, <1>7 DEF Clear
<1> QED BY <1>3, <1>4, <1>5, <1>6, <1>7 DEF r

(* A strip moved away from a gauge keeps its size and its taskbar and is     *)
(* clear of the gauge; it stays on the gauge only if neither side has room   *)
(* (native.rs:1876-1909).                                                    *)
THEOREM GaugeAlwaysDodged ==
  ASSUME NEW rect \in Rects, NEW windows \in Seq(Rects), NEW bar \in Rects
  PROVE  DodgesGauge(rect, windows, bar)
<1> DEFINE found == ObstacleIn(windows, bar)
           r == AvoidTrafficMonitorOverlap(rect, windows, bar)
<1>1. CASE found = {}
  BY <1>1 DEF DodgesGauge, AvoidTrafficMonitorOverlap
<1>2. CASE found # {}
  <2>1. PICK w \in found : w = CHOOSE v \in found : TRUE
    BY <1>2
  <2>2. r = ShiftAwayFromObstacle(rect, w, bar, ObstacleGap)
    BY <1>2, <2>1 DEF AvoidTrafficMonitorOverlap
  <2>3. \A v \in found : v = w
    BY <2>1, FirstObstacle
  <2>4. ObstacleGap \in Nat
    BY DEF ObstacleGap
  <2> QED BY <2>1, <2>2, <2>3, <2>4, FirstObstacle, ShiftIsClear DEF DodgesGauge, Clear
<1> QED BY <1>1, <1>2

=============================================================================
