--------------------------- MODULE LocalUsageProofs ---------------------------
(***************************************************************************)
(* The safety properties of the local usage ledger (module LocalUsage) for *)
(* any number of sessions, models, lines, days and starts, any old ledger, *)
(* any retention and any length of the tail read.                          *)
(*                                                                         *)
(* The argument.  Events: a bucket that this run has built holds exactly   *)
(* what the tailer has seen of its day since the last clear, and a day the *)
(* tailer has not come to has no details yet (FreshDays), so that taking   *)
(* over its bucket without an event found loses nothing.  A fingerprint is *)
(* a line with the model the file gives it, or is recorded as misread; a   *)
(* line written later changes neither.  Counters: every token of a bucket  *)
(* without details is matched by a line after the last clear whose rank in *)
(* its session is within the session's baseline (Accounted).  A frame      *)
(* raises the baselines by as many ranks as it adds to the day, and every  *)
(* rank is a line; a clear, which drops the baselines, leaves them above   *)
(* the lines it has wiped when they come back                              *)
(* (BaselinesPastClear).  The database holds such a ledger of its own      *)
(* (StoredCounted).                                                        *)
(***************************************************************************)
EXTENDS LocalUsage, FiniteSetTheorems, TLAPS

DaySets   == UNION {[D -> Buckets] : D \in SUBSET AllDays}
Baselines == UNION {[T -> Nat] : T \in SUBSET Sessions}
Ledgers   == [days : DaySets, baselines : Baselines, dirty : BOOLEAN]

Named     == Models \cup {NoModel}
AnyLine   == [session : Sessions, day : Days, tokens : BOOLEAN, model : Named]

Types ==
  /\ log \in Seq(AnyLine)
  /\ ledger \in Ledgers /\ stored \in DaySets

Stopped == ~running => ledger = EmptyLedger

NotAhead ==
  /\ tailDay <= today
  /\ \A d \in DOMAIN ledger.days : d <= today
  /\ \A d \in DOMAIN stored : d <= today
  /\ clearedAt <= Len(log) /\ storedClearedAt <= Len(log)

SeenOfDay == seen \subseteq Countable(tailDay) /\ IsFiniteSet(misread)

FreshDays ==
  \A d \in DOMAIN ledger.days \ fromDisk : tailDay < d => ledger.days[d].detailed = 0

EventsInv ==
  /\ TypeOK /\ Types /\ Stopped /\ NotAhead
  /\ SeenOfDay /\ FreshDays /\ CountedOnce /\ MisreadsExplained /\ SeenIsCounted

-----------------------------------------------------------------------------

LinesAfter(n) == {i \in Tokens(DOMAIN log) : n < i}
Rank(i)       == Cardinality({j \in Tokens(Lines(log[i].session)) : j <= i})

(* The lines after the last clear that a baseline takes in, or that will be *)
(* taken in by the first frame of their session.                            *)
Accounted ==
  {i \in LinesAfter(clearedAt) :
     log[i].session \in DOMAIN ledger.baselines => Rank(i) <= ledger.baselines[log[i].session]}

LedgerCounted ==
  /\ IsFiniteSet(Undetailed(ledger.days))
  /\ Cardinality(Undetailed(ledger.days)) <= Cardinality(Accounted)

StoredCounted ==
  /\ IsFiniteSet(Undetailed(stored))
  /\ Cardinality(Undetailed(stored)) <= Cardinality(LinesAfter(storedClearedAt))

BaselinesPastClear ==
  \A t \in DOMAIN ledger.baselines :
    Cardinality({i \in Tokens(Lines(t)) : i <= clearedAt}) <= ledger.baselines[t]

UsageInv == EventsInv /\ LedgerCounted /\ StoredCounted /\ BaselinesPastClear

-----------------------------------------------------------------------------
(* 1. Ranks in a finite set of integers. *)

(* Every rank is taken, counted from below ... *)
LEMMA RankOnto ==
  ASSUME NEW T \in SUBSET Int, IsFiniteSet(T), NEW n \in 1..Cardinality(T)
  PROVE  \E i \in T : Cardinality({j \in T : j <= i}) = n
<1> DEFINE Below(i) == {j \in T : j <= i}
           r == [i \in T |-> Cardinality(Below(i))]
           N == 1..Cardinality(T)
<1>1. Cardinality(T) \in Nat
  BY FS_CardinalityType
<1>2. \A i \in T : IsFiniteSet(Below(i)) /\ Cardinality(Below(i)) \in N
  <2> SUFFICES ASSUME NEW i \in T
               PROVE  IsFiniteSet(Below(i)) /\ Cardinality(Below(i)) \in N
    OBVIOUS
  <2>1. Below(i) \in SUBSET T /\ i \in Below(i)
    OBVIOUS
  <2> HIDE DEF Below
  <2>2. IsFiniteSet(Below(i)) /\ Cardinality(Below(i)) <= Cardinality(T)
    BY <2>1, FS_Subset
  <2>3. Cardinality(Below(i)) \in Nat /\ Cardinality(Below(i)) # 0
    BY <2>1, <2>2, FS_CardinalityType, FS_EmptySet
  <2> QED BY <2>2, <2>3, <1>1
<1>3. \A i, k \in T : i < k => Cardinality(Below(i)) # Cardinality(Below(k))
  <2> SUFFICES ASSUME NEW i \in T, NEW k \in T, i < k, Cardinality(Below(i)) = Cardinality(Below(k))
               PROVE  FALSE
    OBVIOUS
  <2>1. Below(i) \in SUBSET Below(k) /\ k \in Below(k) /\ k \notin Below(i)
    <3>1. \A j \in T : j <= i => j <= k
      OBVIOUS
    <3>2. k <= k /\ ~(k <= i)
      OBVIOUS
    <3> QED BY <3>1, <3>2
  <2>2. IsFiniteSet(Below(k))
    BY <1>2
  <2> HIDE DEF Below
  <2>3. Below(k) = Below(i)
    BY <2>1, <2>2, FS_Subset
  <2> QED BY <2>1, <2>3
<1>4. r \in Injection(T, N)
  <2>1. r \in [T -> N]
    BY <1>2
  <2>2. \A i, k \in T : r[i] = r[k] => i = k
    <3> SUFFICES ASSUME NEW i \in T, NEW k \in T, i # k
                 PROVE  r[i] # r[k]
      OBVIOUS
    <3>1. i < k \/ k < i
      OBVIOUS
    <3> QED BY <3>1, <1>3
  <2> HIDE DEF r
  <2> QED BY <2>1, <2>2 DEF Injection, IsInjective
<1>5. IsFiniteSet(N) /\ Cardinality(N) = Cardinality(T)
  BY <1>1, FS_Interval
<1>6. r \in Surjection(T, N)
  <2> HIDE DEF r, N
  <2> QED BY <1>4, <1>5, FS_Injection
<1>7. \E i \in T : r[i] = n
  <2> HIDE DEF r
  <2> QED BY <1>6 DEF Surjection
<1> QED BY <1>7

(* ... and from above. *)
LEMMA RankFromAbove ==
  ASSUME NEW T \in SUBSET Int, IsFiniteSet(T)
  PROVE  \E r \in Injection(T, 1..Cardinality(T)) \cap Surjection(T, 1..Cardinality(T)) :
           \A i \in T : r[i] = Cardinality({j \in T : j >= i})
<1> DEFINE Above(i) == {j \in T : j >= i}
           r == [i \in T |-> Cardinality(Above(i))]
           N == 1..Cardinality(T)
<1>1. Cardinality(T) \in Nat
  BY FS_CardinalityType
<1>2. \A i \in T : IsFiniteSet(Above(i)) /\ Cardinality(Above(i)) \in N
  <2> SUFFICES ASSUME NEW i \in T
               PROVE  IsFiniteSet(Above(i)) /\ Cardinality(Above(i)) \in N
    OBVIOUS
  <2>1. Above(i) \in SUBSET T /\ i \in Above(i)
    OBVIOUS
  <2> HIDE DEF Above
  <2>2. IsFiniteSet(Above(i)) /\ Cardinality(Above(i)) <= Cardinality(T)
    BY <2>1, FS_Subset
  <2>3. Cardinality(Above(i)) \in Nat /\ Cardinality(Above(i)) # 0
    BY <2>1, <2>2, FS_CardinalityType, FS_EmptySet
  <2> QED BY <2>2, <2>3, <1>1
<1>3. \A i, k \in T : i < k => Cardinality(Above(i)) # Cardinality(Above(k))
  <2> SUFFICES ASSUME NEW i \in T, NEW k \in T, i < k, Cardinality(Above(i)) = Cardinality(Above(k))
               PROVE  FALSE
    OBVIOUS
  <2>1. Above(k) \in SUBSET Above(i) /\ i \in Above(i) /\ i \notin Above(k)
    <3>1. \A j \in T : j >= k => j >= i
      OBVIOUS
    <3>2. i >= i /\ ~(i >= k)
      OBVIOUS
    <3> QED BY <3>1, <3>2
  <2>2. IsFiniteSet(Above(i))
    BY <1>2
  <2> HIDE DEF Above
  <2>3. Above(k) = Above(i)
    BY <2>1, <2>2, FS_Subset
  <2> QED BY <2>1, <2>3
<1>4. r \in Injection(T, N)
  <2>1. r \in [T -> N]
    BY <1>2
  <2>2. \A i, k \in T : r[i] = r[k] => i = k
    <3> SUFFICES ASSUME NEW i \in T, NEW k \in T, i # k
                 PROVE  r[i] # r[k]
      OBVIOUS
    <3>1. i < k \/ k < i
      OBVIOUS
    <3> QED BY <3>1, <1>3
  <2> HIDE DEF r
  <2> QED BY <2>1, <2>2 DEF Injection, IsInjective
<1>5. IsFiniteSet(N) /\ Cardinality(N) = Cardinality(T)
  BY <1>1, FS_Interval
<1>6. r \in Surjection(T, N)
  <2> HIDE DEF r, N
  <2> QED BY <1>4, <1>5, FS_Injection
<1>7. \A i \in T : r[i] = Cardinality({j \in T : j >= i})
  OBVIOUS
<1> QED BY <1>4, <1>6, <1>7

(* A finite set of integers that is not empty has a largest element. *)
LEMMA LargestExists ==
  ASSUME NEW T \in SUBSET Int, IsFiniteSet(T), T # {}
  PROVE  Max(T) \in T /\ \A x \in T : Max(T) >= x
<1>1. PICK r \in Surjection(T, 1..Cardinality(T)) :
        \A i \in T : r[i] = Cardinality({j \in T : j >= i})
  BY RankFromAbove
<1>2. 1 \in 1..Cardinality(T)
  <2>1. Cardinality(T) \in Nat /\ Cardinality(T) # 0
    BY FS_CardinalityType, FS_EmptySet
  <2> QED BY <2>1
<1>3. PICK i \in T : r[i] = 1
  BY <1>1, <1>2 DEF Surjection
<1>4. PICK A : A = {j \in T : j >= i}
  OBVIOUS
<1>5. Cardinality(A) = 1 /\ A \in SUBSET T /\ i \in A
  BY <1>1, <1>3, <1>4
<1>6. PICK x : A = {x}
  BY <1>5, FS_Subset, FS_Singleton
<1>7. A = {i}
  BY <1>5, <1>6
<1>8. \A j \in T : i >= j
  <2> SUFFICES ASSUME NEW j \in T, ~(i >= j)
               PROVE  FALSE
    OBVIOUS
  <2>1. j >= i /\ j # i
    OBVIOUS
  <2> QED BY <2>1, <1>4, <1>7
<1> QED BY <1>8 DEF Max

(* The r highest elements of a set are r, if there are that many. *)
LEMMA KeepHighest ==
  ASSUME NEW T \in SUBSET Int, IsFiniteSet(T), NEW r \in Nat,
         NEW K, K = {x \in T : Cardinality({y \in T : y >= x}) <= r}
  PROVE  /\ IsFiniteSet(K) /\ Cardinality(K) <= r
         /\ Cardinality(T) >= r => Cardinality(K) >= r
<1>1. PICK f \in Injection(T, 1..Cardinality(T)) \cap Surjection(T, 1..Cardinality(T)) :
        \A i \in T : f[i] = Cardinality({j \in T : j >= i})
  BY RankFromAbove
<1>2. /\ f \in [T -> 1..Cardinality(T)] /\ \A i, k \in T : f[i] = f[k] => i = k
      /\ \A n \in 1..Cardinality(T) : \E i \in T : f[i] = n
  BY <1>1 DEF Injection, Surjection, IsInjective
<1>3. K = {x \in T : f[x] <= r} /\ K \subseteq T
  BY <1>1
<1>4. Cardinality(T) \in Nat /\ IsFiniteSet(1..r) /\ Cardinality(1..r) = r
  <2>1. Cardinality(T) \in Nat
    BY FS_CardinalityType
  <2>2. IsFiniteSet(1..r) /\ Cardinality(1..r) = IF 1 > r THEN 0 ELSE r - 1 + 1
    BY FS_Interval
  <2>3. (IF 1 > r THEN 0 ELSE r - 1 + 1) = r
    OBVIOUS
  <2> QED BY <2>1, <2>2, <2>3
<1>5. PICK g : g = [x \in K |-> f[x]]
  OBVIOUS
<1>6. g \in [K -> 1..r]
  <2>1. \A x \in K : f[x] \in 1..r
    <3> SUFFICES ASSUME NEW x \in K
                 PROVE  f[x] \in 1..r
      OBVIOUS
    <3>1. f[x] \in 1..Cardinality(T) /\ f[x] <= r
      BY <1>2, <1>3
    <3> QED BY <3>1, <1>4
  <2> QED BY <2>1, <1>5
<1>7. g \in Injection(K, 1..r)
  <2>1. \A i, k \in K : g[i] = g[k] => i = k
    BY <1>2, <1>3, <1>5
  <2> QED BY <1>6, <2>1 DEF Injection, IsInjective
<1>8. IsFiniteSet(K) /\ Cardinality(K) <= r
  BY <1>4, <1>7, FS_Injection
<1>9. ASSUME Cardinality(T) >= r
      PROVE  Cardinality(K) >= r
  <2>1. \A n \in 1..r : \E i \in K : g[i] = n
    <3> SUFFICES ASSUME NEW n \in 1..r
                 PROVE  \E i \in K : g[i] = n
      OBVIOUS
    <3>1. n \in 1..Cardinality(T) /\ n <= r
      BY <1>4, <1>9
    <3>2. PICK i \in T : f[i] = n
      BY <1>2, <3>1
    <3>3. i \in K
      BY <3>1, <3>2, <1>3
    <3> QED BY <3>2, <3>3, <1>5
  <2>2. g \in Surjection(K, 1..r)
    BY <1>6, <2>1 DEF Surjection
  <2>3. r <= Cardinality(K)
    BY <2>2, <1>4, <1>8, FS_Surjection
  <2>4. Cardinality(K) \in Nat
    BY <1>8, FS_CardinalityType
  <2> QED BY <2>3, <2>4
<1> QED BY <1>8, <1>9

Above(S, d) == {x \in S : x > d}

(* Pruning keeps at most r days and the last one; what it drops has r days   *)
(* above it that stay.                                                       *)
LEMMA PruneFacts ==
  ASSUME NEW D \in DaySets, NEW r \in Nat \ {0}, NEW P, P = PruneDays(D, r)
  PROVE  /\ P \in DaySets /\ DOMAIN P \subseteq DOMAIN D
         /\ \A d \in DOMAIN P : P[d] = D[d]
         /\ Cardinality(DOMAIN P) <= r
         /\ \A d \in DOMAIN D : (\A x \in DOMAIN D : x <= d) => d \in DOMAIN P
         /\ \A d \in Int : (\/ d \in DOMAIN D \ DOMAIN P
                           \/ Cardinality(Above(DOMAIN D, d)) >= r)
                            => Cardinality(Above(DOMAIN P, d)) >= r
<1> DEFINE S == DOMAIN D
           K == {x \in S : Cardinality({y \in S : y >= x}) <= r}
<1>1. /\ S \in SUBSET AllDays /\ D \in [S -> Buckets]
  BY DEF DaySets
<1>2. S \in SUBSET Int /\ IsFiniteSet(S)
  <2>1. AllDays \in SUBSET Nat /\ \A s \in AllDays : s <= MaxDay
    BY UsageAssumption DEF AllDays, Days, LegacyDay
  <2>2. IsFiniteSet(AllDays)
    BY <2>1, UsageAssumption, FS_BoundedSetOfNaturals
  <2> QED BY <1>1, <2>1, <2>2, FS_Subset
<1>3. P = [d \in K |-> D[d]]
  BY DEF PruneDays
<1>4. DOMAIN P = K /\ K \subseteq S /\ \A d \in DOMAIN P : P[d] = D[d]
  BY <1>3
<1>5. P \in DaySets
  <2>1. P \in [K -> Buckets] /\ K \in SUBSET AllDays
    BY <1>1, <1>3
  <2> QED BY <2>1 DEF DaySets
<1>6. Cardinality(K) <= r
  <2> HIDE DEF S
  <2> QED BY <1>2, KeepHighest
<1>7. ASSUME NEW d \in S, \A x \in S : x <= d
      PROVE  d \in K
  <2>1. {y \in S : y >= d} = {d}
    <3>1. \A y \in S : y >= d => y = d
      BY <1>2, <1>7
    <3>2. d >= d
      BY <1>2
    <3> QED BY <3>1, <3>2
  <2>2. Cardinality({y \in S : y >= d}) = 1
    BY <2>1, FS_Singleton
  <2> QED BY <2>2
<1>8. ASSUME NEW d \in Int, d \in S \ K \/ Cardinality(Above(S, d)) >= r
      PROVE  Cardinality(Above(K, d)) >= r
  <2> DEFINE T == Above(S, d)
  <2>1. T \in SUBSET Int /\ T \in SUBSET S
    BY <1>2 DEF Above
  <2>2. IsFiniteSet(T)
    <3> HIDE DEF S, T
    <3> QED BY <2>1, <1>2, FS_Subset
  <2>3. Above(K, d) = {x \in T : Cardinality({y \in T : y >= x}) <= r}
    <3>1. \A x \in T : {y \in T : y >= x} = {y \in S : y >= x}
      <4> SUFFICES ASSUME NEW x \in T
                   PROVE  \A y \in S : y >= x => y > d
        BY DEF Above
      <4>1. x > d /\ x \in Int
        BY <1>2 DEF Above
      <4> QED BY <4>1, <1>2
    <3> QED BY <3>1 DEF Above
  <2>4. Cardinality(T) \in Nat
    BY <2>2, FS_CardinalityType
  <2>5. Cardinality(T) >= r
    <3>1. CASE d \in S \ K
      <4>1. {y \in S : y >= d} = T \cup {d} /\ d \notin T
        <5>1. \A y \in S : y >= d <=> (y > d \/ y = d)
          BY <1>2
        <5>2. ~(d > d)
          OBVIOUS
        <5> QED BY <5>1, <5>2, <3>1 DEF Above
      <4>2. Cardinality(T \cup {d}) = Cardinality(T) + 1
        <5> HIDE DEF T
        <5> QED BY <4>1, <2>2, FS_AddElement
      <4>3. ~(Cardinality({y \in S : y >= d}) <= r)
        BY <3>1
      <4> HIDE DEF T
      <4>4. ~(Cardinality(T) + 1 <= r)
        BY <4>1, <4>2, <4>3
      <4> QED BY <4>4, <2>4
    <3> QED BY <3>1, <1>8
  <2> HIDE DEF T, S, K
  <2> QED BY <2>1, <2>2, <2>3, <2>5, KeepHighest
<1> QED BY <1>4, <1>5, <1>6, <1>7, <1>8

-----------------------------------------------------------------------------
(* 2. Days, buckets and lines. *)

LEMMA DayFacts ==
  /\ MaxDay \in Nat /\ Retention \in Nat \ {0} /\ MaxLines \in Nat
  /\ AllDays \subseteq Nat /\ Days \subseteq AllDays /\ LegacyDay \notin Days /\ IsFiniteSet(AllDays)
  /\ \A d \in Days : d \in Nat /\ d > 0
<1>1. /\ MaxDay \in Nat /\ Retention \in Nat \ {0} /\ MaxLines \in Nat
      /\ AllDays \in SUBSET Nat /\ Days \subseteq AllDays /\ LegacyDay \notin Days
      /\ \A d \in AllDays : d <= MaxDay
      /\ \A d \in Days : d \in Nat /\ d > 0
  BY UsageAssumption DEF AllDays, Days, LegacyDay
<1>2. IsFiniteSet(AllDays)
  BY <1>1, FS_BoundedSetOfNaturals
<1> QED BY <1>1, <1>2

LEMMA DaySetFacts ==
  ASSUME NEW D \in DaySets
  PROVE  /\ DOMAIN D \subseteq AllDays /\ DOMAIN D \subseteq Int /\ IsFiniteSet(DOMAIN D)
         /\ \A d \in DOMAIN D : D[d] \in Buckets
         /\ \A d : Bucket(D, d) \in Buckets
         /\ D = [d \in DOMAIN D |-> D[d]]
<1>1. PICK S \in SUBSET AllDays : D \in [S -> Buckets]
  BY DEF DaySets
<1>2. DOMAIN D = S /\ \A d \in S : D[d] \in Buckets
  BY <1>1
<1>3. IsFiniteSet(S) /\ S \subseteq Int
  <2>1. IsFiniteSet(AllDays) /\ S \subseteq Int
    BY DayFacts
  <2> QED BY <2>1, FS_Subset
<1>4. EmptyDay \in Buckets
  BY DEF EmptyDay, Buckets
<1> QED BY <1>1, <1>2, <1>3, <1>4 DEF Bucket

(* A bucket is put in the last day and the days are pruned. *)
LEMMA PutFacts ==
  ASSUME NEW D \in DaySets, NEW day \in Days, \A d \in DOMAIN D : d <= day, NEW b \in Buckets,
         NEW P, P = PruneDays(PutDay(D, day, b), Retention)
  PROVE  /\ P \in DaySets /\ DOMAIN P \subseteq DOMAIN D \cup {day} /\ day \in DOMAIN P /\ P[day] = b
         /\ \A d \in DOMAIN P : d # day => (d \in DOMAIN D /\ P[d] = D[d])
         /\ Cardinality(DOMAIN P) <= Retention
         /\ \A d \in Int : (d < day /\ (\/ d \in DOMAIN D \ DOMAIN P
                                        \/ Cardinality(Above(DOMAIN D, d)) >= Retention))
                            => Cardinality(Above(DOMAIN P, d)) >= Retention
<1>1. PICK E : E = PutDay(D, day, b)
  OBVIOUS
<1>2. /\ DOMAIN E = DOMAIN D \cup {day} /\ E[day] = b
      /\ \A d \in DOMAIN D : d # day => E[d] = D[d]
  BY <1>1 DEF PutDay
<1>3. DOMAIN D \subseteq AllDays /\ DOMAIN D \subseteq Int /\ IsFiniteSet(DOMAIN D) /\ day \in Int /\ day \in AllDays
      /\ \A d \in DOMAIN D : D[d] \in Buckets
  BY DaySetFacts, DayFacts
<1>4. E \in DaySets
  <2>1. E = [x \in DOMAIN D \cup {day} |-> IF x = day THEN b ELSE D[x]]
    BY <1>1 DEF PutDay
  <2>2. E \in [DOMAIN D \cup {day} -> Buckets]
    BY <2>1, <1>3
  <2>3. DOMAIN D \cup {day} \in SUBSET AllDays
    BY <1>3
  <2> QED BY <2>2, <2>3 DEF DaySets
<1>5. /\ P \in DaySets /\ DOMAIN P \subseteq DOMAIN E
      /\ \A d \in DOMAIN P : P[d] = E[d]
      /\ Cardinality(DOMAIN P) <= Retention
      /\ \A d \in DOMAIN E : (\A x \in DOMAIN E : x <= d) => d \in DOMAIN P
      /\ \A d \in Int : (\/ d \in DOMAIN E \ DOMAIN P
                        \/ Cardinality(Above(DOMAIN E, d)) >= Retention)
                         => Cardinality(Above(DOMAIN P, d)) >= Retention
  BY <1>1, <1>4, DayFacts, PruneFacts
<1>6. day \in DOMAIN P
  <2>1. \A x \in DOMAIN E : x <= day
    BY <1>2, <1>3
  <2> QED BY <2>1, <1>2, <1>5
<1>7. ASSUME NEW d \in Int, Cardinality(Above(DOMAIN D, d)) >= Retention
      PROVE  Cardinality(Above(DOMAIN E, d)) >= Retention
  <2>1. Above(DOMAIN D, d) \in SUBSET Above(DOMAIN E, d) /\ Above(DOMAIN E, d) \in SUBSET DOMAIN E
    BY <1>2 DEF Above
  <2>2. IsFiniteSet(DOMAIN E)
    BY <1>2, <1>3, FS_AddElement
  <2>3. IsFiniteSet(Above(DOMAIN E, d))
    BY <2>1, <2>2, FS_Subset
  <2>4. /\ Cardinality(Above(DOMAIN D, d)) <= Cardinality(Above(DOMAIN E, d))
        /\ IsFiniteSet(Above(DOMAIN D, d))
    BY <2>1, <2>3, FS_Subset
  <2>5. Cardinality(Above(DOMAIN D, d)) \in Nat /\ Cardinality(Above(DOMAIN E, d)) \in Nat
    BY <2>3, <2>4, FS_CardinalityType
  <2> QED BY <2>4, <2>5, <1>7, DayFacts
<1> QED BY <1>2, <1>5, <1>6, <1>7

LEMMA LogFacts ==
  ASSUME Types
  PROVE  /\ Len(log) \in Nat /\ DOMAIN log = 1..Len(log) /\ IsFiniteSet(DOMAIN log)
         /\ DOMAIN log \subseteq Nat
         /\ \A i \in DOMAIN log : /\ log[i].session \in Sessions /\ log[i].day \in Days
                                /\ log[i].tokens \in BOOLEAN /\ log[i].model \in Named
         /\ \A S : S \subseteq DOMAIN log => IsFiniteSet(S) /\ Cardinality(S) \in Nat
<1>1. log \in Seq(AnyLine)
  BY DEF Types
<1>2. Len(log) \in Nat /\ DOMAIN log = 1..Len(log) /\ \A i \in DOMAIN log : log[i] \in AnyLine
  BY <1>1
<1>3. IsFiniteSet(DOMAIN log)
  BY <1>2, FS_Interval
<1>4. \A S : S \subseteq DOMAIN log => IsFiniteSet(S) /\ Cardinality(S) \in Nat
  <2> SUFFICES ASSUME NEW S \in SUBSET DOMAIN log
               PROVE  IsFiniteSet(S) /\ Cardinality(S) \in Nat
    OBVIOUS
  <2> QED BY <1>3, FS_Subset, FS_CardinalityType
<1> QED BY <1>2, <1>3, <1>4 DEF AnyLine

(* Whichever file is the newest, it is one. *)
LEMMA NewestFile ==
  ASSUME Types, NEW files \in SUBSET Files
  PROVE  Newest(files) \in Sessions \cup {NoFile}
<1>1. CASE files = {}
  BY <1>1 DEF Newest
<1>2. CASE files # {}
  <2>1. PICK T : T = {i \in DOMAIN log : log[i].session \in files}
    OBVIOUS
  <2>2. T \subseteq DOMAIN log
    BY <2>1
  <2>3. T # {}
    <3>1. PICK s \in files : TRUE
      BY <1>2
    <3>2. PICK i \in DOMAIN log : log[i].session = s
      BY <3>1 DEF Files, Lines
    <3> QED BY <3>1, <3>2, <2>1
  <2>4. T \in SUBSET Int /\ IsFiniteSet(T)
    BY <2>2, LogFacts
  <2>5. Max(T) \in T
    BY <2>3, <2>4, LargestExists
  <2>6. Newest(files) = log[Max(T)].session
    BY <1>2, <2>1 DEF Newest
  <2> QED BY <2>2, <2>5, <2>6, LogFacts
<1> QED BY <1>1, <1>2

(* A read that begins with a model, or with none, ends with one, or none.   *)
LEMMA ModelTyped ==
  ASSUME Types, NEW lines \in SUBSET DOMAIN log, NEW model \in Named
  PROVE  /\ ModelAfter(lines, model) \in Named
         /\ \A i \in DOMAIN log : Resolved(i, lines, model) \in Named
<1>1. ASSUME NEW S \in SUBSET DOMAIN log
      PROVE  ModelAfter(S, model) \in Named
  <2>1. CASE Contexts(S) = {}
    BY <2>1 DEF ModelAfter
  <2>2. CASE Contexts(S) # {}
    <3>1. PICK T : T = Contexts(S)
      OBVIOUS
    <3>2. T \in SUBSET DOMAIN log /\ T # {}
      BY <2>2, <3>1 DEF Contexts
    <3>3. T \in SUBSET Int /\ IsFiniteSet(T)
      BY <3>2, LogFacts
    <3>4. Max(T) \in T
      BY <3>2, <3>3, LargestExists
    <3>5. ModelAfter(S, model) = log[Max(T)].model
      BY <2>2, <3>1 DEF ModelAfter
    <3> QED BY <3>2, <3>4, <3>5, LogFacts
  <2> QED BY <2>1, <2>2
<1>2. ASSUME NEW i \in DOMAIN log
      PROVE  Resolved(i, lines, model) \in Named
  <2>1. {j \in lines : j < i} \in SUBSET DOMAIN log
    OBVIOUS
  <2>2. ModelAfter({j \in lines : j < i}, model) \in Named
    BY <2>1, <1>1
  <2> QED BY <2>2, LogFacts DEF Resolved
<1> QED BY <1>1, <1>2

(* A file read in full gives an event its model, unless the file names none *)
(* before it.                                                               *)
LEMMA ReadInFull ==
  ASSUME NEW i, NEW model, Resolved(i, Lines(log[i].session), model) # ModelOf(i)
  PROVE  ModelOf(i) = NoModel
BY DEF ModelOf, Resolved, ModelAfter

(* The tail of a file no longer than a tail read is the file. *)
LEMMA ShortTail ==
  ASSUME Types, NEW s, Cardinality(Lines(s)) <= TailLines
  PROVE  TailOf(s) = Lines(s)
<1> SUFFICES ASSUME NEW i \in Lines(s)
             PROVE  Cardinality({j \in Lines(s) : j >= i}) <= TailLines
  BY DEF TailOf
<1>1. PICK L, A : L = Lines(s) /\ A = {j \in Lines(s) : j >= i}
  OBVIOUS
<1>2. L \subseteq DOMAIN log /\ A \in SUBSET L
  BY <1>1 DEF Lines
<1>3. IsFiniteSet(L) /\ Cardinality(L) \in Nat
  BY <1>2, LogFacts
<1>4. IsFiniteSet(A) /\ Cardinality(A) <= Cardinality(L)
  BY <1>2, <1>3, FS_Subset
<1>5. Cardinality(A) \in Nat /\ TailLines \in Nat
  BY <1>4, FS_CardinalityType, UsageAssumption
<1> QED BY <1>1, <1>3, <1>4, <1>5

LEMMA PairsFinite ==
  ASSUME NEW T, IsFiniteSet(T), NEW f, NEW A, A = {<<i, f[i]>> : i \in T}
  PROVE  IsFiniteSet(A)
<1>1. PICK g : g = [i \in T |-> <<i, f[i]>>]
  OBVIOUS
<1>2. g \in Surjection(T, A)
  BY <1>1 DEF Surjection
<1> QED BY <1>2, FS_Surjection

(* With the same files, every line has the same model. *)
LEMMA SameModels ==
  ASSUME UNCHANGED log, NEW i
  PROVE  ModelOf(i)' = ModelOf(i)
BY DEF ModelOf, Resolved, ModelAfter, Contexts, Lines

(* A read adds to what may be counted, if to anything. *)
LEMMA CountableGrows ==
  ASSUME Types, UNCHANGED log, misread \subseteq misread', IsFiniteSet(misread'), NEW d
  PROVE  /\ Countable(d) \subseteq Countable(d)' /\ IsFiniteSet(Countable(d)')
         /\ Cardinality(Countable(d)) \in Nat /\ Cardinality(Countable(d)') \in Nat
         /\ Cardinality(Countable(d)) <= Cardinality(Countable(d)')
<1>1. PICK A, B, f : /\ A = {<<i, f[i]>> : i \in TokensOf(d)} /\ B = {e \in misread' : log[e[1]].day = d}
                     /\ f = [i \in TokensOf(d) |-> ModelOf(i)]
  OBVIOUS
<1>2. IsFiniteSet(TokensOf(d))
  <2>1. TokensOf(d) \subseteq DOMAIN log
    BY DEF TokensOf
  <2> QED BY <2>1, LogFacts
<1>3. IsFiniteSet(A)
  BY <1>1, <1>2, PairsFinite
<1>4. IsFiniteSet(A \cup B)
  <2>1. IsFiniteSet(B)
    BY <1>1, FS_Subset
  <2> QED BY <1>3, <2>1, FS_Union
<1>5. TokensOf(d)' = TokensOf(d) /\ \A i : ModelOf(i)' = ModelOf(i)
  BY SameModels DEF TokensOf
<1>6. A = {<<i, ModelOf(i)>> : i \in TokensOf(d)}
  BY <1>1
<1>7. Countable(d)' = A \cup B
  BY <1>1, <1>5, <1>6 DEF Countable
<1>8. Countable(d) \subseteq A \cup B
  BY <1>1, <1>6 DEF Countable
<1>9. PICK X, Y : X = Countable(d) /\ Y = Countable(d)'
  OBVIOUS
<1>10. X \in SUBSET Y /\ IsFiniteSet(Y)
  BY <1>4, <1>7, <1>8, <1>9
<1>11. IsFiniteSet(X) /\ Cardinality(X) <= Cardinality(Y)
  BY <1>10, FS_Subset
<1>12. Cardinality(X) \in Nat /\ Cardinality(Y) \in Nat
  BY <1>10, <1>11, FS_CardinalityType
<1> QED BY <1>9, <1>10, <1>11, <1>12

(* What reads of today's lines return: every line with one model, and those *)
(* whose model is not the event's among the misread.                        *)
LEMMA EventFacts ==
  ASSUME Types, NEW f \in [DOMAIN log -> Named],
         NEW events, events \subseteq {<<i, f[i]>> : i \in TokensOf(today)}
  PROVE  /\ events \subseteq (DOMAIN log) \X Named /\ Misread(events) \subseteq events
         /\ IsFiniteSet(events) /\ Cardinality(events) \in Nat /\ IsFiniteSet(Misread(events))
         /\ events \subseteq {<<i, ModelOf(i)>> : i \in TokensOf(today)}
                           \cup {e \in Misread(events) : log[e[1]].day = today}
<1>1. PICK T, A : T = TokensOf(today) /\ A = {<<i, f[i]>> : i \in TokensOf(today)}
  OBVIOUS
<1>2. T \subseteq DOMAIN log /\ \A i \in T : log[i].day = today
  BY <1>1 DEF TokensOf
<1>3. IsFiniteSet(A)
  <2>1. IsFiniteSet(T)
    BY <1>2, LogFacts
  <2> QED BY <1>1, <2>1, PairsFinite
<1>4. IsFiniteSet(events) /\ Cardinality(events) \in Nat
  BY <1>1, <1>3, FS_Subset, FS_CardinalityType
<1>5. Misread(events) \subseteq events
  BY DEF Misread
<1>6. IsFiniteSet(Misread(events))
  BY <1>4, <1>5, FS_Subset
<1>7. \A e \in events : \E i \in T : e = <<i, f[i]>>
  BY <1>1
<1>8. events \subseteq (DOMAIN log) \X Named
  BY <1>2, <1>7
<1>9. ASSUME NEW e \in events
      PROVE  \/ e \in {<<i, ModelOf(i)>> : i \in TokensOf(today)}
             \/ e \in Misread(events) /\ log[e[1]].day = today
  <2>1. PICK i \in T : e = <<i, f[i]>>
    BY <1>7
  <2>2. e[1] = i /\ e[2] = f[i] /\ log[e[1]].day = today
    BY <1>2, <2>1
  <2>3. CASE f[i] = ModelOf(i)
    BY <1>1, <2>1, <2>3
  <2>4. CASE f[i] # ModelOf(i)
    BY <2>2, <2>4 DEF Misread
  <2> QED BY <2>3, <2>4
<1> QED BY <1>4, <1>5, <1>6, <1>8, <1>9

LEMMA FingerprintFacts ==
  ASSUME Types, NEW lines \in SUBSET DOMAIN log, NEW model \in Named
  PROVE  \E f \in [DOMAIN log -> Named] :
           Fingerprints(lines, model) \subseteq {<<i, f[i]>> : i \in TokensOf(today)}
<1>1. PICK f : f = [i \in DOMAIN log |-> Resolved(i, lines, model)]
  OBVIOUS
<1>2. f \in [DOMAIN log -> Named]
  BY <1>1, ModelTyped
<1>3. Fingerprints(lines, model) \subseteq {<<i, f[i]>> : i \in TokensOf(today)}
  BY <1>1 DEF Fingerprints, Tokens, TokensOf
<1> QED BY <1>2, <1>3

(* A line lies in one file, so a scan of several files reads it once. *)
LEMMA ScannedFacts ==
  ASSUME Types, NEW files
  PROVE  /\ ModelAfterFiles(files) \in Named
         /\ \E f \in [DOMAIN log -> Named] :
              Scanned(files) \subseteq {<<i, f[i]>> : i \in TokensOf(today)}
<1> DEFINE Start0(t) == ModelAfterFiles({r \in files : ScanOrder(r) < ScanOrder(t)})
<1>1. \A t : Lines(t) \in SUBSET DOMAIN log /\ \A i \in Lines(t) : log[i].session = t
  BY DEF Lines
<1>2. \A S : ModelAfterFiles(S) \in Named
  <2> SUFFICES ASSUME NEW S
               PROVE  ModelAfterFiles(S) \in Named
    OBVIOUS
  <2>1. \A t : ModelAfter(Lines(t), NoModel) \in Named
    BY <1>1, ModelTyped DEF Named
  <2> QED BY <2>1 DEF ModelAfterFiles, Named
<1>3. PICK f : f = [i \in DOMAIN log |-> Resolved(i, Lines(log[i].session), Start0(log[i].session))]
  OBVIOUS
<1>4. f \in [DOMAIN log -> Named]
  <2>1. \A i \in DOMAIN log : Resolved(i, Lines(log[i].session), Start0(log[i].session)) \in Named
    BY <1>1, <1>2, ModelTyped
  <2> QED BY <1>3, <2>1
<1>5. ASSUME NEW e \in Scanned(files)
      PROVE  e \in {<<i, f[i]>> : i \in TokensOf(today)}
  <2>1. PICK t \in files : e \in Fingerprints(Lines(t), Start0(t))
    BY DEF Scanned
  <2>2. PICK i \in Tokens(Lines(t)) : log[i].day = today /\ e = <<i, Resolved(i, Lines(t), Start0(t))>>
    BY <2>1 DEF Fingerprints
  <2>3. i \in DOMAIN log /\ log[i].session = t /\ i \in TokensOf(today)
    BY <1>1, <2>2 DEF Tokens, TokensOf
  <2>4. f[i] = Resolved(i, Lines(t), Start0(t))
    BY <1>3, <2>3
  <2> QED BY <2>2, <2>3, <2>4
<1> QED BY <1>2, <1>4, <1>5

(* Why a read may find another model than the event's. *)
Explained(e) == Cardinality(Lines(log[e[1]].session)) > TailLines \/ ModelOf(e[1]) = NoModel

LEMMA ReadExplained ==
  ASSUME Types, NEW t, NEW lines, lines = Lines(t) \/ lines = TailOf(t) \/ lines = {},
         NEW model, NEW e \in Misread(Fingerprints(lines, model))
  PROVE  Explained(e)
<1>1. PICK i \in lines : e = <<i, Resolved(i, lines, model)>>
  BY DEF Misread, Fingerprints, Tokens
<1>2. e[1] = i /\ Resolved(i, lines, model) # ModelOf(i)
  BY <1>1 DEF Misread
<1>3. i \in Lines(t) /\ log[i].session = t
  BY <1>1 DEF Lines, TailOf
<1>4. Cardinality(Lines(t)) \in Nat /\ TailLines \in Nat
  <2>1. Lines(t) \subseteq DOMAIN log
    BY DEF Lines
  <2> QED BY <2>1, LogFacts, UsageAssumption
<1>5. CASE Cardinality(Lines(t)) <= TailLines
  <2>1. lines = Lines(t)
    BY <1>1, <1>5, ShortTail
  <2>2. ModelOf(i) = NoModel
    BY <1>2, <1>3, <2>1, ReadInFull
  <2> QED BY <1>2, <2>2 DEF Explained
<1>6. CASE Cardinality(Lines(t)) > TailLines
  BY <1>2, <1>3, <1>6 DEF Explained
<1> QED BY <1>4, <1>5, <1>6

LEMMA ScanExplained ==
  ASSUME Types, NEW files, NEW e \in Misread(Scanned(files))
  PROVE  Explained(e)
<1>1. PICK t \in files : \E model : e \in Fingerprints(Lines(t), model)
  BY DEF Misread, Scanned
<1>2. PICK model : e \in Fingerprints(Lines(t), model)
  BY <1>1
<1>3. e \in Misread(Fingerprints(Lines(t), model))
  BY <1>2 DEF Misread
<1> QED BY <1>3, ReadExplained

LEMMA ExplainedGrows ==
  ASSUME MisreadsExplained, UNCHANGED log, NEW M, misread' \subseteq misread \cup M,
         \A e \in M : Explained(e)
  PROVE  MisreadsExplained'
<1>1. \A t : Lines(t)' = Lines(t)
  BY DEF Lines
<1>2. \A i : ModelOf(i)' = ModelOf(i)
  BY SameModels
<1>3. \A e \in misread' : Explained(e)
  BY DEF MisreadsExplained, Explained
<1> QED BY <1>1, <1>2, <1>3 DEF MisreadsExplained, Explained

-----------------------------------------------------------------------------
(* 3. The ledger's operations. *)

LEMMA LedgerFields ==
  ASSUME NEW L \in Ledgers
  PROVE  /\ L.days \in DaySets /\ L.baselines \in Baselines /\ L.dirty \in BOOLEAN
         /\ DOMAIN L.baselines \subseteq Sessions
         /\ \A t \in DOMAIN L.baselines : L.baselines[t] \in Nat
<1>1. L.days \in DaySets /\ L.baselines \in Baselines /\ L.dirty \in BOOLEAN
  BY DEF Ledgers
<1>2. PICK T \in SUBSET Sessions : L.baselines \in [T -> Nat]
  BY <1>1 DEF Baselines
<1> QED BY <1>1, <1>2

(* A day put and pruned, in a ledger. *)
LEMMA ChangedFacts ==
  ASSUME NEW L \in Ledgers, NEW D, D \in DaySets, NEW M, M = Changed(L, D, Retention)
  PROVE  /\ M \in Ledgers /\ M.days = PruneDays(D, Retention) /\ M.baselines = L.baselines
<1>1. PruneDays(D, Retention) \in DaySets
  BY DayFacts, PruneFacts
<1>2. M = [L EXCEPT !.days = PruneDays(D, Retention), !.dirty = TRUE]
  BY DEF Changed
<1> QED BY <1>1, <1>2 DEF Ledgers

LEMMA PutTyped ==
  ASSUME NEW D \in DaySets, NEW day \in Days, NEW b \in Buckets
  PROVE  PutDay(D, day, b) \in DaySets
<1>1. DOMAIN D \cup {day} \in SUBSET AllDays
  BY DaySetFacts, DayFacts
<1>2. PutDay(D, day, b) \in [DOMAIN D \cup {day} -> Buckets]
  BY DaySetFacts DEF PutDay
<1> QED BY <1>1, <1>2 DEF DaySets

LEMMA ObserveFacts ==
  ASSUME NEW L \in Ledgers, NEW day \in Days, NEW c, DOMAIN c \subseteq Sessions,
         \A t \in DOMAIN c : c[t] \in Nat, NEW n, n = Increase(L, c), n \in Nat,
         NEW M, M = Observe(L, day, c, Retention)
  PROVE  /\ M \in Ledgers
         /\ DOMAIN M.baselines = DOMAIN c \cup DOMAIN L.baselines
         /\ \A t \in DOMAIN c : M.baselines[t] = c[t]
         /\ \A t \in DOMAIN L.baselines \ DOMAIN c : M.baselines[t] = L.baselines[t]
         /\ \/ n = 0 /\ M.days = L.days
            \/ \E b \in Buckets :
                 /\ b.total = Bucket(L.days, day).total + n
                 /\ b.detailed = Bucket(L.days, day).detailed
                 /\ M.days = PruneDays(PutDay(L.days, day, b), Retention)
<1>1. PICK base : base = [t \in DOMAIN c \cup DOMAIN L.baselines |-> IF t \in DOMAIN c THEN c[t] ELSE L.baselines[t]]
  OBVIOUS
<1>2. /\ base \in Baselines /\ DOMAIN base = DOMAIN c \cup DOMAIN L.baselines
      /\ \A t \in DOMAIN c : base[t] = c[t]
      /\ \A t \in DOMAIN L.baselines \ DOMAIN c : base[t] = L.baselines[t]
  <2>1. DOMAIN c \cup DOMAIN L.baselines \in SUBSET Sessions
    BY LedgerFields
  <2>2. base \in [DOMAIN c \cup DOMAIN L.baselines -> Nat]
    BY <1>1, LedgerFields
  <2> QED BY <1>1, <2>1, <2>2 DEF Baselines
<1>3. PICK rebased : rebased = [L EXCEPT !.baselines = base]
  OBVIOUS
<1>4. rebased \in Ledgers /\ rebased.days = L.days /\ rebased.baselines = base
  BY <1>2, <1>3 DEF Ledgers
<1>5. PICK old : old = Bucket(L.days, day)
  OBVIOUS
<1>6. old \in Buckets /\ L.days \in DaySets
  BY <1>5, LedgerFields, DaySetFacts
<1>7. PICK b : b = [old EXCEPT !.total = @ + n]
  OBVIOUS
<1>8. b \in Buckets /\ b.total = old.total + n /\ b.detailed = old.detailed
  BY <1>6, <1>7 DEF Buckets
<1>9. rebased = [L EXCEPT !.baselines =
                    [t \in DOMAIN c \cup DOMAIN @ |-> IF t \in DOMAIN c THEN c[t] ELSE @[t]]]
  BY <1>1, <1>3 DEF Ledgers
<1>10. M = IF n = 0 THEN rebased ELSE Changed(rebased, PutDay(L.days, day, b), Retention)
  BY <1>5, <1>7, <1>9 DEF Observe
<1>11. CASE n = 0
  BY <1>2, <1>4, <1>10, <1>11
<1>12. CASE n # 0
  <2>1. PutDay(L.days, day, b) \in DaySets
    BY <1>6, <1>8, PutTyped
  <2>2. /\ M \in Ledgers /\ M.days = PruneDays(PutDay(L.days, day, b), Retention)
        /\ M.baselines = base
    BY <2>1, <1>4, <1>10, <1>12, ChangedFacts
  <2> QED BY <2>2, <1>2, <1>5, <1>8
<1> QED BY <1>11, <1>12

LEMMA SessionEventsFacts ==
  ASSUME NEW L \in Ledgers, NEW day \in Days, NEW n \in Nat,
         NEW M, M = ObserveSessionEvents(L, day, n, Retention)
  PROVE  /\ M \in Ledgers /\ M.baselines = L.baselines
         /\ \/ n = 0 /\ M.days = L.days
            \/ \E b \in Buckets :
                 /\ b.total = Bucket(L.days, day).total + n
                 /\ b.detailed = Bucket(L.days, day).detailed + n
                 /\ M.days = PruneDays(PutDay(L.days, day, b), Retention)
<1>1. PICK old : old = Bucket(L.days, day)
  OBVIOUS
<1>2. old \in Buckets /\ L.days \in DaySets
  BY <1>1, LedgerFields, DaySetFacts
<1>3. PICK b : b = [total |-> old.total + n, detailed |-> old.detailed + n]
  OBVIOUS
<1>4. b \in Buckets /\ b.total = old.total + n /\ b.detailed = old.detailed + n
  BY <1>2, <1>3 DEF Buckets
<1>5. M = IF n = 0 THEN L ELSE Changed(L, PutDay(L.days, day, b), Retention)
  BY <1>1, <1>3 DEF ObserveSessionEvents
<1>6. CASE n = 0
  BY <1>5, <1>6
<1>7. CASE n # 0
  <2>1. PutDay(L.days, day, b) \in DaySets
    BY <1>2, <1>4, PutTyped
  <2>2. /\ M \in Ledgers /\ M.days = PruneDays(PutDay(L.days, day, b), Retention)
        /\ M.baselines = L.baselines
    BY <2>1, <1>5, <1>7, ChangedFacts
  <2> QED BY <2>2, <1>1, <1>4
<1> QED BY <1>6, <1>7

LEMMA ReplaceFacts ==
  ASSUME NEW L \in Ledgers, NEW day \in Days, NEW n \in Nat,
         NEW M, M = ReplaceSessionDay(L, day, n, Retention)
  PROVE  /\ M \in Ledgers /\ M.baselines = L.baselines
         /\ \E b \in Buckets :
              /\ b.total = n /\ b.detailed = n
              /\ \/ day \in DOMAIN L.days /\ L.days[day] = b /\ M.days = L.days
                 \/ M.days = PruneDays(PutDay(L.days, day, b), Retention)
<1>1. PICK b : b = [total |-> n, detailed |-> n]
  OBVIOUS
<1>2. b \in Buckets /\ b.total = n /\ b.detailed = n /\ L.days \in DaySets
  BY <1>1, LedgerFields DEF Buckets
<1>3. M = IF day \in DOMAIN L.days /\ L.days[day] = b THEN L
          ELSE Changed(L, PutDay(L.days, day, b), Retention)
  BY <1>1 DEF ReplaceSessionDay
<1>4. CASE day \in DOMAIN L.days /\ L.days[day] = b
  BY <1>2, <1>3, <1>4
<1>5. CASE ~(day \in DOMAIN L.days /\ L.days[day] = b)
  <2>1. PutDay(L.days, day, b) \in DaySets
    BY <1>2, PutTyped
  <2>2. /\ M \in Ledgers /\ M.days = PruneDays(PutDay(L.days, day, b), Retention)
        /\ M.baselines = L.baselines
    BY <2>1, <1>3, <1>5, ChangedFacts
  <2> QED BY <2>2, <1>2
<1> QED BY <1>4, <1>5

(* What is loaded: the days of the store, repaired. *)
LEMMA LoadFacts ==
  ASSUME NEW D \in DaySets, NEW M, M = LoadLedger(D)
  PROVE  /\ M \in Ledgers /\ M.baselines = NoBaselines /\ DOMAIN M.days = DOMAIN D
         /\ \A d \in DOMAIN D : M.days[d] = Canonical(D[d])
<1>1. PICK E : E = [d \in DOMAIN D |-> Canonical(D[d])]
  OBVIOUS
<1>2. E \in DaySets
  <2>1. \A d \in DOMAIN D : Canonical(D[d]) \in Buckets
    <3> SUFFICES ASSUME NEW d \in DOMAIN D
                 PROVE  Canonical(D[d]) \in Buckets
      OBVIOUS
    <3>1. D[d] \in Buckets
      BY DaySetFacts
    <3> QED BY <3>1 DEF Canonical, Buckets
  <2>2. E \in [DOMAIN D -> Buckets] /\ DOMAIN D \in SUBSET AllDays
    BY <1>1, <2>1, DaySetFacts
  <2> QED BY <2>2 DEF DaySets
<1>3. M = [EmptyLedger EXCEPT !.days = E, !.dirty = (E # D)]
  BY <1>1 DEF LoadLedger
<1>4. EmptyLedger \in Ledgers /\ EmptyLedger.baselines = NoBaselines
  <2>1. NoDays \in [{} -> Buckets] /\ NoBaselines \in [{} -> Nat]
    BY DEF NoDays, NoBaselines
  <2>2. NoDays \in DaySets /\ NoBaselines \in Baselines
    BY <2>1 DEF DaySets, Baselines
  <2> QED BY <2>2 DEF EmptyLedger, Ledgers
<1>5. M \in Ledgers /\ M.days = E /\ M.baselines = NoBaselines
  BY <1>2, <1>3, <1>4 DEF Ledgers
<1> QED BY <1>1, <1>5

LEMMA EmptyFacts ==
  /\ EmptyLedger \in Ledgers /\ EmptyLedger.baselines = NoBaselines /\ EmptyLedger.days = NoDays
  /\ NoDays \in DaySets /\ DOMAIN NoDays = {} /\ DOMAIN NoBaselines = {} /\ Undetailed(NoDays) = {}
<1>1. NoDays \in [{} -> Buckets] /\ NoBaselines \in [{} -> Nat]
  BY DEF NoDays, NoBaselines
<1>2. NoDays \in DaySets /\ NoBaselines \in Baselines
  BY <1>1 DEF DaySets, Baselines
<1>3. EmptyLedger \in Ledgers /\ EmptyLedger.baselines = NoBaselines /\ EmptyLedger.days = NoDays
  BY <1>2 DEF EmptyLedger, Ledgers
<1>4. DOMAIN NoDays = {} /\ DOMAIN NoBaselines = {}
  BY <1>1
<1> QED BY <1>2, <1>3, <1>4 DEF Undetailed

-----------------------------------------------------------------------------
(* 4. A poll: today's bucket is put, or nothing is. *)

(* What a poll makes of the days D: P, with x tokens of today detailed. *)
Polled(D, P, x) ==
  /\ P \in DaySets /\ DOMAIN P \subseteq DOMAIN D \cup {today}
  /\ Bucket(P, today).detailed = x
  /\ \A d \in DOMAIN P : d # today => (d \in DOMAIN D /\ P[d] = D[d])
  /\ Cardinality(DOMAIN P) <= Retention
  /\ \A d \in Int : (d < today /\ (\/ d \in DOMAIN D \ DOMAIN P
                                   \/ Cardinality(Above(DOMAIN D, d)) >= Retention))
                      => Cardinality(Above(DOMAIN P, d)) >= Retention

LEMMA PolledPut ==
  ASSUME EventsInv, NEW b \in Buckets,
         NEW P, P = PruneDays(PutDay(ledger.days, today, b), Retention)
  PROVE  Polled(ledger.days, P, b.detailed)
<1>1. ledger.days \in DaySets /\ today \in Days /\ \A d \in DOMAIN ledger.days : d <= today
  BY LedgerFields DEF EventsInv, TypeOK, Types, NotAhead
<1>2. PICK D : D = ledger.days
  OBVIOUS
<1>3. /\ P \in DaySets /\ DOMAIN P \subseteq DOMAIN D \cup {today} /\ today \in DOMAIN P /\ P[today] = b
      /\ \A d \in DOMAIN P : d # today => (d \in DOMAIN D /\ P[d] = D[d])
      /\ Cardinality(DOMAIN P) <= Retention
      /\ \A d \in Int : (d < today /\ (\/ d \in DOMAIN D \ DOMAIN P
                                       \/ Cardinality(Above(DOMAIN D, d)) >= Retention))
                          => Cardinality(Above(DOMAIN P, d)) >= Retention
  BY <1>1, <1>2, PutFacts
<1> QED BY <1>2, <1>3 DEF Polled, Bucket

LEMMA PolledNothing ==
  ASSUME EventsInv, running
  PROVE  Polled(ledger.days, ledger.days, Bucket(ledger.days, today).detailed)
<1>1. ledger.days \in DaySets /\ Cardinality(DOMAIN ledger.days) <= Retention
  BY LedgerFields DEF EventsInv, TypeOK, Types
<1> QED BY <1>1 DEF Polled

LEMMA PolledTypes ==
  ASSUME EventsInv, NEW P, NEW x, Polled(ledger.days, P, x)
  PROVE  IsDays(P) /\ Cardinality(DOMAIN P) <= Retention /\ \A d \in DOMAIN P : d <= today
<1>1. P \in DaySets /\ DOMAIN P \subseteq DOMAIN ledger.days \cup {today} /\ Cardinality(DOMAIN P) <= Retention
  BY DEF Polled
<1>2. today \in Nat /\ \A d \in DOMAIN ledger.days : d <= today
  BY DayFacts DEF EventsInv, TypeOK, NotAhead
<1>3. \A d \in DOMAIN P : d <= today
  BY <1>1, <1>2
<1> QED BY <1>1, <1>3, DaySetFacts DEF IsDays

(* Whatever a poll has put, it keeps the count of the events if today's      *)
(* bucket is right.                                                          *)
LEMMA PollCountsOnce ==
  ASSUME EventsInv, NEW x, Polled(ledger.days, ledger'.days, x), UNCHANGED <<today, log>>,
         fromDisk \subseteq fromDisk' \cup {today},
         misread \subseteq misread', IsFiniteSet(misread'),
         today \notin fromDisk' => x <= Cardinality(Countable(today)')
  PROVE  CountedOnce'
<1> SUFFICES ASSUME NEW d \in (DOMAIN ledger'.days \cap Days) \ fromDisk'
             PROVE  ledger'.days[d].detailed <= Cardinality(Countable(d)')
  BY DEF CountedOnce
<1>1. CASE d = today
  BY <1>1 DEF Polled, Bucket
<1>2. CASE d # today
  <2>1. d \in (DOMAIN ledger.days \cap Days) \ fromDisk /\ ledger'.days[d] = ledger.days[d]
    BY <1>2 DEF Polled
  <2>2. PICK X, Y, n : X = Countable(d) /\ Y = Countable(d)' /\ n = ledger.days[d].detailed
    OBVIOUS
  <2>3. n <= Cardinality(X)
    BY <2>1, <2>2 DEF EventsInv, CountedOnce
  <2>4. Cardinality(X) <= Cardinality(Y) /\ Cardinality(X) \in Nat /\ Cardinality(Y) \in Nat
    <3>1. Types
      BY DEF EventsInv
    <3> QED BY <2>2, <3>1, CountableGrows
  <2>5. n \in Nat
    <3>1. ledger.days[d] \in Buckets
      BY <2>1 DEF EventsInv, TypeOK, IsDays
    <3> QED BY <2>2, <3>1 DEF Buckets
  <2> QED BY <2>1, <2>2, <2>3, <2>4, <2>5
<1> QED BY <1>1, <1>2

LEMMA PollKeepsFresh ==
  ASSUME EventsInv, NEW x, Polled(ledger.days, ledger'.days, x), UNCHANGED <<today, log>>,
         fromDisk \subseteq fromDisk' \cup {today},
         tailDay' = today \/ tailDay' = tailDay,
         (tailDay' < today /\ today \notin fromDisk') => x = 0
  PROVE  FreshDays'
<1> SUFFICES ASSUME NEW d \in DOMAIN ledger'.days \ fromDisk', tailDay' < d
             PROVE  ledger'.days[d].detailed = 0
  BY DEF FreshDays
<1>1. CASE d = today
  BY <1>1 DEF Polled, Bucket
<1>2. CASE d # today
  <2>1. d \in DOMAIN ledger.days \ fromDisk /\ ledger'.days[d] = ledger.days[d]
    BY <1>2 DEF Polled
  <2>2. d <= today /\ d \in Nat /\ today \in Nat
    BY <2>1, DayFacts DEF EventsInv, NotAhead, TypeOK, IsDays
  <2>3. tailDay' = tailDay
    BY <1>2, <2>2
  <2> QED BY <2>1, <2>3 DEF EventsInv, FreshDays
<1> QED BY <1>1, <1>2

(* Nothing lies above today, so the retention never takes today's bucket. *)
LEMMA TodayIsKept ==
  ASSUME EventsInv
  PROVE  ~DroppedByRetention(today)
<1>1. PICK T : T = {x \in DOMAIN ledger.days : x > today}
  OBVIOUS
<1>2. T = {}
  <2>1. today \in Nat /\ \A d \in DOMAIN ledger.days : d <= today /\ d \in Nat
    BY DayFacts DEF EventsInv, NotAhead, TypeOK, IsDays
  <2> QED BY <2>1, <1>1
<1>3. Cardinality(T) = 0
  BY <1>2, FS_EmptySet
<1> QED BY <1>1, <1>3, DayFacts DEF DroppedByRetention

LEMMA PollSeenIsCounted ==
  ASSUME EventsInv, NEW x, Polled(ledger.days, ledger'.days, x), UNCHANGED <<today, log>>, running,
         fromDisk \subseteq fromDisk' \cup {today},
         tailDay' = today \/ UNCHANGED <<tailDay, seen, forgotten>>,
         (tailDay' = today /\ today \notin fromDisk') => x = Cardinality(seen' \ forgotten')
  PROVE  SeenIsCounted'
<1> SUFFICES ASSUME tailDay' # 0, tailDay' \notin fromDisk'
             PROVE  \/ Bucket(ledger'.days, tailDay').detailed = Cardinality(seen' \ forgotten')
                    \/ DroppedByRetention(tailDay)'
  BY DEF SeenIsCounted
<1>1. CASE tailDay' = today
  BY <1>1 DEF Polled
<1>2. CASE tailDay' # today
  <2>1. UNCHANGED <<tailDay, seen, forgotten>> /\ tailDay \notin fromDisk /\ tailDay # today /\ tailDay # 0
    BY <1>2
  <2>2. tailDay \in Int /\ tailDay < today
    BY <2>1, DayFacts DEF EventsInv, NotAhead, TypeOK
  <2>3. PICK d : d = tailDay
    OBVIOUS
  <2>4. PICK D, P : D = ledger.days /\ P = ledger'.days
    OBVIOUS
  <2>5. \/ Bucket(D, d).detailed = Cardinality(seen \ forgotten)
        \/ d \notin DOMAIN D /\ Cardinality(Above(DOMAIN D, d)) >= Retention
    BY <2>1, <2>3, <2>4 DEF EventsInv, SeenIsCounted, DroppedByRetention, Above
  <2>6. \/ d \in DOMAIN P /\ d \in DOMAIN D /\ P[d] = D[d]
        \/ d \notin DOMAIN P /\ d \in DOMAIN D \ DOMAIN P
        \/ d \notin DOMAIN P /\ d \notin DOMAIN D
    BY <2>1, <2>3, <2>4 DEF Polled
  <2>7. (d \in DOMAIN D \ DOMAIN P \/ Cardinality(Above(DOMAIN D, d)) >= Retention)
          => Cardinality(Above(DOMAIN P, d)) >= Retention
    BY <2>2, <2>3, <2>4 DEF Polled
  <2>8. Bucket(P, d) = Bucket(D, d) \/ (d \notin DOMAIN P /\ Cardinality(Above(DOMAIN P, d)) >= Retention)
    BY <2>6, <2>7 DEF Bucket
  <2>9. \/ Bucket(P, d).detailed = Cardinality(seen \ forgotten)
        \/ d \notin DOMAIN P /\ Cardinality(Above(DOMAIN P, d)) >= Retention
    BY <2>5, <2>6, <2>7, <2>8
  <2> QED BY <2>1, <2>3, <2>4, <2>9 DEF DroppedByRetention, Above
<1> QED BY <1>1, <1>2

(* A poll that leaves today's bucket and the tailer in step keeps the count *)
(* of the events.                                                           *)
LEMMA PollKeepsEvents ==
  ASSUME EventsInv, running, NEW x, Polled(ledger.days, ledger'.days, x), ledger' \in Ledgers,
         UNCHANGED <<world, process, disk, clearedAt>>, authoritative' \in BOOLEAN,
         tailFile' \in Sessions \cup {NoFile},
         fromDisk' \subseteq fromDisk, fromDisk \subseteq fromDisk' \cup {today},
         tailDay' = today \/ UNCHANGED <<tailDay, seen, forgotten>>,
         currentModel' \in Named, seen' \cup misread' \subseteq (DOMAIN log) \X Named,
         misread \subseteq misread', IsFiniteSet(misread'), MisreadsExplained',
         seen' \subseteq Countable(tailDay)', forgotten' \subseteq seen',
         (tailDay' = today /\ today \notin fromDisk') => x = Cardinality(seen' \ forgotten'),
         (tailDay' < today /\ today \notin fromDisk') => x = 0
  PROVE  EventsInv'
<1> USE DEF world, process, disk
<1>1. today \in Days /\ today \in Nat /\ tailDay \in Nat /\ tailDay <= today
  BY DayFacts DEF EventsInv, TypeOK, NotAhead
<1>2. IsFiniteSet(Countable(today)') /\ Cardinality(Countable(today)') \in Nat
  BY CountableGrows DEF EventsInv
<1>3. tailDay' \in Days \cup {0} /\ tailDay' <= today /\ tailDay' \in Nat
  BY <1>1, DayFacts DEF EventsInv, TypeOK
<1>4. today \notin fromDisk' => x <= Cardinality(Countable(today)')
  <2>1. CASE tailDay' = today
    <3>1. PICK C, S : C = Countable(today)' /\ S = seen' \ forgotten'
      OBVIOUS
    <3>2. Countable(tailDay)' = Countable(today)'
      BY <2>1 DEF Countable, TokensOf
    <3>3. S \in SUBSET C /\ IsFiniteSet(C)
      BY <1>2, <3>1, <3>2
    <3>4. Cardinality(S) <= Cardinality(C)
      BY <3>3, FS_Subset
    <3> QED BY <2>1, <3>1, <3>4
  <2>2. CASE tailDay' # today
    <3>1. tailDay' < today
      BY <1>1, <1>3, <2>2
    <3> QED BY <3>1, <1>2
  <2> QED BY <2>1, <2>2
<1>5. IsDays(ledger'.days) /\ Cardinality(DOMAIN ledger'.days) <= Retention
      /\ \A d \in DOMAIN ledger'.days : d <= today
  BY PolledTypes
<1>6. /\ ledger'.dirty \in BOOLEAN /\ DOMAIN ledger'.baselines \subseteq Sessions
  BY LedgerFields
<1>7. TypeOK'
  <2>1. /\ today' \in Days /\ Len(log') <= MaxLines /\ starts' \in 0..MaxStarts
        /\ clearedAt' \in 0..MaxLines /\ storedClearedAt' \in 0..MaxLines /\ IsDays(stored')
        /\ legacy' \in LegacyLedgers
    BY DEF EventsInv, TypeOK
  <2>2. running' \in BOOLEAN /\ authoritative' \in BOOLEAN /\ ledger'.dirty \in BOOLEAN
    BY <1>6 DEF EventsInv, TypeOK
  <2>3. /\ seen' \cup misread' \subseteq (DOMAIN log') \X (Models \cup {NoModel})
        /\ currentModel' \in Models \cup {NoModel}
        /\ forgotten' \subseteq seen' /\ fromDisk' \subseteq AllDays
    BY DEF EventsInv, TypeOK, Named
  <2>4. IsDays(ledger.days)' /\ IsDays(stored)'
    BY <1>5, <2>1 DEF IsDays
  <2> QED BY <2>1, <2>2, <2>3, <2>4, <1>3, <1>5, <1>6 DEF TypeOK
<1>8. Types' /\ Stopped'
  BY DEF EventsInv, Types, Stopped
<1>9. NotAhead'
  BY <1>3, <1>5 DEF EventsInv, NotAhead
<1>10. SeenOfDay'
  BY DEF SeenOfDay
<1>11. CountedOnce'
  BY <1>4, PollCountsOnce
<1>12. FreshDays'
  BY PollKeepsFresh
<1>13. SeenIsCounted'
  BY PollSeenIsCounted
<1> QED BY <1>7, <1>8, <1>9, <1>10, <1>11, <1>12, <1>13 DEF EventsInv

-----------------------------------------------------------------------------
(* 5. The fallback's frame. *)

LEMMA CounterFacts ==
  ASSUME Types
  PROVE  /\ DOMAIN ThreadCounters = Files /\ Files \subseteq Sessions
         /\ \A s \in Files : ThreadCounters[s] = Cardinality(Tokens(Lines(s)))
         /\ \A s : Tokens(Lines(s)) \in SUBSET DOMAIN log /\ Cardinality(Tokens(Lines(s))) \in Nat
<1>1. \A s : Tokens(Lines(s)) \in SUBSET DOMAIN log
  BY DEF Tokens, Lines
<1> QED BY <1>1, LogFacts DEF ThreadCounters, Files

(* The lines a frame will take in. *)
Unaccounted == LinesAfter(clearedAt) \ Accounted

(* Every token of a counter above its baseline is a line after the last      *)
(* clear that no baseline has taken in yet.                                  *)
LEMMA IncreaseIsLines ==
  ASSUME UsageInv
  PROVE  /\ Increase(ledger, ThreadCounters) \in Nat
         /\ Increase(ledger, ThreadCounters) <= Cardinality(Unaccounted)
<1> DEFINE U == Unaccounted
           A == AboveBaselines(ledger, ThreadCounters)
           base == ledger.baselines
<1>1. Types /\ ledger \in Ledgers /\ \A t \in DOMAIN base : base[t] \in Nat
  BY LedgerFields DEF UsageInv, EventsInv, Types
<1>2. U \subseteq DOMAIN log
  BY DEF Unaccounted, LinesAfter, Tokens
<1>3. IsFiniteSet(U)
  BY <1>1, <1>2, LogFacts
<1>4. clearedAt \in Nat /\ \A i \in DOMAIN log : i \in Nat
  BY <1>1, LogFacts DEF UsageInv, EventsInv, TypeOK
<1>5. \A p \in A : \E i \in U : p = <<log[i].session, Rank(i)>>
  <2> SUFFICES ASSUME NEW t \in Files \cap DOMAIN base,
                      NEW n \in base[t] + 1..ThreadCounters[t]
               PROVE  \E i \in U : log[i].session = t /\ Rank(i) = n
    BY <1>1, CounterFacts DEF AboveBaselines
  <2>1. PICK T : T = Tokens(Lines(t))
    OBVIOUS
  <2>2. T \in SUBSET DOMAIN log /\ ThreadCounters[t] = Cardinality(T) /\ Cardinality(T) \in Nat
        /\ base[t] \in Nat
    BY <1>1, <2>1, CounterFacts
  <2>3. n \in 1..Cardinality(T) /\ n > base[t] /\ n \in Nat
    BY <2>2
  <2>4. T \in SUBSET Int /\ IsFiniteSet(T)
    BY <1>1, <1>4, <2>2, LogFacts
  <2>5. PICK i \in T : Cardinality({j \in T : j <= i}) = n
    BY <2>3, <2>4, RankOnto
  <2>6. log[i].session = t /\ i \in Tokens(DOMAIN log) /\ i \in DOMAIN log
    BY <2>1 DEF Tokens, Lines
  <2>7. Rank(i) = n
    BY <2>1, <2>5, <2>6 DEF Rank
  <2>8. clearedAt < i
    <3> SUFFICES ASSUME ~(clearedAt < i)
                 PROVE  FALSE
      OBVIOUS
    <3>1. i <= clearedAt /\ i \in Nat
      BY <1>4, <2>6
    <3>2. PICK B, C : B = {j \in T : j <= i} /\ C = {j \in T : j <= clearedAt}
      OBVIOUS
    <3>3. B \in SUBSET C /\ C \in SUBSET DOMAIN log
      <4>1. \A j \in T : j \in Nat
        BY <1>4, <2>2
      <4>2. \A j \in T : j <= i => j <= clearedAt
        BY <3>1, <4>1, <1>4
      <4> QED BY <3>2, <4>2, <2>2
    <3>4. IsFiniteSet(C) /\ Cardinality(C) \in Nat
      BY <3>3, <1>1, LogFacts
    <3>5. Cardinality(B) <= Cardinality(C)
      BY <3>3, <3>4, FS_Subset
    <3>6. Cardinality(C) <= base[t]
      BY <2>1, <3>2 DEF UsageInv, BaselinesPastClear
    <3>7. Cardinality(B) = n
      BY <2>5, <3>2
    <3> QED BY <2>2, <2>3, <3>4, <3>5, <3>6, <3>7
  <2>9. ~(Rank(i) <= base[t])
    BY <2>2, <2>3, <2>7
  <2>10. i \in U
    BY <2>6, <2>8, <2>9 DEF Unaccounted, LinesAfter, Accounted
  <2> QED BY <2>6, <2>7, <2>10
<1>6. PICK V : V = {i \in U : <<log[i].session, Rank(i)>> \in A}
  OBVIOUS
<1>7. PICK g : g = [i \in V |-> <<log[i].session, Rank(i)>>]
  OBVIOUS
<1>8. g \in Surjection(V, A)
  <2>1. g \in [V -> A] /\ \A p \in A : \E i \in V : g[i] = p
    <3> HIDE DEF A, U
    <3> QED BY <1>5, <1>6, <1>7
  <2> HIDE DEF A, U
  <2> QED BY <2>1 DEF Surjection
<1>9. IsFiniteSet(V) /\ Cardinality(V) <= Cardinality(U)
  <2>1. V \in SUBSET U
    BY <1>6
  <2> HIDE DEF U
  <2> QED BY <1>3, <2>1, FS_Subset
<1>10. IsFiniteSet(A) /\ Cardinality(A) <= Cardinality(V)
  <2> HIDE DEF A, U
  <2> QED BY <1>8, <1>9, FS_Surjection
<1>11. Cardinality(A) \in Nat /\ Cardinality(V) \in Nat /\ Cardinality(U) \in Nat
  <2> HIDE DEF A, U
  <2> QED BY <1>3, <1>9, <1>10, FS_CardinalityType
<1>12. Increase(ledger, ThreadCounters) = Cardinality(A)
  BY DEF Increase
<1> HIDE DEF A, U
<1>13. Cardinality(A) <= Cardinality(U)
  BY <1>9, <1>10, <1>11
<1> USE DEF U
<1> QED BY <1>11, <1>12, <1>13

(* A put bucket adds no more tokens without details than R. *)
LEMMA UndetailedPut ==
  ASSUME NEW D, NEW P, NEW d0, NEW R,
         \A d \in DOMAIN P : d # d0 => (d \in DOMAIN D /\ P[d] = D[d]),
         d0 \in DOMAIN P => 1..(P[d0].total - P[d0].detailed)
                              \subseteq (1..(Bucket(D, d0).total - Bucket(D, d0).detailed)) \cup R
  PROVE  Undetailed(P) \subseteq Undetailed(D) \cup ({d0} \X R)
<1> SUFFICES ASSUME NEW d \in DOMAIN P \cap Days, NEW k \in 1..(P[d].total - P[d].detailed)
             PROVE  <<d, k>> \in Undetailed(D) \cup ({d0} \X R)
  BY DEF Undetailed
<1>1. CASE d # d0
  BY <1>1 DEF Undetailed
<1>2. CASE d = d0 /\ d \in DOMAIN D
  BY <1>2 DEF Undetailed, Bucket
<1>3. CASE d = d0 /\ d \notin DOMAIN D
  <2>1. Bucket(D, d0).total - Bucket(D, d0).detailed = 0
    BY <1>3 DEF Bucket, EmptyDay
  <2>2. 1..0 = {}
    OBVIOUS
  <2> QED BY <1>3, <2>1, <2>2
<1> QED BY <1>1, <1>2, <1>3

LEMMA FallbackPollCounts ==
  ASSUME UsageInv, FallbackPoll
  PROVE  LedgerCounted' /\ BaselinesPastClear'
<1>1. Types /\ ledger \in Ledgers /\ ledger.days \in DaySets /\ today \in Days /\ log' = log /\ clearedAt' = clearedAt
  BY LedgerFields DEF UsageInv, EventsInv, Types, TypeOK, FallbackPoll, world
<1>2. PICK n : n = Increase(ledger, ThreadCounters)
  OBVIOUS
<1>3. n \in Nat /\ n <= Cardinality(Unaccounted)
  BY <1>2, IncreaseIsLines
<1>4. DOMAIN ThreadCounters \subseteq Sessions /\ \A t \in DOMAIN ThreadCounters : ThreadCounters[t] \in Nat
  BY <1>1, CounterFacts
<1>5. ledger' = Observe(ledger, today, ThreadCounters, Retention)
  BY DEF FallbackPoll
<1>6. PICK D, P, c : D = ledger.days /\ P = ledger'.days /\ c = ThreadCounters
  OBVIOUS
<1>7. /\ DOMAIN ledger'.baselines = DOMAIN c \cup DOMAIN ledger.baselines
      /\ \A t \in DOMAIN c : ledger'.baselines[t] = c[t]
      /\ \A t \in DOMAIN ledger.baselines \ DOMAIN c : ledger'.baselines[t] = ledger.baselines[t]
      /\ \/ n = 0 /\ P = D
         \/ \E b \in Buckets : /\ b.total = Bucket(D, today).total + n
                               /\ b.detailed = Bucket(D, today).detailed
                               /\ P = PruneDays(PutDay(D, today, b), Retention)
  BY <1>1, <1>2, <1>3, <1>4, <1>5, <1>6, ObserveFacts
<1>8. LinesAfter(clearedAt) \subseteq DOMAIN log /\ Accounted \subseteq LinesAfter(clearedAt)
      /\ Unaccounted \subseteq LinesAfter(clearedAt)
  BY DEF LinesAfter, Tokens, Accounted, Unaccounted
<1>9. /\ IsFiniteSet(LinesAfter(clearedAt)) /\ Cardinality(LinesAfter(clearedAt)) \in Nat
      /\ IsFiniteSet(Accounted) /\ Cardinality(Accounted) \in Nat
      /\ IsFiniteSet(Unaccounted) /\ Cardinality(Unaccounted) \in Nat
  BY <1>1, <1>8, LogFacts
<1>10. Cardinality(LinesAfter(clearedAt)) = Cardinality(Accounted) + Cardinality(Unaccounted)
  <2>1. LinesAfter(clearedAt) = Accounted \cup Unaccounted /\ Accounted \cap Unaccounted = {}
    BY <1>8 DEF Unaccounted
  <2>2. Cardinality(Accounted \cup Unaccounted)
          = Cardinality(Accounted) + Cardinality(Unaccounted) - Cardinality(Accounted \cap Unaccounted)
    BY <1>9, FS_Union
  <2>3. Cardinality(Accounted \cap Unaccounted) = 0
    BY <2>1, FS_EmptySet
  <2> QED BY <1>9, <2>1, <2>2, <2>3
(* After the frame every line is within its session's baseline. *)
<1>11. Accounted' = LinesAfter(clearedAt)
  <2>1. LinesAfter(clearedAt)' = LinesAfter(clearedAt)
    BY <1>1 DEF LinesAfter, Tokens
  <2>2. ASSUME NEW i \in LinesAfter(clearedAt)
        PROVE  Rank(i) <= ledger'.baselines[log[i].session]
    <3>1. PICK s : s = log[i].session
      OBVIOUS
    <3>2. i \in DOMAIN log /\ i \in Lines(s) /\ s \in Sessions
      BY <1>1, <3>1, LogFacts DEF LinesAfter, Tokens, Lines
    <3>3. s \in Files
      BY <3>2 DEF Files
    <3>4. ledger'.baselines[s] = Cardinality(Tokens(Lines(s)))
      BY <1>1, <1>6, <1>7, <3>3, CounterFacts
    <3>5. PICK B : B = {j \in Tokens(Lines(s)) : j <= i}
      OBVIOUS
    <3>6. B \in SUBSET Tokens(Lines(s)) /\ Tokens(Lines(s)) \subseteq DOMAIN log
      BY <3>5 DEF Tokens, Lines
    <3>7. IsFiniteSet(Tokens(Lines(s)))
      BY <1>1, <3>6, LogFacts
    <3>8. Cardinality(B) <= Cardinality(Tokens(Lines(s)))
      BY <3>6, <3>7, FS_Subset
    <3>9. Rank(i) = Cardinality(B)
      BY <3>1, <3>5 DEF Rank
    <3> QED BY <3>1, <3>4, <3>8, <3>9
  <2>3. \A i : Rank(i)' = Rank(i)
    BY <1>1 DEF Rank, Tokens, Lines
  <2>4. Accounted' = {i \in LinesAfter(clearedAt) :
                        log[i].session \in DOMAIN ledger'.baselines => Rank(i) <= ledger'.baselines[log[i].session]}
    BY <1>1, <2>1, <2>3 DEF Accounted
  <2> QED BY <2>2, <2>4
<1>12. IsFiniteSet(Undetailed(P)) /\ Cardinality(Undetailed(P)) <= Cardinality(Undetailed(D)) + n
  <2>1. /\ IsFiniteSet(Undetailed(D)) /\ Cardinality(Undetailed(D)) \in Nat
    BY <1>6, FS_CardinalityType DEF UsageInv, LedgerCounted
  <2>2. CASE n = 0 /\ P = D
    BY <2>1, <2>2
  <2>3. CASE \E b \in Buckets : /\ b.total = Bucket(D, today).total + n
                                /\ b.detailed = Bucket(D, today).detailed
                                /\ P = PruneDays(PutDay(D, today, b), Retention)
    <3>1. PICK b \in Buckets : /\ b.total = Bucket(D, today).total + n
                               /\ b.detailed = Bucket(D, today).detailed
                               /\ P = PruneDays(PutDay(D, today, b), Retention)
      BY <2>3
    <3>2. PICK u : u = Bucket(D, today).total - Bucket(D, today).detailed
      OBVIOUS
    <3>3. u \in Int
      <4>1. Bucket(D, today) \in Buckets
        BY <1>1, <1>6, DaySetFacts
      <4> QED BY <4>1, <3>2 DEF Buckets
    <3>4. PICK R : R = u + 1..u + n
      OBVIOUS
    <3>5. IsFiniteSet(R) /\ Cardinality(R) = n
      <4>1. u + 1 \in Int /\ u + n \in Int
        BY <3>3, <1>3
      <4>2. IsFiniteSet(R) /\ Cardinality(R) = IF u + 1 > u + n THEN 0 ELSE (u + n) - (u + 1) + 1
        BY <3>4, <4>1, FS_Interval
      <4> QED BY <4>2, <3>3, <1>3
    <3>6. today \in DOMAIN P /\ P[today] = b
          /\ \A d \in DOMAIN P : d # today => (d \in DOMAIN D /\ P[d] = D[d])
      <4>1. \A d \in DOMAIN D : d <= today
        BY <1>6 DEF UsageInv, EventsInv, NotAhead
      <4> QED BY <1>1, <1>6, <3>1, <4>1, PutFacts
    <3>7. 1..(P[today].total - P[today].detailed) \subseteq (1..u) \cup R
      <4>1. P[today].total - P[today].detailed = u + n
        <5>1. Bucket(D, today) \in Buckets
          BY <1>1, <1>6, DaySetFacts
        <5>2. Bucket(D, today).total \in Nat /\ Bucket(D, today).detailed \in Nat
          BY <5>1 DEF Buckets
        <5> QED BY <3>1, <3>2, <3>6, <5>2, <1>3
      <4>2. 1..(u + n) \subseteq (1..u) \cup (u + 1..u + n)
        BY <3>3, <1>3
      <4> QED BY <4>1, <4>2, <3>4
    <3>8. Undetailed(P) \subseteq Undetailed(D) \cup ({today} \X R)
      BY <3>2, <3>6, <3>7, UndetailedPut
    <3>9. IsFiniteSet({today} \X R) /\ Cardinality({today} \X R) = n
      <4>1. IsFiniteSet({today}) /\ Cardinality({today}) = 1
        BY FS_Singleton
      <4>2. IsFiniteSet({today} \X R) /\ Cardinality({today} \X R) = 1 * n
        BY <4>1, <3>5, FS_Product
      <4> QED BY <4>2, <1>3
    <3>10. PICK X, Y : X = Undetailed(D) /\ Y = {today} \X R
      OBVIOUS
    <3>11. /\ IsFiniteSet(X \cup Y) /\ Cardinality(X \cup Y) = Cardinality(X) + n - Cardinality(X \cap Y)
      BY <2>1, <3>9, <3>10, FS_Union
    <3>12. Cardinality(X \cap Y) \in Nat
      <4>1. X \cap Y \in SUBSET X
        OBVIOUS
      <4> QED BY <4>1, <2>1, <3>10, FS_Subset, FS_CardinalityType
    <3>13. IsFiniteSet(Undetailed(P)) /\ Cardinality(Undetailed(P)) <= Cardinality(X \cup Y)
      BY <3>8, <3>10, <3>11, FS_Subset
    <3>14. Cardinality(Undetailed(P)) \in Nat /\ Cardinality(X) = Cardinality(Undetailed(D))
      BY <3>10, <3>13, FS_CardinalityType
    <3> QED BY <2>1, <3>11, <3>12, <3>13, <3>14, <1>3
  <2> QED BY <1>7, <2>2, <2>3
<1>13. LedgerCounted'
  <2>1. Cardinality(Undetailed(D)) <= Cardinality(Accounted) /\ Cardinality(Undetailed(D)) \in Nat
    BY <1>6, FS_CardinalityType DEF UsageInv, LedgerCounted
  <2>2. Cardinality(Undetailed(P)) \in Nat
    BY <1>12, FS_CardinalityType
  <2>3. Cardinality(Undetailed(P)) <= Cardinality(LinesAfter(clearedAt))
    BY <1>3, <1>9, <1>10, <1>12, <2>1, <2>2
  <2>4. Undetailed(ledger.days)' = Undetailed(P)
    BY <1>6 DEF Undetailed
  <2> QED BY <2>3, <2>4, <1>11, <1>12 DEF LedgerCounted
<1>14. BaselinesPastClear'
  <2> SUFFICES ASSUME NEW t \in DOMAIN ledger'.baselines
               PROVE  Cardinality({i \in Tokens(Lines(t)) : i <= clearedAt}) <= ledger'.baselines[t]
    BY <1>1 DEF BaselinesPastClear, Tokens, Lines
  <2>1. CASE t \in DOMAIN c
    <3>1. ledger'.baselines[t] = Cardinality(Tokens(Lines(t)))
      BY <1>1, <1>6, <1>7, <2>1, CounterFacts
    <3>2. PICK B : B = {i \in Tokens(Lines(t)) : i <= clearedAt}
      OBVIOUS
    <3>3. B \in SUBSET Tokens(Lines(t)) /\ IsFiniteSet(Tokens(Lines(t)))
      BY <1>1, <3>2, CounterFacts, LogFacts
    <3>4. Cardinality(B) <= Cardinality(Tokens(Lines(t)))
      BY <3>3, FS_Subset
    <3> QED BY <3>1, <3>2, <3>4
  <2>2. CASE t \notin DOMAIN c
    <3>1. t \in DOMAIN ledger.baselines \ DOMAIN c
      BY <1>7, <2>2
    <3> QED BY <3>1, <1>7 DEF UsageInv, BaselinesPastClear
  <2> QED BY <2>1, <2>2
<1> QED BY <1>13, <1>14

LEMMA FallbackPollEvents ==
  ASSUME UsageInv, FallbackPoll
  PROVE  EventsInv'
<1>1. EventsInv /\ Types /\ ledger \in Ledgers /\ ledger.days \in DaySets /\ today \in Days /\ running
  BY LedgerFields DEF UsageInv, EventsInv, Types, TypeOK, FallbackPoll
<1>2. PICK n : n = Increase(ledger, ThreadCounters)
  OBVIOUS
<1>3. n \in Nat
  BY <1>2, IncreaseIsLines
<1>4. DOMAIN ThreadCounters \subseteq Sessions /\ \A t \in DOMAIN ThreadCounters : ThreadCounters[t] \in Nat
  BY <1>1, CounterFacts
<1>5. ledger' = Observe(ledger, today, ThreadCounters, Retention)
  BY DEF FallbackPoll
<1>6. PICK c : c = ThreadCounters
  OBVIOUS
<1>7. /\ ledger' \in Ledgers
      /\ \/ ledger'.days = ledger.days
         \/ \E b \in Buckets : /\ b.detailed = Bucket(ledger.days, today).detailed
                               /\ ledger'.days = PruneDays(PutDay(ledger.days, today, b), Retention)
  BY <1>1, <1>2, <1>3, <1>4, <1>5, <1>6, ObserveFacts
<1>8. PICK x : x = Bucket(ledger.days, today).detailed
  OBVIOUS
<1>9. Polled(ledger.days, ledger'.days, x)
  BY <1>1, <1>7, <1>8, PolledPut, PolledNothing
<1>10. /\ UNCHANGED <<world, process, disk, clearedAt, authoritative, tailer, fromDisk>>
       /\ UNCHANGED <<tailDay, tailFile, currentModel, seen, forgotten, misread, running, log>>
  BY DEF FallbackPoll, tailer, process, world
<1>11. /\ seen' \subseteq Countable(tailDay)' /\ forgotten' \subseteq seen' /\ IsFiniteSet(misread')
       /\ currentModel' \in Named /\ seen' \cup misread' \subseteq (DOMAIN log) \X Named
  <2>1. Countable(tailDay)' = Countable(tailDay)
    BY <1>10, SameModels DEF Countable, TokensOf
  <2> QED BY <1>1, <1>10, <2>1 DEF EventsInv, SeenOfDay, TypeOK, Named
<1>12. (tailDay = today /\ today \notin fromDisk) => x = Cardinality(seen \ forgotten)
  <2>1. today # 0 /\ ~DroppedByRetention(today)
    BY <1>1, DayFacts, TodayIsKept
  <2> QED BY <2>1, <1>1, <1>8 DEF EventsInv, SeenIsCounted
<1>13. (tailDay < today /\ today \notin fromDisk) => x = 0
  BY <1>1, <1>8 DEF EventsInv, FreshDays, Bucket, EmptyDay
<1>14. authoritative \in BOOLEAN /\ tailFile \in Sessions \cup {NoFile}
  BY <1>1 DEF EventsInv, TypeOK
<1>15. MisreadsExplained'
  <2>1. PICK M : M = {}
    OBVIOUS
  <2>2. MisreadsExplained /\ misread' \subseteq misread \cup M /\ \A e \in M : Explained(e)
    BY <1>1, <1>10, <2>1 DEF EventsInv
  <2> QED BY <1>10, <2>2, ExplainedGrows
<1> QED BY <1>1, <1>7, <1>9, <1>10, <1>11, <1>12, <1>13, <1>14, <1>15, PollKeepsEvents

-----------------------------------------------------------------------------
(* 6. The polls of the session files. *)

(* Events enter the total and the details alike: no token without details   *)
(* comes or goes but with the retention.                                    *)
LEMMA EventsKeepCounters ==
  ASSUME UsageInv, UNCHANGED <<log, clearedAt>>, ledger'.baselines = ledger.baselines,
         Undetailed(ledger'.days) \subseteq Undetailed(ledger.days)
  PROVE  LedgerCounted' /\ BaselinesPastClear'
<1>1. Accounted' = Accounted
  BY DEF Accounted, LinesAfter, Rank, Tokens, Lines
<1>2. PICK X, Y : X = Undetailed(ledger.days) /\ Y = Undetailed(ledger'.days)
  OBVIOUS
<1>3. /\ IsFiniteSet(X) /\ Cardinality(X) <= Cardinality(Accounted) /\ Y \in SUBSET X
      /\ IsFiniteSet(Accounted)
  <2>1. Types /\ Accounted \subseteq DOMAIN log
    BY DEF UsageInv, EventsInv, Accounted, LinesAfter, Tokens
  <2> QED BY <1>2, <2>1, LogFacts DEF UsageInv, LedgerCounted
<1>4. IsFiniteSet(Y) /\ Cardinality(Y) <= Cardinality(X)
  BY <1>3, FS_Subset
<1>5. Cardinality(X) \in Nat /\ Cardinality(Y) \in Nat /\ Cardinality(Accounted) \in Nat
  BY <1>3, <1>4, FS_CardinalityType
<1>6. Cardinality(Y) <= Cardinality(Accounted)
  BY <1>3, <1>4, <1>5
<1>7. Undetailed(ledger.days)' = Y
  BY <1>2 DEF Undetailed
<1>8. LedgerCounted'
  BY <1>1, <1>4, <1>6, <1>7 DEF LedgerCounted
<1>9. BaselinesPastClear'
  BY DEF UsageInv, BaselinesPastClear, Tokens, Lines
<1> QED BY <1>8, <1>9

(* A bucket put with as many tokens without details as before, or none. *)
LEMMA PutKeepsUndetailed ==
  ASSUME EventsInv, NEW b \in Buckets,
         \/ b.total - b.detailed = 0
         \/ b.total - b.detailed = Bucket(ledger.days, today).total - Bucket(ledger.days, today).detailed,
         NEW P, P = PruneDays(PutDay(ledger.days, today, b), Retention)
  PROVE  Undetailed(P) \subseteq Undetailed(ledger.days)
<1>1. PICK D, Q, R : D = ledger.days /\ Q = P /\ R = {}
  OBVIOUS
<1>2. D \in DaySets /\ today \in Days /\ \A d \in DOMAIN D : d <= today
  BY <1>1, LedgerFields DEF EventsInv, Types, TypeOK, NotAhead
<1>3. Q[today] = b /\ \A d \in DOMAIN Q : d # today => (d \in DOMAIN D /\ Q[d] = D[d])
  BY <1>1, <1>2, PutFacts
<1>4. 1..(Q[today].total - Q[today].detailed)
        \subseteq (1..(Bucket(D, today).total - Bucket(D, today).detailed)) \cup R
  <2>1. 1..0 = {}
    OBVIOUS
  <2> QED BY <1>1, <1>3, <2>1
<1>5. Undetailed(Q) \subseteq Undetailed(D) \cup ({today} \X R)
  BY <1>3, <1>4, UndetailedPut
<1> QED BY <1>1, <1>5

(* A read that returns events, with those it misreads recorded. *)
LEMMA ReadKeepsSeen ==
  ASSUME EventsInv, UNCHANGED <<today, log>>, tailDay' = today,
         NEW f \in [DOMAIN log -> Named],
         NEW events, events \subseteq {<<i, f[i]>> : i \in TokensOf(today)},
         \A e \in Misread(events) : Explained(e),
         \/ seen' = events
         \/ tailDay = today /\ seen' = seen \cup events,
         misread' = misread \cup Misread(events)
  PROVE  /\ IsFiniteSet(events) /\ Cardinality(events) \in Nat
         /\ seen' \subseteq Countable(tailDay)' /\ seen' \cup misread' \subseteq (DOMAIN log) \X Named
         /\ misread \subseteq misread' /\ IsFiniteSet(misread') /\ MisreadsExplained'
<1>1. Types /\ seen \subseteq Countable(tailDay) /\ IsFiniteSet(misread) /\ MisreadsExplained
      /\ seen \cup misread \subseteq (DOMAIN log) \X Named
  BY DEF EventsInv, SeenOfDay, TypeOK, Named
<1>2. /\ events \subseteq (DOMAIN log) \X Named /\ Misread(events) \subseteq events
      /\ IsFiniteSet(events) /\ Cardinality(events) \in Nat /\ IsFiniteSet(Misread(events))
      /\ events \subseteq {<<i, ModelOf(i)>> : i \in TokensOf(today)}
                        \cup {e \in Misread(events) : log[e[1]].day = today}
  BY <1>1, EventFacts
<1>3. IsFiniteSet(misread')
  BY <1>1, <1>2, FS_Union
<1>4. MisreadsExplained'
  BY <1>1, ExplainedGrows
<1>5. events \subseteq Countable(today)'
  <2>1. TokensOf(today)' = TokensOf(today) /\ \A i : ModelOf(i)' = ModelOf(i)
    BY SameModels DEF TokensOf
  <2>2. {<<i, ModelOf(i)>> : i \in TokensOf(today)} \subseteq Countable(today)'
    BY <2>1 DEF Countable
  <2>3. {e \in Misread(events) : log[e[1]].day = today} \subseteq Countable(today)'
    BY DEF Countable
  <2> QED BY <1>2, <2>2, <2>3
<1>6. tailDay = today => seen \subseteq Countable(today)'
  <2>1. Countable(today) \subseteq Countable(today)'
    BY <1>1, <1>3, CountableGrows
  <2> QED BY <1>1, <2>1
<1>7. Countable(tailDay)' = Countable(today)'
  BY DEF Countable, TokensOf
<1> QED BY <1>1, <1>2, <1>3, <1>4, <1>5, <1>6, <1>7

(* A scan of a new day. *)
LEMMA NewDayKeeps ==
  ASSUME UsageInv, TokenPollNewDay
  PROVE  EventsInv' /\ LedgerCounted' /\ BaselinesPastClear'
<1>1. EventsInv /\ Types /\ ledger \in Ledgers /\ today \in Days /\ running
  BY DEF UsageInv, EventsInv, Types, TypeOK, TokenPollNewDay
<1>2. /\ UNCHANGED <<world, process, disk, clearedAt, today, log>>
      /\ tailDay' = today /\ tailFile' = Newest(Files) /\ forgotten' = {} /\ tailDay # today
  BY DEF TokenPollNewDay, world
<1>3. PICK readable \in SUBSET (Today \cup ({Newest(Files)} \ {NoFile})) :
         LET events == Scanned(readable) IN
         /\ seen' = events /\ misread' = misread \cup Misread(events)
         /\ currentModel' = ModelAfterFiles(readable)
         /\ IF events = {} THEN UNCHANGED <<ledger, authoritative, fromDisk>>
            ELSE /\ ledger' = ReplaceSessionDay(ledger, today, Cardinality(events), Retention)
                 /\ authoritative' = TRUE
                 /\ fromDisk' = fromDisk \ {today}
  BY DEF TokenPollNewDay
<1>4. PICK events : events = Scanned(readable)
  OBVIOUS
<1>5. /\ seen' = events /\ misread' = misread \cup Misread(events)
      /\ currentModel' = ModelAfterFiles(readable)
      /\ events = {} => UNCHANGED <<ledger, authoritative, fromDisk>>
      /\ events # {} => /\ ledger' = ReplaceSessionDay(ledger, today, Cardinality(events), Retention)
                        /\ authoritative' = TRUE
                        /\ fromDisk' = fromDisk \ {today}
  BY <1>3, <1>4
<1>6. /\ Cardinality(events) \in Nat /\ currentModel' \in Named
      /\ seen' \subseteq Countable(tailDay)' /\ seen' \cup misread' \subseteq (DOMAIN log) \X Named
      /\ misread \subseteq misread' /\ IsFiniteSet(misread') /\ MisreadsExplained'
  <2>1. PICK f \in [DOMAIN log -> Named] : events \subseteq {<<i, f[i]>> : i \in TokensOf(today)}
    BY <1>1, <1>4, ScannedFacts
  <2>2. \A e \in Misread(events) : Explained(e)
    BY <1>1, <1>4, ScanExplained
  <2>3. currentModel' \in Named
    BY <1>1, <1>5, ScannedFacts
  <2> QED BY <1>1, <1>2, <1>5, <2>1, <2>2, <2>3, ReadKeepsSeen
<1>7. /\ forgotten' \subseteq seen' /\ seen' \ forgotten' = events
      /\ tailDay' = today /\ fromDisk' \subseteq fromDisk /\ fromDisk \subseteq fromDisk' \cup {today}
  BY <1>2, <1>5, <1>6
<1>8. tailFile' \in Sessions \cup {NoFile}
  BY <1>1, <1>2, NewestFile
<1>9. authoritative' \in BOOLEAN
  BY <1>1, <1>5 DEF EventsInv, TypeOK
<1>10. tailDay < today /\ ~(today < today)
  BY <1>1, <1>2, DayFacts DEF EventsInv, TypeOK, NotAhead
<1>11. \E x : /\ Polled(ledger.days, ledger'.days, x)
              /\ today \notin fromDisk' => x = Cardinality(events)
  <2>1. CASE events = {}
    <3>1. Polled(ledger.days, ledger'.days, Bucket(ledger.days, today).detailed)
      BY <1>1, <1>5, <2>1, PolledNothing
    <3>2. today \notin fromDisk => Bucket(ledger.days, today).detailed = 0
      BY <1>1, <1>10 DEF EventsInv, FreshDays, Bucket, EmptyDay
    <3>3. Cardinality(events) = 0
      BY <2>1, FS_EmptySet
    <3> QED BY <1>5, <2>1, <3>1, <3>2, <3>3
  <2>2. CASE events # {}
    <3>1. PICK b \in Buckets :
            /\ b.total = Cardinality(events) /\ b.detailed = Cardinality(events)
            /\ \/ today \in DOMAIN ledger.days /\ ledger.days[today] = b /\ ledger'.days = ledger.days
               \/ ledger'.days = PruneDays(PutDay(ledger.days, today, b), Retention)
      BY <1>1, <1>5, <1>6, <2>2, ReplaceFacts
    <3>2. Polled(ledger.days, ledger'.days, b.detailed)
      <4>1. CASE today \in DOMAIN ledger.days /\ ledger.days[today] = b /\ ledger'.days = ledger.days
        BY <1>1, <4>1, PolledNothing DEF Bucket
      <4>2. CASE ledger'.days = PruneDays(PutDay(ledger.days, today, b), Retention)
        BY <1>1, <4>2, PolledPut
      <4> QED BY <3>1, <4>1, <4>2
    <3> QED BY <3>1, <3>2
  <2> QED BY <2>1, <2>2
<1>12. /\ ledger' \in Ledgers /\ ledger'.baselines = ledger.baselines
       /\ Undetailed(ledger'.days) \subseteq Undetailed(ledger.days)
  <2>1. CASE events = {}
    BY <1>1, <1>5, <2>1
  <2>2. CASE events # {}
    <3>1. PICK L : L = ledger'
      OBVIOUS
    <3>2. /\ L \in Ledgers /\ L.baselines = ledger.baselines
          /\ \E b \in Buckets :
               /\ b.total = Cardinality(events) /\ b.detailed = Cardinality(events)
               /\ \/ today \in DOMAIN ledger.days /\ ledger.days[today] = b /\ L.days = ledger.days
                  \/ L.days = PruneDays(PutDay(ledger.days, today, b), Retention)
      BY <1>1, <1>5, <1>6, <2>2, <3>1, ReplaceFacts
    <3>3. PICK b \in Buckets :
               /\ b.total = Cardinality(events) /\ b.detailed = Cardinality(events)
               /\ \/ L.days = ledger.days
                  \/ L.days = PruneDays(PutDay(ledger.days, today, b), Retention)
      BY <3>2
    <3>4. b.total - b.detailed = 0
      BY <1>6, <3>3
    <3>5. Undetailed(L.days) \subseteq Undetailed(ledger.days)
      BY <1>1, <3>3, <3>4, PutKeepsUndetailed
    <3> QED BY <3>1, <3>2, <3>5
  <2> QED BY <2>1, <2>2
<1>13. PICK x : /\ Polled(ledger.days, ledger'.days, x)
                /\ today \notin fromDisk' => x = Cardinality(events)
  BY <1>11
<1>14. EventsInv'
  <2>1. (tailDay' = today /\ today \notin fromDisk') => x = Cardinality(seen' \ forgotten')
    BY <1>7, <1>13
  <2>2. (tailDay' < today /\ today \notin fromDisk') => x = 0
    BY <1>7, <1>10
  <2> QED BY <1>1, <1>2, <1>6, <1>7, <1>8, <1>9, <1>12, <1>13, <2>1, <2>2, PollKeepsEvents
<1>15. LedgerCounted' /\ BaselinesPastClear'
  BY <1>2, <1>12, EventsKeepCounters
<1> QED BY <1>14, <1>15

(* A later poll. *)
LEMMA TokenPollKeeps ==
  ASSUME UsageInv, TokenPoll
  PROVE  EventsInv' /\ LedgerCounted' /\ BaselinesPastClear'
<1>1. EventsInv /\ Types /\ ledger \in Ledgers /\ today \in Days /\ running
  BY DEF UsageInv, EventsInv, Types, TypeOK, TokenPoll
<1>2. /\ UNCHANGED <<world, process, disk, clearedAt, today, log, authoritative, fromDisk>>
      /\ tailDay' = today /\ forgotten' = forgotten /\ tailDay = today
  BY DEF TokenPoll, Keep, world
<1>3. PICK file \in {tailFile, Discovered} \ {NoFile}, readable \in BOOLEAN :
         LET same   == file = tailFile
             lines  == IF ~readable THEN {} ELSE IF same THEN TailOf(file) ELSE Lines(file)
             model  == IF same THEN currentModel ELSE NoModel
             events == Fingerprints(lines, model) \ seen IN
         /\ tailFile' = file /\ currentModel' = ModelAfter(lines, model)
         /\ seen' = seen \cup events /\ misread' = misread \cup Misread(events)
         /\ ledger' = ObserveSessionEvents(ledger, today, Cardinality(events), Retention)
  BY DEF TokenPoll
<1>4. PICK lines, model : /\ lines = Lines(file) \/ lines = TailOf(file) \/ lines = {}
                          /\ model = currentModel \/ model = NoModel
                          /\ LET events == Fingerprints(lines, model) \ seen IN
                             /\ tailFile' = file /\ currentModel' = ModelAfter(lines, model)
                             /\ seen' = seen \cup events /\ misread' = misread \cup Misread(events)
                             /\ ledger' = ObserveSessionEvents(ledger, today, Cardinality(events), Retention)
  <2>1. PICK lines : lines = IF ~readable THEN {} ELSE IF file = tailFile THEN TailOf(file) ELSE Lines(file)
    OBVIOUS
  <2>2. PICK model : model = IF file = tailFile THEN currentModel ELSE NoModel
    OBVIOUS
  <2> QED BY <1>3, <2>1, <2>2
<1>5. PICK events : events = Fingerprints(lines, model) \ seen
  OBVIOUS
<1>6. /\ tailFile' = file /\ currentModel' = ModelAfter(lines, model)
      /\ seen' = seen \cup events /\ misread' = misread \cup Misread(events)
      /\ ledger' = ObserveSessionEvents(ledger, today, Cardinality(events), Retention)
  BY <1>4, <1>5
<1>7. /\ Cardinality(events) \in Nat /\ IsFiniteSet(events) /\ events \cap seen = {}
      /\ currentModel' \in Named
      /\ seen' \subseteq Countable(tailDay)' /\ seen' \cup misread' \subseteq (DOMAIN log) \X Named
      /\ misread \subseteq misread' /\ IsFiniteSet(misread') /\ MisreadsExplained'
  <2>1. lines \in SUBSET DOMAIN log /\ model \in Named
    BY <1>1, <1>4 DEF Lines, TailOf, EventsInv, TypeOK, Named
  <2>2. PICK f \in [DOMAIN log -> Named] :
          Fingerprints(lines, model) \subseteq {<<i, f[i]>> : i \in TokensOf(today)}
    BY <1>1, <2>1, FingerprintFacts
  <2>3. events \subseteq {<<i, f[i]>> : i \in TokensOf(today)} /\ events \cap seen = {}
    BY <1>5, <2>2
  <2>4. \A e \in Misread(events) : Explained(e)
    <3>1. Misread(events) \subseteq Misread(Fingerprints(lines, model))
      BY <1>5 DEF Misread
    <3> QED BY <1>1, <1>4, <3>1, ReadExplained
  <2>5. currentModel' \in Named
    BY <1>1, <1>6, <2>1, ModelTyped
  <2> QED BY <1>1, <1>2, <1>6, <2>3, <2>4, <2>5, ReadKeepsSeen
<1>8. forgotten \subseteq seen /\ IsFiniteSet(seen)
  <2>1. seen \subseteq Countable(tailDay) /\ forgotten \subseteq seen /\ IsFiniteSet(misread)
    BY <1>1, <1>2 DEF EventsInv, SeenOfDay, TypeOK
  <2>2. seen \subseteq seen' /\ IsFiniteSet(Countable(tailDay)')
    BY <1>1, <1>2, <1>6, <1>7, CountableGrows
  <2> QED BY <1>7, <2>1, <2>2, FS_Subset
<1>9. forgotten' \subseteq seen'
  BY <1>2, <1>6, <1>8
<1>10. tailFile' \in Sessions \cup {NoFile}
  <2>1. tailFile \in Sessions \cup {NoFile}
    BY <1>1 DEF EventsInv, TypeOK
  <2>2. Discovered \in Sessions \cup {NoFile}
    BY <1>1, NewestFile DEF Discovered, Today
  <2> QED BY <1>6, <2>1, <2>2
<1>11. Cardinality(seen' \ forgotten') = Cardinality(seen \ forgotten) + Cardinality(events)
       /\ Cardinality(seen \ forgotten) \in Nat
  <2>1. PICK A : A = seen \ forgotten
    OBVIOUS
  <2>2. seen' \ forgotten' = A \cup events /\ A \cap events = {}
    BY <1>2, <1>6, <1>7, <1>8, <2>1
  <2>3. IsFiniteSet(A) /\ Cardinality(A) \in Nat
    BY <1>8, <2>1, FS_Subset, FS_CardinalityType
  <2>4. Cardinality(A \cup events) = Cardinality(A) + Cardinality(events) - Cardinality(A \cap events)
    BY <1>7, <2>3, FS_Union
  <2>5. Cardinality(A \cap events) = 0
    BY <2>2, FS_EmptySet
  <2>6. Cardinality(A \cup events) = Cardinality(A) + Cardinality(events)
    BY <1>7, <2>3, <2>4, <2>5
  <2>7. Cardinality(seen' \ forgotten') = Cardinality(A \cup events)
    BY <2>2
  <2> QED BY <2>1, <2>3, <2>6, <2>7
<1>12. PICK L, n : L = ledger' /\ n = Cardinality(events)
  OBVIOUS
<1>13. /\ L \in Ledgers /\ L.baselines = ledger.baselines
       /\ \/ n = 0 /\ L.days = ledger.days
          \/ \E b \in Buckets : /\ b.total = Bucket(ledger.days, today).total + n
                                /\ b.detailed = Bucket(ledger.days, today).detailed + n
                                /\ L.days = PruneDays(PutDay(ledger.days, today, b), Retention)
  BY <1>1, <1>6, <1>7, <1>12, SessionEventsFacts
<1>14. Bucket(ledger.days, today).total \in Nat /\ Bucket(ledger.days, today).detailed \in Nat
  <2>1. Bucket(ledger.days, today) \in Buckets
    BY <1>1, LedgerFields, DaySetFacts
  <2> QED BY <2>1 DEF Buckets
<1>15. PICK x : x = Bucket(ledger.days, today).detailed + n
  OBVIOUS
<1>16. Polled(ledger.days, L.days, x) /\ Undetailed(L.days) \subseteq Undetailed(ledger.days)
  <2>1. CASE n = 0 /\ L.days = ledger.days
    <3>1. x = Bucket(ledger.days, today).detailed
      BY <1>14, <1>15, <2>1
    <3> QED BY <1>1, <2>1, <3>1, PolledNothing
  <2>2. CASE \E b \in Buckets : /\ b.total = Bucket(ledger.days, today).total + n
                                /\ b.detailed = Bucket(ledger.days, today).detailed + n
                                /\ L.days = PruneDays(PutDay(ledger.days, today, b), Retention)
    <3>1. PICK b \in Buckets : /\ b.total = Bucket(ledger.days, today).total + n
                               /\ b.detailed = Bucket(ledger.days, today).detailed + n
                               /\ L.days = PruneDays(PutDay(ledger.days, today, b), Retention)
      BY <2>2
    <3>2. b.total - b.detailed = Bucket(ledger.days, today).total - Bucket(ledger.days, today).detailed
      BY <1>7, <1>12, <1>14, <3>1
    <3> QED BY <1>1, <1>15, <3>1, <3>2, PolledPut, PutKeepsUndetailed
  <2> QED BY <1>13, <2>1, <2>2
<1>17. today \notin fromDisk => x = Cardinality(seen' \ forgotten')
  <2>1. today # 0 /\ ~DroppedByRetention(today)
    BY <1>1, DayFacts, TodayIsKept
  <2>2. today \notin fromDisk => Bucket(ledger.days, today).detailed = Cardinality(seen \ forgotten)
    BY <1>1, <1>2, <2>1 DEF EventsInv, SeenIsCounted
  <2> QED BY <2>2, <1>11, <1>12, <1>15
<1>18. EventsInv'
  <2>1. ~(tailDay' < today)
    BY <1>1, <1>2, DayFacts
  <2>2. authoritative' \in BOOLEAN /\ UNCHANGED fromDisk
    BY <1>1, <1>2 DEF EventsInv, TypeOK
  <2>3. fromDisk' \subseteq fromDisk /\ fromDisk \subseteq fromDisk' \cup {today}
    BY <2>2
  <2> QED BY <1>1, <1>2, <1>7, <1>9, <1>10, <1>12, <1>13, <1>16, <1>17, <2>1, <2>2, <2>3,
             PollKeepsEvents
<1>19. LedgerCounted' /\ BaselinesPastClear'
  BY <1>2, <1>12, <1>13, <1>16, EventsKeepCounters
<1> QED BY <1>18, <1>19

-----------------------------------------------------------------------------
(* 7. The store: starts, saves, stops and clears. *)

LEMMA LinesFacts ==
  ASSUME Types
  PROVE  /\ \A n : LinesAfter(n) \subseteq DOMAIN log /\ IsFiniteSet(LinesAfter(n))
                   /\ Cardinality(LinesAfter(n)) \in Nat
         /\ Accounted \subseteq LinesAfter(clearedAt) /\ IsFiniteSet(Accounted) /\ Cardinality(Accounted) \in Nat
<1>1. \A n : LinesAfter(n) \subseteq DOMAIN log
  BY DEF LinesAfter, Tokens
<1>2. Accounted \subseteq LinesAfter(clearedAt)
  BY DEF Accounted
<1> QED BY <1>1, <1>2, LogFacts

(* What the ledger holds may be stored as it is. *)
LEMMA LedgerFitsStore ==
  ASSUME UsageInv
  PROVE  /\ IsFiniteSet(Undetailed(ledger.days))
         /\ Cardinality(Undetailed(ledger.days)) <= Cardinality(LinesAfter(clearedAt))
<1>1. PICK X, Y, U : X = Accounted /\ Y = LinesAfter(clearedAt) /\ U = Undetailed(ledger.days)
  OBVIOUS
<1>2. X \in SUBSET Y /\ IsFiniteSet(Y) /\ Cardinality(X) \in Nat /\ Cardinality(Y) \in Nat
  BY <1>1, LinesFacts DEF UsageInv, EventsInv
<1>3. Cardinality(X) <= Cardinality(Y)
  BY <1>2, FS_Subset
<1>4. IsFiniteSet(U) /\ Cardinality(U) <= Cardinality(X)
  BY <1>1 DEF UsageInv, LedgerCounted
<1>5. Cardinality(U) \in Nat
  BY <1>4, FS_CardinalityType
<1>6. Cardinality(U) <= Cardinality(Y)
  BY <1>2, <1>3, <1>4, <1>5
<1> QED BY <1>1, <1>4, <1>6

LEMMA SavedStaysCounted ==
  ASSUME UsageInv, log' = log,
         \/ stored' = ledger.days /\ storedClearedAt' = clearedAt
         \/ UNCHANGED <<stored, storedClearedAt>>
         \/ Undetailed(stored') = {}
  PROVE  StoredCounted'
<1>1. \A n : LinesAfter(n)' = LinesAfter(n')
  BY DEF LinesAfter, Tokens
<1>2. LinesAfter(storedClearedAt)' = LinesAfter(storedClearedAt')
  BY DEF LinesAfter, Tokens
<1>3. Undetailed(stored)' = Undetailed(stored')
  BY DEF Undetailed
<1>4. CASE stored' = ledger.days /\ storedClearedAt' = clearedAt
  BY <1>2, <1>3, <1>4, LedgerFitsStore DEF StoredCounted
<1>5. CASE UNCHANGED <<stored, storedClearedAt>>
  BY <1>2, <1>3, <1>5 DEF UsageInv, StoredCounted
<1>6. CASE Undetailed(stored') = {}
  <2>1. Cardinality(LinesAfter(storedClearedAt')) \in Nat
    BY LinesFacts DEF UsageInv, EventsInv
  <2>2. IsFiniteSet(Undetailed(stored')) /\ Cardinality(Undetailed(stored')) = 0
    BY <1>6, FS_EmptySet
  <2>3. Cardinality(Undetailed(stored')) <= Cardinality(LinesAfter(storedClearedAt'))
    BY <2>1, <2>2
  <2> QED BY <1>2, <1>3, <2>2, <2>3 DEF StoredCounted
<1> QED BY <1>4, <1>5, <1>6

(* A ledger without baselines is counted if its days are: nothing after the *)
(* clear is taken in yet.                                                   *)
LEMMA NoBaselinesCounted ==
  ASSUME Types, log' = log, ledger'.baselines = NoBaselines,
         IsFiniteSet(Undetailed(ledger'.days)),
         Cardinality(Undetailed(ledger'.days)) <= Cardinality(LinesAfter(clearedAt'))
  PROVE  LedgerCounted' /\ BaselinesPastClear'
<1>1. DOMAIN ledger'.baselines = {}
  BY EmptyFacts
<1>2. Accounted' = LinesAfter(clearedAt')
  BY <1>1 DEF Accounted, LinesAfter, Tokens
<1>3. Undetailed(ledger.days)' = Undetailed(ledger'.days)
  BY DEF Undetailed
<1> QED BY <1>1, <1>2, <1>3 DEF LedgerCounted, BaselinesPastClear

LEMMA EmptyDaysCounted ==
  ASSUME Types, NEW n, NEW X, X = {}
  PROVE  IsFiniteSet(X) /\ Cardinality(X) <= Cardinality(LinesAfter(n))
<1>1. Cardinality(LinesAfter(n)) \in Nat
  BY LinesFacts
<1>2. IsFiniteSet(X) /\ Cardinality(X) = 0
  BY FS_EmptySet
<1>3. Cardinality(X) <= Cardinality(LinesAfter(n))
  BY <1>1, <1>2
<1> QED BY <1>2, <1>3

(* What speaks of the tailer and the files alone stays while both do. *)
LEMMA TailerKept ==
  ASSUME EventsInv, UNCHANGED <<log, tailDay, seen, misread>>
  PROVE  /\ SeenOfDay' /\ MisreadsExplained'
         /\ \A d : Countable(d)' = Countable(d)
<1>1. \A d : Countable(d)' = Countable(d)
  BY SameModels DEF Countable, TokensOf
<1>2. SeenOfDay'
  <2>1. Countable(tailDay)' = Countable(tailDay)
    BY <1>1 DEF Countable, TokensOf
  <2> QED BY <2>1 DEF EventsInv, SeenOfDay
<1>3. MisreadsExplained'
  <2>1. PICK M : M = {}
    OBVIOUS
  <2>2. MisreadsExplained /\ misread' \subseteq misread \cup M /\ \A e \in M : Explained(e)
    BY <2>1 DEF EventsInv
  <2> QED BY <2>2, ExplainedGrows
<1> QED BY <1>1, <1>2, <1>3

LEMMA FlushKeeps ==
  ASSUME UsageInv, Flush
  PROVE  UsageInv'
<1>1. /\ ledger' = [ledger EXCEPT !.dirty = FALSE] /\ clearedAt' = clearedAt
      /\ UNCHANGED <<today, log, running, starts, authoritative, legacy, fromDisk>>
      /\ UNCHANGED <<tailDay, tailFile, currentModel, seen, forgotten, misread>>
      /\ running /\ stored' = ledger'.days /\ storedClearedAt' = clearedAt
  BY DEF Flush, Saved, world, process, tailer
<1>2. Types /\ ledger \in Ledgers /\ ledger.days \in DaySets /\ EventsInv
  BY LedgerFields DEF UsageInv, EventsInv, Types
<1>3. ledger' \in Ledgers /\ ledger'.days = ledger.days /\ ledger'.baselines = ledger.baselines
      /\ ledger'.dirty \in BOOLEAN
  BY <1>1, <1>2 DEF Ledgers
<1>4. TypeOK'
  <2>1. /\ ledger'.dirty \in BOOLEAN /\ running' \in BOOLEAN /\ authoritative' \in BOOLEAN
    BY <1>1, <1>2, <1>3 DEF EventsInv, TypeOK
  <2>2. IsDays(ledger.days)' /\ IsDays(stored)'
    BY <1>1, <1>2, <1>3 DEF EventsInv, TypeOK, IsDays
  <2>3. /\ today' \in Days /\ Len(log') <= MaxLines /\ starts' \in 0..MaxStarts
        /\ DOMAIN ledger'.baselines \subseteq Sessions /\ legacy' \in LegacyLedgers
        /\ clearedAt' \in 0..MaxLines /\ storedClearedAt' \in 0..MaxLines
    BY <1>1, <1>2, <1>3 DEF EventsInv, TypeOK
  <2>4. /\ tailDay' \in Days \cup {0} /\ tailFile' \in Sessions \cup {NoFile}
        /\ seen' \cup misread' \subseteq (DOMAIN log') \X (Models \cup {NoModel})
        /\ currentModel' \in Models \cup {NoModel}
        /\ forgotten' \subseteq seen' /\ fromDisk' \subseteq AllDays
        /\ running' => Cardinality(DOMAIN ledger'.days) <= Retention
    BY <1>1, <1>2, <1>3 DEF EventsInv, TypeOK
  <2> QED BY <2>1, <2>2, <2>3, <2>4 DEF TypeOK
<1>5. Types' /\ Stopped' /\ SeenOfDay' /\ CountedOnce' /\ MisreadsExplained'
  <2>1. Types' /\ Stopped'
    BY <1>1, <1>2, <1>3 DEF EventsInv, Types, Stopped
  <2> QED BY <1>1, <1>2, <1>3, <2>1, TailerKept DEF EventsInv, CountedOnce
<1>6. NotAhead'
  BY <1>1, <1>2, <1>3 DEF EventsInv, NotAhead
<1>7. FreshDays'
  BY <1>1, <1>2, <1>3 DEF EventsInv, FreshDays
<1>8. SeenIsCounted'
  BY <1>1, <1>2, <1>3 DEF EventsInv, SeenIsCounted, DroppedByRetention
<1>9. LedgerCounted' /\ BaselinesPastClear'
  BY <1>1, <1>3, EventsKeepCounters
<1>10. StoredCounted'
  BY <1>1, <1>3, SavedStaysCounted
<1> QED BY <1>4, <1>5, <1>6, <1>7, <1>8, <1>9, <1>10 DEF UsageInv, EventsInv

LEMMA StopKeeps ==
  ASSUME UsageInv, Stop
  PROVE  UsageInv'
<1>1. /\ ledger' = EmptyLedger /\ clearedAt' = Len(log) /\ fromDisk' = {} /\ ~running' /\ running' = FALSE
      /\ authoritative' = FALSE
      /\ tailDay' = 0 /\ tailFile' = NoFile /\ currentModel' = NoModel
      /\ seen' = {} /\ forgotten' = {} /\ misread' = {}
      /\ UNCHANGED <<today, log, starts, legacy>>
      /\ \/ stored' = ledger.days /\ storedClearedAt' = clearedAt
         \/ UNCHANGED <<stored, storedClearedAt>>
  BY DEF Stop, NewTailer, Unsaved, world
<1>2. Types /\ ledger \in Ledgers /\ ledger.days \in DaySets /\ EventsInv /\ stored \in DaySets
  BY LedgerFields DEF UsageInv, EventsInv, Types
<1>3. /\ ledger' \in Ledgers /\ ledger'.days = NoDays /\ ledger'.baselines = NoBaselines
      /\ DOMAIN ledger'.days = {} /\ DOMAIN ledger'.baselines = {} /\ Undetailed(ledger'.days) = {}
      /\ ledger'.dirty = FALSE
  BY <1>1, EmptyFacts DEF EmptyLedger
<1>4. stored' \in DaySets
  BY <1>1, <1>2
<1>5. \A d \in DOMAIN stored' : d <= today'
  BY <1>1, <1>2 DEF EventsInv, NotAhead
<1>6. Len(log) \in Nat /\ Len(log) <= MaxLines /\ MaxLines \in Nat
  BY <1>2, LogFacts, DayFacts DEF EventsInv, TypeOK
<1>7. storedClearedAt' \in 0..MaxLines /\ storedClearedAt' <= Len(log) /\ clearedAt' \in 0..MaxLines
      /\ clearedAt' <= Len(log)
  BY <1>1, <1>2, <1>6 DEF EventsInv, TypeOK, NotAhead
<1>8. TypeOK'
  <2>1. running' \in BOOLEAN /\ authoritative' \in BOOLEAN /\ ledger'.dirty \in BOOLEAN
    BY <1>1, <1>3
  <2>2. IsDays(ledger.days)' /\ IsDays(stored)'
    BY <1>3, <1>4, DaySetFacts DEF IsDays
  <2> QED BY <1>1, <1>2, <1>3, <1>7, <2>1, <2>2 DEF TypeOK, EventsInv
<1>9. Types' /\ Stopped'
  BY <1>1, <1>2, <1>3, <1>4 DEF Types, Stopped
<1>10. NotAhead'
  <2>1. tailDay' <= today'
    BY <1>1, <1>2, DayFacts DEF EventsInv, TypeOK
  <2> QED BY <1>1, <1>3, <1>5, <1>7, <2>1 DEF NotAhead
<1>11. SeenOfDay' /\ FreshDays' /\ CountedOnce' /\ MisreadsExplained' /\ SeenIsCounted'
  BY <1>1, <1>3, FS_EmptySet DEF SeenOfDay, FreshDays, CountedOnce, MisreadsExplained, SeenIsCounted
<1>12. LedgerCounted' /\ BaselinesPastClear'
  BY <1>1, <1>2, <1>3, EmptyDaysCounted, NoBaselinesCounted
<1>13. StoredCounted'
  BY <1>1, SavedStaysCounted
<1> QED BY <1>8, <1>9, <1>10, <1>11, <1>12, <1>13 DEF UsageInv, EventsInv

LEMMA ClearKeeps ==
  ASSUME UsageInv, ClearHistory
  PROVE  UsageInv'
<1>1. /\ clearedAt' = Len(log) /\ fromDisk' = {} /\ forgotten' = seen /\ running
      /\ UNCHANGED <<today, log, running, starts, authoritative, legacy>>
      /\ UNCHANGED <<tailDay, tailFile, currentModel, seen, misread>>
  BY DEF ClearHistory, world, process
<1>2. Types /\ ledger \in Ledgers /\ EventsInv /\ stored \in DaySets
  BY DEF UsageInv, EventsInv, Types
<1>3. /\ ledger'.days = NoDays /\ ledger'.baselines = NoBaselines /\ ledger' \in Ledgers
      /\ ledger'.dirty \in BOOLEAN
      /\ \/ stored' = NoDays \/ UNCHANGED <<stored, storedClearedAt>>
      /\ \/ storedClearedAt' = Len(log) \/ UNCHANGED <<stored, storedClearedAt>>
  <2>1. \/ ledger' = [ClearLedger(ledger) EXCEPT !.dirty = FALSE] /\ Saved
        \/ ledger' = ClearLedger(ledger) /\ Unsaved
    BY DEF ClearHistory
  <2>2. NoDays \in DaySets /\ NoBaselines \in Baselines
    BY EmptyFacts DEF Ledgers
  <2>3. PICK L : L = ClearLedger(ledger)
    OBVIOUS
  <2>4. L \in Ledgers /\ L.days = NoDays /\ L.baselines = NoBaselines
    BY <2>2, <2>3 DEF ClearLedger, Ledgers
  <2>5. CASE ledger' = [L EXCEPT !.dirty = FALSE] /\ Saved
    <3>1. ledger' \in Ledgers /\ ledger'.days = NoDays /\ ledger'.baselines = NoBaselines
          /\ ledger'.dirty \in BOOLEAN
      BY <2>4, <2>5 DEF Ledgers
    <3> QED BY <3>1, <2>5, <1>1 DEF Saved
  <2>6. CASE ledger' = L /\ Unsaved
    <3>1. ledger'.dirty \in BOOLEAN
      BY <2>4, <2>6 DEF Ledgers
    <3> QED BY <3>1, <2>4, <2>6 DEF Unsaved
  <2> QED BY <2>1, <2>3, <2>5, <2>6
<1>4. DOMAIN ledger'.days = {} /\ DOMAIN ledger'.baselines = {} /\ Undetailed(ledger'.days) = {}
  BY <1>3, EmptyFacts
<1>5. stored' \in DaySets /\ \A d \in DOMAIN stored' : d <= today'
  BY <1>1, <1>2, <1>3, EmptyFacts DEF EventsInv, NotAhead
<1>6. Len(log) \in Nat /\ Len(log) <= MaxLines /\ MaxLines \in Nat
  BY <1>2, LogFacts, DayFacts DEF EventsInv, TypeOK
<1>7. storedClearedAt' \in 0..MaxLines /\ storedClearedAt' <= Len(log) /\ clearedAt' \in 0..MaxLines
      /\ clearedAt' <= Len(log)
  BY <1>1, <1>2, <1>3, <1>6 DEF EventsInv, TypeOK, NotAhead
<1>8. Cardinality(DOMAIN ledger'.days) <= Retention
  BY <1>4, DayFacts, FS_EmptySet
<1>9. TypeOK'
  <2>1. running' \in BOOLEAN /\ authoritative' \in BOOLEAN /\ ledger'.dirty \in BOOLEAN
    BY <1>1, <1>2, <1>3 DEF EventsInv, TypeOK
  <2>2. IsDays(ledger.days)' /\ IsDays(stored)'
    BY <1>3, <1>5, DaySetFacts, EmptyFacts DEF IsDays
  <2> QED BY <1>1, <1>2, <1>4, <1>7, <1>8, <2>1, <2>2 DEF TypeOK, EventsInv
<1>10. Types' /\ Stopped' /\ SeenOfDay' /\ MisreadsExplained'
  BY <1>1, <1>2, <1>3, <1>5, TailerKept DEF Types, Stopped, EventsInv
<1>11. NotAhead'
  BY <1>1, <1>2, <1>4, <1>5, <1>7 DEF NotAhead, EventsInv
<1>12. FreshDays' /\ CountedOnce'
  BY <1>4 DEF FreshDays, CountedOnce
<1>13. SeenIsCounted'
  <2>1. \A d : Bucket(ledger'.days, d).detailed = 0
    BY <1>4 DEF Bucket, EmptyDay
  <2>2. seen' \ forgotten' = {}
    BY <1>1
  <2> QED BY <2>1, <2>2, FS_EmptySet DEF SeenIsCounted
<1>14. LedgerCounted' /\ BaselinesPastClear'
  BY <1>1, <1>2, <1>3, <1>4, EmptyDaysCounted, NoBaselinesCounted
<1>15. StoredCounted'
  BY <1>1, <1>3, SavedStaysCounted, EmptyFacts
<1> QED BY <1>9, <1>10, <1>11, <1>12, <1>13, <1>14, <1>15 DEF UsageInv, EventsInv

(* The old JSON ledger has one day, before all days. *)
LEMMA LegacyFacts ==
  ASSUME NEW D \in LegacyLedgers
  PROVE  D \in DaySets /\ DOMAIN D \subseteq {LegacyDay}
<1>1. CASE D = NoDays
  BY <1>1, EmptyFacts
<1>2. CASE D \in [{LegacyDay} -> LegacyBuckets]
  <2>1. D \in [{LegacyDay} -> Buckets] /\ {LegacyDay} \in SUBSET AllDays
    BY <1>2, LegacyAssumption DEF AllDays
  <2> QED BY <1>2, <2>1 DEF DaySets
<1> QED BY <1>1, <1>2 DEF LegacyLedgers

(* Reading a bucket back leaves no more tokens without details than before. *)
LEMMA CanonicalFacts ==
  ASSUME NEW b \in Buckets
  PROVE  1..(Canonical(b).total - Canonical(b).detailed) \subseteq 1..(b.total - b.detailed)
<1>1. CASE b.detailed > 0
  <2>1. Canonical(b).total = b.detailed /\ Canonical(b).detailed = b.detailed /\ b.detailed \in Nat
    BY <1>1 DEF Canonical, Buckets
  <2>2. Canonical(b).total - Canonical(b).detailed = 0
    BY <2>1
  <2>3. 1..0 = {}
    OBVIOUS
  <2> QED BY <2>2, <2>3
<1>2. CASE ~(b.detailed > 0)
  BY <1>2 DEF Canonical
<1> QED BY <1>1, <1>2

LEMMA StartKeeps ==
  ASSUME UsageInv, Start
  PROVE  UsageInv'
<1>1. /\ running' = TRUE /\ starts' = starts + 1 /\ starts < MaxStarts /\ authoritative' = FALSE
      /\ tailDay' = 0 /\ tailFile' = NoFile /\ currentModel' = NoModel
      /\ seen' = {} /\ forgotten' = {} /\ misread' = {}
      /\ UNCHANGED <<today, log, legacy, storedClearedAt>>
  BY DEF Start, NewTailer, world
<1>2. Types /\ stored \in DaySets /\ EventsInv /\ legacy \in LegacyLedgers /\ today \in Days /\ today \in Nat
  BY DayFacts DEF UsageInv, EventsInv, Types, TypeOK
<1>3. PICK readable \in BOOLEAN, saved \in BOOLEAN :
        LET loaded   == IF readable THEN LoadLedger(stored) ELSE EmptyLedger
            imports  == DOMAIN loaded.days = {} /\ legacy # NoDays
            opened   == IF imports THEN [LoadLedger(legacy) EXCEPT !.dirty = FALSE] ELSE loaded
        IN  /\ ledger' = SetRetentionDays(opened, Retention)
            /\ stored' = IF imports /\ saved THEN opened.days ELSE stored
            /\ clearedAt' = (IF readable THEN storedClearedAt ELSE Len(log))
            /\ fromDisk' = DOMAIN opened.days
  BY DEF Start
<1>4. PICK loaded : loaded = IF readable THEN LoadLedger(stored) ELSE EmptyLedger
  OBVIOUS
<1>5. PICK imports : imports = (DOMAIN loaded.days = {} /\ legacy # NoDays)
  OBVIOUS
<1>6. PICK opened : opened = IF imports THEN [LoadLedger(legacy) EXCEPT !.dirty = FALSE] ELSE loaded
  OBVIOUS
<1>7. /\ ledger' = SetRetentionDays(opened, Retention)
      /\ stored' = opened.days \/ stored' = stored
      /\ stored' = opened.days => imports \/ stored' = stored
      /\ clearedAt' = (IF readable THEN storedClearedAt ELSE Len(log))
      /\ fromDisk' = DOMAIN opened.days
  BY <1>3, <1>4, <1>5, <1>6
(* What is opened. *)
<1>8. /\ opened \in Ledgers /\ opened.baselines = NoBaselines
      /\ \A d \in DOMAIN opened.days : d <= today
      /\ IsFiniteSet(Undetailed(opened.days))
      /\ Cardinality(Undetailed(opened.days)) <= Cardinality(LinesAfter(clearedAt'))
      /\ imports => Undetailed(opened.days) = {}
  <2>1. CASE imports
    <3>1. PICK L : L = LoadLedger(legacy)
      OBVIOUS
    <3>2. legacy \in DaySets /\ DOMAIN legacy \subseteq {LegacyDay}
      BY <1>2, LegacyFacts
    <3>3. L \in Ledgers /\ L.baselines = NoBaselines /\ DOMAIN L.days \subseteq {LegacyDay}
      BY <3>1, <3>2, LoadFacts
    <3>4. opened \in Ledgers /\ opened.baselines = L.baselines /\ opened.days = L.days
      BY <1>6, <2>1, <3>1, <3>3 DEF Ledgers
    <3>5. Undetailed(opened.days) = {}
      <4>1. DOMAIN opened.days \cap Days = {}
        BY <3>3, <3>4, DayFacts
      <4> QED BY <4>1 DEF Undetailed
    <3>6. \A d \in DOMAIN opened.days : d <= today
      <4>1. LegacyDay <= today
        BY <1>2 DEF LegacyDay
      <4> QED BY <3>3, <3>4, <4>1
    <3> QED BY <1>2, <3>3, <3>4, <3>5, <3>6, EmptyDaysCounted
  <2>2. CASE ~imports /\ ~readable
    <3>1. opened = EmptyLedger
      BY <1>4, <1>6, <2>2
    <3> QED BY <1>2, <2>2, <3>1, EmptyFacts, EmptyDaysCounted
  <2>3. CASE ~imports /\ readable
    <3>1. opened = LoadLedger(stored) /\ clearedAt' = storedClearedAt
      BY <1>4, <1>6, <1>7, <2>3
    <3>2. PICK E : E = opened.days
      OBVIOUS
    <3>3. opened \in Ledgers /\ opened.baselines = NoBaselines /\ DOMAIN E = DOMAIN stored
          /\ \A d \in DOMAIN stored : E[d] = Canonical(stored[d])
      BY <1>2, <3>1, <3>2, LoadFacts
    <3>4. \A d \in DOMAIN E : d <= today
      BY <1>2, <3>3 DEF EventsInv, NotAhead
    <3>5. Undetailed(E) \subseteq Undetailed(stored)
      <4> SUFFICES ASSUME NEW d \in DOMAIN E \cap Days, NEW k \in 1..(E[d].total - E[d].detailed)
                   PROVE  <<d, k>> \in Undetailed(stored)
        BY DEF Undetailed
      <4>1. d \in DOMAIN stored /\ E[d] = Canonical(stored[d])
        BY <3>3
      <4>2. stored[d] \in Buckets
        BY <1>2, <4>1, DaySetFacts
      <4>3. PICK b : b = stored[d]
        OBVIOUS
      <4>4. k \in 1..(b.total - b.detailed)
        BY <4>1, <4>2, <4>3, CanonicalFacts
      <4> QED BY <4>1, <4>3, <4>4 DEF Undetailed
    <3>6. PICK X, Y, Z : X = Undetailed(stored) /\ Y = Undetailed(E) /\ Z = LinesAfter(storedClearedAt)
      OBVIOUS
    <3>7. IsFiniteSet(X) /\ Cardinality(X) <= Cardinality(Z) /\ Cardinality(Z) \in Nat
      BY <1>2, <3>6, LinesFacts DEF UsageInv, StoredCounted
    <3>8. IsFiniteSet(Y) /\ Cardinality(Y) <= Cardinality(X)
      <4>1. Y \in SUBSET X
        BY <3>5, <3>6
      <4> QED BY <3>7, <4>1, FS_Subset
    <3>9. Cardinality(X) \in Nat /\ Cardinality(Y) \in Nat
      BY <3>7, <3>8, FS_CardinalityType
    <3>10. Cardinality(Y) <= Cardinality(Z)
      BY <3>7, <3>8, <3>9
    <3> QED BY <2>3, <3>1, <3>2, <3>3, <3>4, <3>6, <3>8, <3>10
  <2> QED BY <2>1, <2>2, <2>3
<1>9. PICK D, P : D = opened.days /\ P = PruneDays(D, Retention)
  OBVIOUS
<1>10. D \in DaySets
  BY <1>8, <1>9, LedgerFields
<1>11. /\ P \in DaySets /\ DOMAIN P \subseteq DOMAIN D /\ \A d \in DOMAIN P : P[d] = D[d]
       /\ Cardinality(DOMAIN P) <= Retention
  BY <1>9, <1>10, DayFacts, PruneFacts
<1>12. ledger' \in Ledgers /\ ledger'.days = P /\ ledger'.baselines = NoBaselines /\ ledger'.dirty \in BOOLEAN
  <2>1. PICK f \in BOOLEAN : ledger' = [opened EXCEPT !.days = P, !.dirty = f]
    <3>1. opened.dirty \in BOOLEAN
      BY <1>8, LedgerFields
    <3>2. (opened.dirty \/ Cardinality(DOMAIN P) # Cardinality(DOMAIN D)) \in BOOLEAN
      BY <3>1
    <3>3. ledger' = [opened EXCEPT !.days = P,
                       !.dirty = opened.dirty \/ Cardinality(DOMAIN P) # Cardinality(DOMAIN D)]
      BY <1>7, <1>9, <1>8 DEF SetRetentionDays, Ledgers
    <3> QED BY <3>2, <3>3
  <2> QED BY <1>8, <1>11, <2>1 DEF Ledgers
<1>13. /\ clearedAt' \in 0..MaxLines /\ clearedAt' <= Len(log)
       /\ storedClearedAt' \in 0..MaxLines /\ storedClearedAt' <= Len(log)
  <2>1. Len(log) \in Nat /\ Len(log) <= MaxLines /\ MaxLines \in Nat
    BY <1>2, LogFacts, DayFacts DEF EventsInv, TypeOK
  <2>2. storedClearedAt \in 0..MaxLines /\ storedClearedAt <= Len(log)
    BY <1>2 DEF EventsInv, TypeOK, NotAhead
  <2> QED BY <1>1, <1>7, <2>1, <2>2
<1>14. stored' \in DaySets /\ (\A d \in DOMAIN stored' : d <= today)
       /\ (stored' = stored \/ Undetailed(stored') = {})
  BY <1>2, <1>7, <1>8, <1>9, <1>10 DEF EventsInv, NotAhead
<1>15. TypeOK'
  <2>1. running' \in BOOLEAN /\ authoritative' \in BOOLEAN /\ ledger'.dirty \in BOOLEAN
    BY <1>1, <1>12
  <2>2. IsDays(ledger.days)' /\ IsDays(stored)'
    BY <1>11, <1>12, <1>14, DaySetFacts DEF IsDays
  <2>3. starts' \in 0..MaxStarts
    <3>1. starts \in 0..MaxStarts /\ MaxStarts \in Nat
      BY <1>2, UsageAssumption DEF EventsInv, TypeOK
    <3> QED BY <1>1, <3>1
  <2>4. fromDisk' \subseteq AllDays /\ DOMAIN ledger'.baselines \subseteq Sessions
    BY <1>7, <1>9, <1>10, <1>12, DaySetFacts, LedgerFields
  <2>5. today' \in Days /\ Len(log') <= MaxLines /\ legacy' \in LegacyLedgers
    BY <1>1, <1>2 DEF EventsInv, TypeOK
  <2> QED BY <1>1, <1>11, <1>12, <1>13, <2>1, <2>2, <2>3, <2>4, <2>5 DEF TypeOK
<1>16. Types' /\ Stopped'
  BY <1>1, <1>2, <1>12, <1>14 DEF Types, Stopped
<1>17. NotAhead'
  <2>1. tailDay' <= today' /\ \A d \in DOMAIN P : d <= today
    BY <1>1, <1>2, <1>8, <1>9, <1>11
  <2> QED BY <1>1, <1>12, <1>13, <1>14, <2>1 DEF NotAhead
<1>18. SeenOfDay' /\ FreshDays' /\ CountedOnce' /\ MisreadsExplained' /\ SeenIsCounted'
  BY <1>1, <1>7, <1>9, <1>11, <1>12, FS_EmptySet
     DEF SeenOfDay, FreshDays, CountedOnce, MisreadsExplained, SeenIsCounted
<1>19. LedgerCounted' /\ BaselinesPastClear'
  <2>1. Undetailed(P) \subseteq Undetailed(D)
    BY <1>11 DEF Undetailed
  <2>2. PICK X, Y, Z : X = Undetailed(D) /\ Y = Undetailed(P) /\ Z = LinesAfter(clearedAt')
    OBVIOUS
  <2>3. IsFiniteSet(X) /\ Cardinality(X) <= Cardinality(Z) /\ Cardinality(Z) \in Nat /\ Y \in SUBSET X
    BY <1>2, <1>8, <1>9, <2>1, <2>2, LinesFacts
  <2>4. IsFiniteSet(Y) /\ Cardinality(Y) <= Cardinality(X)
    BY <2>3, FS_Subset
  <2>5. Cardinality(X) \in Nat /\ Cardinality(Y) \in Nat
    BY <2>3, <2>4, FS_CardinalityType
  <2>6. Cardinality(Y) <= Cardinality(Z)
    BY <2>3, <2>4, <2>5
  <2> QED BY <1>1, <1>2, <1>12, <2>2, <2>4, <2>6, NoBaselinesCounted
<1>20. StoredCounted'
  BY <1>1, <1>14, SavedStaysCounted
<1> QED BY <1>15, <1>16, <1>17, <1>18, <1>19, <1>20 DEF UsageInv, EventsInv

-----------------------------------------------------------------------------
(* 8. Codex and the clock. *)

LEMMA MidnightKeeps ==
  ASSUME UsageInv, Midnight
  PROVE  UsageInv'
<1>1. /\ today < MaxDay /\ today' = today + 1
      /\ UNCHANGED <<log, running, starts, ledger, authoritative, tailDay, tailFile, currentModel, seen,
                     forgotten, misread, stored, legacy, storedClearedAt, fromDisk, clearedAt>>
  BY DEF Midnight, process, tailer, disk
<1>2. EventsInv /\ today \in Nat /\ MaxDay \in Nat /\ today > 0 /\ tailDay \in Nat
      /\ (\A d \in DOMAIN ledger.days : d \in Nat) /\ (\A d \in DOMAIN stored : d \in Nat)
  <2>1. EventsInv /\ today \in Days /\ tailDay \in Days \cup {0}
        /\ DOMAIN ledger.days \subseteq AllDays /\ DOMAIN stored \subseteq AllDays
    BY DEF UsageInv, EventsInv, TypeOK, IsDays
  <2>2. today \in Nat /\ today > 0 /\ tailDay \in Nat
    <3>1. 0 \in Nat
      OBVIOUS
    <3> QED BY <2>1, <3>1, DayFacts
  <2>3. (\A d \in DOMAIN ledger.days : d \in Nat) /\ (\A d \in DOMAIN stored : d \in Nat)
    BY <2>1, DayFacts
  <2> QED BY <2>1, <2>2, <2>3, DayFacts
<1>3. today' \in Days
  BY <1>1, <1>2 DEF Days
<1>4. TypeOK'
  <2>1. IsDays(ledger.days)' /\ IsDays(stored)'
    BY <1>1, <1>2 DEF EventsInv, TypeOK, IsDays
  <2> QED BY <1>1, <1>2, <1>3, <2>1 DEF EventsInv, TypeOK
<1>5. /\ Types' /\ Stopped' /\ SeenOfDay' /\ FreshDays' /\ CountedOnce' /\ MisreadsExplained'
      /\ SeenIsCounted'
  <2>1. Types' /\ Stopped' /\ FreshDays' /\ SeenIsCounted'
    BY <1>1, <1>2 DEF EventsInv, Types, Stopped, FreshDays, SeenIsCounted, DroppedByRetention
  <2> QED BY <1>1, <1>2, <2>1, TailerKept DEF EventsInv, CountedOnce
<1>6. NotAhead'
  <2>1. tailDay <= today + 1 /\ (\A d \in DOMAIN ledger.days : d <= today + 1)
        /\ (\A d \in DOMAIN stored : d <= today + 1)
    BY <1>2 DEF EventsInv, NotAhead
  <2> QED BY <1>1, <1>2, <2>1 DEF EventsInv, NotAhead
<1>7. LedgerCounted' /\ BaselinesPastClear'
  BY <1>1, EventsKeepCounters
<1>8. StoredCounted'
  BY <1>1, SavedStaysCounted
<1> QED BY <1>4, <1>5, <1>6, <1>7, <1>8 DEF UsageInv, EventsInv

(* A line more does not change the model of a line before it. *)
LEMMA OlderModels ==
  ASSUME DOMAIN log = 1..Len(log), Len(log) \in Nat, DOMAIN log' = 1..(Len(log) + 1),
         \A j \in DOMAIN log : log'[j] = log[j],
         NEW i \in DOMAIN log
  PROVE  ModelOf(i)' = ModelOf(i)
<1>1. PICK t, S : t = log[i].session /\ S = {j \in Lines(t) : j < i}
  OBVIOUS
<1>2. S = {j \in Lines(t)' : j < i}
  <2>1. S \subseteq {j \in Lines(t)' : j < i}
    BY <1>1 DEF Lines
  <2>2. ASSUME NEW j \in Lines(t)', j < i
        PROVE  j \in S
    <3>1. j \in DOMAIN log' /\ log'[j].session = t
      BY <2>2 DEF Lines
    <3>2. j \in DOMAIN log
      BY <2>2, <3>1
    <3> QED BY <1>1, <2>2, <3>1, <3>2 DEF Lines
  <2> QED BY <2>1, <2>2
<1>3. S \subseteq DOMAIN log
  BY <1>1 DEF Lines
<1>4. Contexts(S)' = Contexts(S) /\ Contexts(S) \subseteq DOMAIN log
  BY <1>3 DEF Contexts
<1>5. ModelAfter(S, NoModel)' = ModelAfter(S, NoModel)
  <2>1. CASE Contexts(S) = {}
    BY <1>4, <2>1 DEF ModelAfter
  <2>2. CASE Contexts(S) # {}
    <3>1. PICK C : C = Contexts(S)
      OBVIOUS
    <3>2. C \in SUBSET Int /\ IsFiniteSet(C) /\ C # {}
      <4>1. IsFiniteSet(DOMAIN log)
        BY FS_Interval
      <4> QED BY <1>4, <2>2, <3>1, <4>1, FS_Subset
    <3>3. Max(C) \in DOMAIN log
      BY <1>4, <3>1, <3>2, LargestExists
    <3>4. ModelAfter(S, NoModel) = log[Max(C)].model /\ ModelAfter(S, NoModel)' = log'[Max(C)].model
      BY <1>4, <2>2, <3>1 DEF ModelAfter
    <3> QED BY <3>3, <3>4
  <2> QED BY <2>1, <2>2
<1>6. log'[i] = log[i] /\ {j \in Lines(t)' : j < i} = {j \in Lines(t) : j < i}
  BY <1>1, <1>2
<1>7. ModelOf(i) = IF log[i].model # NoModel THEN log[i].model ELSE ModelAfter(S, NoModel)
  BY <1>1 DEF ModelOf, Resolved
<1>8. ModelOf(i)' = IF log'[i].model # NoModel THEN log'[i].model ELSE ModelAfter(S, NoModel)'
  BY <1>1, <1>2, <1>6 DEF ModelOf, Resolved
<1> QED BY <1>5, <1>6, <1>7, <1>8

(* A line more changes neither the lines before it nor their ranks. *)
LEMMA CodexWritesKeeps ==
  ASSUME UsageInv, CodexWrites
  PROVE  UsageInv'
<1>1. /\ Len(log) < MaxLines
      /\ UNCHANGED <<today, running, starts, ledger, authoritative, tailDay, tailFile, currentModel, seen,
                     forgotten, misread, stored, legacy, storedClearedAt, fromDisk, clearedAt>>
  BY DEF CodexWrites, process, tailer, disk
<1>2. EventsInv /\ Types /\ today \in Days /\ Len(log) \in Nat /\ DOMAIN log = 1..Len(log) /\ MaxLines \in Nat
      /\ clearedAt \in Nat /\ storedClearedAt \in Nat
      /\ clearedAt <= Len(log) /\ storedClearedAt <= Len(log)
  BY LogFacts, DayFacts DEF UsageInv, EventsInv, TypeOK, NotAhead
<1>3. PICK s \in Sessions, tokens \in BOOLEAN, model \in Named :
        log' = Append(log, [session |-> s, day |-> today, tokens |-> tokens, model |-> model])
  BY UsageAssumption DEF CodexWrites, Named
<1>4. /\ log' \in Seq(AnyLine)
      /\ Len(log') = Len(log) + 1 /\ DOMAIN log' = 1..(Len(log) + 1)
      /\ \A i \in DOMAIN log : log'[i] = log[i]
  <2>1. PICK Rec : Rec = AnyLine
    OBVIOUS
  <2>2. PICK r : r = [session |-> s, day |-> today, tokens |-> tokens, model |-> model]
    OBVIOUS
  <2>3. r \in Rec /\ log \in Seq(Rec) /\ log' = Append(log, r)
    BY <1>2, <1>3, <2>1, <2>2 DEF Types, AnyLine
  <2>4. /\ log' \in Seq(Rec) /\ Len(log') = Len(log) + 1
        /\ \A i \in 1..Len(log) : log'[i] = log[i]
    BY <2>3
  <2>5. DOMAIN log' = 1..Len(log')
    BY <2>4
  <2> QED BY <1>2, <2>1, <2>4, <2>5
<1>5. /\ DOMAIN log \subseteq DOMAIN log'
      /\ \A j \in DOMAIN log' : \A i \in Nat : i <= Len(log) => (j <= i => j \in DOMAIN log)
      /\ \A i \in DOMAIN log : i \in Nat /\ i <= Len(log)
  BY <1>2, <1>4
<1>6. Types' /\ Stopped'
  BY <1>1, <1>2, <1>4 DEF EventsInv, Types, Stopped
<1>7. \A d : Countable(d) \subseteq Countable(d)'
  <2> SUFFICES ASSUME NEW d
               PROVE  Countable(d) \subseteq Countable(d)'
    OBVIOUS
  <2>1. TokensOf(d) \subseteq TokensOf(d)' /\ TokensOf(d) \subseteq DOMAIN log
    BY <1>4, <1>5 DEF TokensOf
  <2>2. \A i \in DOMAIN log : ModelOf(i)' = ModelOf(i)
    BY <1>2, <1>4, OlderModels
  <2>3. {<<i, ModelOf(i)>> : i \in TokensOf(d)} \subseteq Countable(d)'
    BY <2>1, <2>2 DEF Countable
  <2>4. {e \in misread : log[e[1]].day = d} \subseteq Countable(d)'
    <3>1. \A e \in misread : e[1] \in DOMAIN log
      BY <1>2 DEF EventsInv, TypeOK
    <3> QED BY <1>1, <1>4, <3>1 DEF Countable
  <2> QED BY <2>3, <2>4 DEF Countable
<1>8. \A d : Cardinality(Countable(d)) \in Nat /\ Cardinality(Countable(d)') \in Nat
             /\ Cardinality(Countable(d)) <= Cardinality(Countable(d)')
  <2> SUFFICES ASSUME NEW d
               PROVE  Cardinality(Countable(d)) \in Nat /\ Cardinality(Countable(d)') \in Nat
                      /\ Cardinality(Countable(d)) <= Cardinality(Countable(d)')
    OBVIOUS
  <2>1. PICK X, Y, T : X = Countable(d) /\ Y = Countable(d)' /\ T = TokensOf(d)'
    OBVIOUS
  <2>2. PICK f, A, B : /\ f = [i \in T |-> ModelOf(i)'] /\ A = {<<i, f[i]>> : i \in T}
                       /\ B = {e \in misread : log'[e[1]].day = d}
    OBVIOUS
  <2>3. IsFiniteSet(T)
    <3>1. IsFiniteSet(DOMAIN log')
      BY <1>2, <1>4, FS_Interval
    <3>2. T \subseteq DOMAIN log'
      BY <2>1 DEF TokensOf
    <3> QED BY <3>1, <3>2, FS_Subset
  <2>4. IsFiniteSet(A)
    BY <2>2, <2>3, PairsFinite
  <2>5. IsFiniteSet(B)
    <3>1. IsFiniteSet(misread)
      BY <1>2 DEF EventsInv, SeenOfDay
    <3> QED BY <2>2, <3>1, FS_Subset
  <2>6. IsFiniteSet(A \cup B)
    BY <2>4, <2>5, FS_Union
  <2>7. Y = A \cup B
    <3>1. A = {<<i, ModelOf(i)'>> : i \in T}
      BY <2>2
    <3> QED BY <1>1, <2>1, <2>2, <3>1 DEF Countable
  <2>8. IsFiniteSet(Y) /\ X \in SUBSET Y
    BY <1>7, <2>1, <2>6, <2>7
  <2>9. IsFiniteSet(X) /\ Cardinality(X) <= Cardinality(Y)
    BY <2>8, FS_Subset
  <2>10. Cardinality(X) \in Nat /\ Cardinality(Y) \in Nat
    BY <2>8, <2>9, FS_CardinalityType
  <2> QED BY <2>1, <2>9, <2>10
<1>9. TypeOK'
  <2>1. IsDays(ledger.days)' /\ IsDays(stored)'
    BY <1>1, <1>2 DEF EventsInv, TypeOK, IsDays
  <2>2. Len(log') <= MaxLines
    BY <1>1, <1>2, <1>4
  <2>3. seen' \cup misread' \subseteq (DOMAIN log') \X (Models \cup {NoModel})
    <3>1. seen \cup misread \subseteq (DOMAIN log) \X (Models \cup {NoModel})
      BY <1>2 DEF EventsInv, TypeOK
    <3> QED BY <1>1, <1>5, <3>1
  <2> QED BY <1>1, <1>2, <2>1, <2>2, <2>3 DEF EventsInv, TypeOK
<1>10. NotAhead'
  <2>1. clearedAt <= Len(log') /\ storedClearedAt <= Len(log')
    BY <1>2, <1>4
  <2> QED BY <1>1, <1>2, <2>1 DEF EventsInv, NotAhead
<1>11. SeenOfDay' /\ FreshDays' /\ SeenIsCounted'
  <2>1. PICK d : d = tailDay
    OBVIOUS
  <2>2. seen \subseteq Countable(d)' /\ IsFiniteSet(misread)
    BY <1>2, <1>7, <2>1 DEF EventsInv, SeenOfDay
  <2>3. Countable(tailDay)' = Countable(d)'
    BY <1>1, <2>1 DEF Countable, TokensOf
  <2>4. SeenOfDay'
    BY <1>1, <2>2, <2>3 DEF SeenOfDay
  <2> QED BY <1>1, <1>2, <2>4 DEF EventsInv, FreshDays, SeenIsCounted, DroppedByRetention
<1>12. CountedOnce' /\ MisreadsExplained'
  <2>1. CountedOnce'
    <3> SUFFICES ASSUME NEW d \in (DOMAIN ledger'.days \cap Days) \ fromDisk'
                 PROVE  ledger'.days[d].detailed <= Cardinality(Countable(d)')
      BY DEF CountedOnce
    <3>1. d \in (DOMAIN ledger.days \cap Days) \ fromDisk
      BY <1>1
    <3>2. ledger.days[d].detailed <= Cardinality(Countable(d))
      BY <1>2, <3>1 DEF EventsInv, CountedOnce
    <3>3. ledger.days[d].detailed \in Nat
      <4>1. ledger.days[d] \in Buckets
        BY <1>2, <3>1 DEF EventsInv, TypeOK, IsDays
      <4> QED BY <4>1 DEF Buckets
    <3>4. ledger.days[d].detailed <= Cardinality(Countable(d)')
      BY <1>8, <3>2, <3>3
    <3> QED BY <1>1, <3>4
  <2>2. MisreadsExplained'
    <3> DEFINE now(t) == {j \in DOMAIN log' : log'[j].session = t}
    <3> SUFFICES ASSUME NEW e \in misread
                 PROVE  \/ Cardinality(now(log'[e[1]].session)) > TailLines
                        \/ ModelOf(e[1])' = NoModel
      BY <1>1 DEF MisreadsExplained, Lines
    <3>1. PICK i \in DOMAIN log : i = e[1]
      BY <1>2 DEF EventsInv, TypeOK
    <3>2. PICK X, Y : X = Lines(log[i].session) /\ Y = now(log'[i].session)
      OBVIOUS
    <3>3. X \in SUBSET Y /\ Y \subseteq DOMAIN log'
      BY <1>4, <1>5, <3>1, <3>2 DEF Lines
    <3>4. IsFiniteSet(Y)
      <4>1. PICK m \in Nat : DOMAIN log' = 1 .. m
        BY <1>2, <1>4
      <4>2. IsFiniteSet(1 .. m)
        BY <4>1, FS_Interval
      <4> QED BY <3>3, <4>1, <4>2, FS_Subset
    <3>5. IsFiniteSet(X) /\ Cardinality(X) <= Cardinality(Y)
      BY <3>3, <3>4, FS_Subset
    <3>6. Cardinality(X) \in Nat /\ Cardinality(Y) \in Nat /\ TailLines \in Nat
      BY <3>4, <3>5, FS_CardinalityType, UsageAssumption
    <3>7. Cardinality(X) > TailLines \/ ModelOf(i) = NoModel
      BY <1>2, <3>1, <3>2 DEF EventsInv, MisreadsExplained
    <3>8. ModelOf(i)' = ModelOf(i)
      BY <1>2, <1>4, <3>1, OlderModels
    <3>9. Cardinality(Y) > TailLines \/ ModelOf(i)' = NoModel
      BY <3>5, <3>6, <3>7, <3>8
    <3> QED BY <3>1, <3>2, <3>9
  <2> QED BY <2>1, <2>2
<1>13. \A n \in Nat : LinesAfter(n) \subseteq LinesAfter(n)'
  BY <1>4, <1>5 DEF LinesAfter, Tokens
<1>14. \A X : X \subseteq DOMAIN log' => IsFiniteSet(X) /\ Cardinality(X) \in Nat
  <2>1. IsFiniteSet(DOMAIN log')
    BY <1>2, <1>4, FS_Interval
  <2> SUFFICES ASSUME NEW X \in SUBSET DOMAIN log'
               PROVE  IsFiniteSet(X) /\ Cardinality(X) \in Nat
    OBVIOUS
  <2> QED BY <2>1, FS_Subset, FS_CardinalityType
(* The ranks below any line written before. *)
<1>15. ASSUME NEW t, NEW i \in Nat, i <= Len(log)
       PROVE  {j \in Tokens(Lines(t)) : j <= i}' = {j \in Tokens(Lines(t)) : j <= i}
  <2>1. PICK A, B : A = {j \in Tokens(Lines(t)) : j <= i} /\ B = {j \in Tokens(Lines(t))' : j <= i}
    OBVIOUS
  <2>2. A \subseteq B
    BY <2>1, <1>4, <1>5 DEF Tokens, Lines
  <2>3. ASSUME NEW j \in B
        PROVE  j \in A
    <3>1. j \in DOMAIN log' /\ j <= i
      BY <2>1, <2>3 DEF Tokens, Lines
    <3>2. j \in DOMAIN log
      BY <1>5, <1>15, <3>1
    <3> QED BY <2>1, <2>3, <3>1, <3>2, <1>4 DEF Tokens, Lines
  <2>4. A = B
    BY <2>2, <2>3
  <2> QED BY <2>1, <2>4
<1>16. \A i \in DOMAIN log : Rank(i)' = Rank(i)
  <2> SUFFICES ASSUME NEW i \in DOMAIN log
               PROVE  Rank(i)' = Rank(i)
    OBVIOUS
  <2>1. PICK t : t = log[i].session /\ t = log'[i].session
    BY <1>4
  <2>2. Rank(i) = Cardinality({j \in Tokens(Lines(t)) : j <= i})
    BY <2>1 DEF Rank
  <2>3. Rank(i)' = Cardinality({j \in Tokens(Lines(t)) : j <= i}')
    BY <2>1 DEF Rank, Tokens, Lines
  <2>4. i \in Nat /\ i <= Len(log)
    BY <1>5
  <2> QED BY <1>15, <2>2, <2>3, <2>4
<1>17. Accounted \subseteq Accounted'
  <2> SUFFICES ASSUME NEW i \in Accounted
               PROVE  i \in Accounted'
    OBVIOUS
  <2>1. i \in LinesAfter(clearedAt) /\ i \in DOMAIN log
        /\ (log[i].session \in DOMAIN ledger.baselines => Rank(i) <= ledger.baselines[log[i].session])
    BY DEF Accounted, LinesAfter, Tokens
  <2>2. i \in LinesAfter(clearedAt)'
    <3>1. PICK n : n = clearedAt
      OBVIOUS
    <3>2. i \in LinesAfter(n)'
      BY <1>2, <1>13, <2>1, <3>1
    <3> QED BY <1>1, <3>1, <3>2 DEF LinesAfter
  <2>3. log'[i].session \in DOMAIN ledger'.baselines => Rank(i)' <= ledger'.baselines[log'[i].session]
    BY <1>1, <1>4, <1>16, <2>1
  <2>4. Accounted' = {k \in LinesAfter(clearedAt)' :
             log'[k].session \in DOMAIN ledger'.baselines => Rank(k)' <= ledger'.baselines[log'[k].session]}
    BY <1>1 DEF Accounted, LinesAfter, Rank
  <2> QED BY <2>2, <2>3, <2>4
<1>18. LedgerCounted'
  <2>1. PICK X, Y, U : X = Accounted /\ Y = Accounted' /\ U = Undetailed(ledger.days)
    OBVIOUS
  <2>2. X \in SUBSET Y /\ Y \subseteq DOMAIN log'
    BY <1>17, <2>1 DEF Accounted, LinesAfter, Tokens
  <2>3. IsFiniteSet(Y) /\ Cardinality(Y) \in Nat
    BY <1>14, <2>2
  <2>4. IsFiniteSet(X) /\ Cardinality(X) <= Cardinality(Y)
    BY <2>2, <2>3, FS_Subset
  <2>5. IsFiniteSet(U) /\ Cardinality(U) <= Cardinality(X)
    BY <2>1 DEF UsageInv, LedgerCounted
  <2>6. Cardinality(U) \in Nat /\ Cardinality(X) \in Nat
    BY <2>4, <2>5, FS_CardinalityType
  <2>7. Cardinality(U) <= Cardinality(Y)
    BY <2>3, <2>4, <2>5, <2>6
  <2>8. Undetailed(ledger.days)' = U
    BY <1>1, <2>1 DEF Undetailed
  <2> QED BY <2>1, <2>5, <2>7, <2>8 DEF LedgerCounted
<1>19. StoredCounted'
  <2>1. PICK X, Y, U : X = LinesAfter(storedClearedAt) /\ Y = LinesAfter(storedClearedAt)' /\ U = Undetailed(stored)
    OBVIOUS
  <2>2. X \in SUBSET Y /\ Y \subseteq DOMAIN log'
    <3>1. X \subseteq Y
      BY <1>1, <1>2, <1>13, <2>1 DEF LinesAfter, Tokens
    <3> QED BY <2>1, <3>1 DEF LinesAfter, Tokens
  <2>3. IsFiniteSet(Y) /\ Cardinality(Y) \in Nat
    BY <1>14, <2>2
  <2>4. IsFiniteSet(X) /\ Cardinality(X) <= Cardinality(Y)
    BY <2>2, <2>3, FS_Subset
  <2>5. IsFiniteSet(U) /\ Cardinality(U) <= Cardinality(X)
    BY <2>1 DEF UsageInv, StoredCounted
  <2>6. Cardinality(U) \in Nat /\ Cardinality(X) \in Nat
    BY <2>4, <2>5, FS_CardinalityType
  <2>7. Cardinality(U) <= Cardinality(Y)
    BY <2>3, <2>4, <2>5, <2>6
  <2>8. Undetailed(stored)' = U
    BY <1>1, <2>1 DEF Undetailed
  <2> QED BY <2>1, <2>5, <2>7, <2>8 DEF StoredCounted
<1>20. BaselinesPastClear'
  <2> SUFFICES ASSUME NEW t \in DOMAIN ledger'.baselines
               PROVE  Cardinality({i \in Tokens(Lines(t)) : i <= clearedAt})' <= ledger'.baselines[t]
    BY <1>1 DEF BaselinesPastClear, Tokens, Lines
  <2>1. Cardinality({i \in Tokens(Lines(t)) : i <= clearedAt}) <= ledger.baselines[t]
    BY <1>1 DEF UsageInv, BaselinesPastClear
  <2>2. PICK n : n = clearedAt
    OBVIOUS
  <2>3. {i \in Tokens(Lines(t)) : i <= n}' = {i \in Tokens(Lines(t)) : i <= n}
    BY <1>2, <1>15, <2>2
  <2>4. {i \in Tokens(Lines(t)) : i <= clearedAt}' = {i \in Tokens(Lines(t)) : i <= n}'
    BY <1>1, <2>2 DEF Tokens, Lines
  <2> QED BY <1>1, <2>1, <2>2, <2>3, <2>4
<1> QED BY <1>6, <1>9, <1>10, <1>11, <1>12, <1>18, <1>19, <1>20 DEF UsageInv, EventsInv

-----------------------------------------------------------------------------
(* 9. The invariant and the theorems. *)

LEMMA UsageInit == Init => UsageInv
<1> SUFFICES ASSUME Init
             PROVE  UsageInv
  OBVIOUS
<1>1. /\ today = 1 /\ log = <<>> /\ running = FALSE /\ starts = 0
      /\ ledger = EmptyLedger /\ authoritative = FALSE
      /\ tailDay = 0 /\ tailFile = NoFile /\ currentModel = NoModel
      /\ seen = {} /\ forgotten = {} /\ misread = {}
      /\ stored = NoDays /\ legacy \in LegacyLedgers
      /\ fromDisk = {} /\ clearedAt = 0 /\ storedClearedAt = 0
  BY DEF Init
<1>2. /\ ledger \in Ledgers /\ ledger.days = NoDays /\ ledger.baselines = NoBaselines /\ stored \in DaySets
      /\ DOMAIN NoDays = {} /\ DOMAIN NoBaselines = {} /\ Undetailed(NoDays) = {} /\ NoDays \in DaySets
      /\ ledger.dirty = FALSE
  BY <1>1, EmptyFacts DEF EmptyLedger
<1>3. log \in Seq(AnyLine) /\ Len(log) = 0 /\ DOMAIN log = {}
  BY <1>1
<1>4. Types /\ Stopped
  BY <1>1, <1>2, <1>3 DEF Types, Stopped
<1>5. TypeOK
  <2>1. today \in Days /\ starts \in 0..MaxStarts /\ clearedAt \in 0..MaxLines /\ storedClearedAt \in 0..MaxLines
        /\ Len(log) <= MaxLines
    BY <1>1, <1>3, UsageAssumption DEF Days
  <2>2. IsDays(ledger.days) /\ IsDays(stored)
    BY <1>1, <1>2 DEF IsDays
  <2>3. running \in BOOLEAN /\ authoritative \in BOOLEAN /\ ledger.dirty \in BOOLEAN
    BY <1>1, <1>2
  <2> QED BY <1>1, <1>2, <2>1, <2>2, <2>3 DEF TypeOK
<1>6. NotAhead
  BY <1>1, <1>2, <1>3 DEF NotAhead
<1>7. SeenOfDay /\ FreshDays /\ CountedOnce /\ MisreadsExplained /\ SeenIsCounted
  BY <1>1, <1>2, FS_EmptySet DEF SeenOfDay, FreshDays, CountedOnce, MisreadsExplained, SeenIsCounted
<1>8. LedgerCounted /\ StoredCounted
  <2>1. Cardinality(Accounted) \in Nat /\ Cardinality(LinesAfter(storedClearedAt)) \in Nat
    BY <1>4, LinesFacts
  <2>2. IsFiniteSet(Undetailed(NoDays)) /\ Cardinality(Undetailed(NoDays)) = 0
    BY <1>2, FS_EmptySet
  <2> QED BY <1>1, <1>2, <2>1, <2>2 DEF LedgerCounted, StoredCounted
<1>9. BaselinesPastClear
  BY <1>2 DEF BaselinesPastClear
<1> QED BY <1>4, <1>5, <1>6, <1>7, <1>8, <1>9 DEF UsageInv, EventsInv

LEMMA UsageNext == UsageInv /\ [Next]_vars => UsageInv'
<1> SUFFICES ASSUME UsageInv, [Next]_vars
             PROVE  UsageInv'
  OBVIOUS
<1>1. CASE CodexWrites
  BY <1>1, CodexWritesKeeps
<1>2. CASE Midnight
  BY <1>2, MidnightKeeps
<1>3. CASE Start
  BY <1>3, StartKeeps
<1>4. CASE Flush
  BY <1>4, FlushKeeps
<1>5. CASE Stop
  BY <1>5, StopKeeps
<1>6. CASE ClearHistory
  BY <1>6, ClearKeeps
<1>7. CASE FallbackPoll
  <2>1. StoredCounted'
    BY <1>7, SavedStaysCounted DEF FallbackPoll, world, disk
  <2> QED BY <1>7, <2>1, FallbackPollCounts, FallbackPollEvents DEF UsageInv
<1>8. CASE TokenPollNewDay
  <2>1. StoredCounted'
    BY <1>8, SavedStaysCounted DEF TokenPollNewDay, world, disk
  <2> QED BY <1>8, <2>1, NewDayKeeps DEF UsageInv
<1>9. CASE TokenPoll
  <2>1. StoredCounted'
    BY <1>9, SavedStaysCounted DEF TokenPoll, Keep, world, disk
  <2> QED BY <1>9, <2>1, TokenPollKeeps DEF UsageInv
<1>10. CASE UNCHANGED vars
  <2>1. UNCHANGED <<today, log, running, starts, ledger, authoritative, tailDay, tailFile, currentModel,
                    seen, forgotten, misread, stored, legacy, storedClearedAt, fromDisk, clearedAt>>
    BY <1>10 DEF vars, world, process, tailer, disk
  <2>2. EventsInv'
    <3>1. TypeOK' /\ Types' /\ Stopped' /\ NotAhead' /\ FreshDays' /\ SeenIsCounted'
      BY <2>1 DEF UsageInv, EventsInv, TypeOK, IsDays, Types, Stopped, NotAhead, FreshDays,
                  SeenIsCounted, DroppedByRetention
    <3> QED BY <2>1, <3>1, TailerKept DEF UsageInv, EventsInv, CountedOnce
  <2>3. LedgerCounted' /\ BaselinesPastClear'
    BY <2>1, EventsKeepCounters
  <2>4. StoredCounted'
    BY <2>1, SavedStaysCounted
  <2> QED BY <2>2, <2>3, <2>4 DEF UsageInv
<1> QED BY <1>1, <1>2, <1>3, <1>4, <1>5, <1>6, <1>7, <1>8, <1>9, <1>10 DEF Next

(* The inductive invariant holds in every reachable state: buckets, tailer, *)
(* baselines and store stay in step (session_token_fallback.rs:69-117,      *)
(* local_usage_ledger.rs:318-336).                                          *)
THEOREM UsageInvariant == Spec => []UsageInv
<1> QED BY UsageInit, UsageNext, PTL DEF Spec

(* A token event is counted in its day, at most once for each model a read  *)
(* has found for it; a second model comes only from a file whose            *)
(* turn_context lies before the tail, or that names none before the event;  *)
(* and none is lost, through rescans, changes of file, midnights, clears,   *)
(* crashes and the retention (session_token_fallback.rs:69-117, 205-251,    *)
(* 328-352, official_runtime.rs:505-532).                                   *)
THEOREM EventsCounted == Spec => []EventsCountedExactly
<1>1. UsageInv => EventsCountedExactly
  BY DEF UsageInv, EventsInv, EventsCountedExactly
<1> QED BY <1>1, UsageInvariant, PTL

(* The tokens only SQLite's counters have reported are no more than the     *)
(* lines written since the last clear: no frame, restart or store makes     *)
(* one count twice (local_usage_ledger.rs:318-336).                         *)
THEOREM CountersCounted == Spec => []CountersCountedOnce
<1>1. UsageInv => CountersCountedOnce
  <2> SUFFICES ASSUME UsageInv
               PROVE  CountersCountedOnce
    OBVIOUS
  <2>1. LinesAfter(clearedAt) = {i \in Tokens(DOMAIN log) : i > clearedAt}
    <3>1. \A i \in Tokens(DOMAIN log) : clearedAt < i <=> i > clearedAt
      OBVIOUS
    <3> QED BY <3>1 DEF LinesAfter
  <2> QED BY <2>1, LedgerFitsStore DEF CountersCountedOnce
<1> QED BY <1>1, UsageInvariant, PTL

(* No step of a running program changes a bucket of a past day it keeps: it *)
(* only puts today's (official_runtime.rs:505-532,                          *)
(* local_usage_ledger.rs:457-462).                                          *)
THEOREM PastStaysFrozen == Spec => PastDaysFrozen
<1> DEFINE Frozen == running /\ running' =>
                       \A d \in DOMAIN ledger.days \cap DOMAIN ledger'.days :
                         d < today => ledger'.days[d] = ledger.days[d]
<1>1. UsageInv /\ [Next]_vars => [Frozen]_vars
  <2> SUFFICES ASSUME UsageInv, Next, running, running',
                      NEW d \in DOMAIN ledger.days \cap DOMAIN ledger'.days, d < today
               PROVE  ledger'.days[d] = ledger.days[d]
    OBVIOUS
  <2>1. EventsInv /\ ledger \in Ledgers /\ today \in Days /\ d # today
    <3>1. EventsInv /\ ledger \in Ledgers /\ today \in Days
      BY DEF UsageInv, EventsInv, Types, TypeOK
    <3>2. today \in Nat
      BY <3>1, DayFacts
    <3> QED BY <3>1, <3>2
  <2>2. ASSUME NEW x, Polled(ledger.days, ledger'.days, x)
        PROVE  ledger'.days[d] = ledger.days[d]
    BY <2>1, <2>2 DEF Polled
  <2>3. ASSUME NEW b \in Buckets, ledger'.days = PruneDays(PutDay(ledger.days, today, b), Retention)
        PROVE  ledger'.days[d] = ledger.days[d]
    BY <2>1, <2>2, <2>3, PolledPut
  <2>4. CASE ledger'.days = ledger.days
    BY <2>4
  <2>5. CASE CodexWrites \/ Midnight
    BY <2>4, <2>5 DEF CodexWrites, Midnight
  <2>6. CASE Start \/ Stop
    BY <2>6 DEF Start, Stop
  <2>7. CASE Flush
    BY <2>1, <2>4, <2>7 DEF Flush, Ledgers
  <2>8. CASE ClearHistory
    <3>1. DOMAIN ledger'.days = {}
      <4>1. ClearLedger(ledger).days = NoDays
        BY DEF ClearLedger
      <4>2. ledger' = [ClearLedger(ledger) EXCEPT !.dirty = FALSE] \/ ledger' = ClearLedger(ledger)
        BY <2>8 DEF ClearHistory
      <4>3. ledger'.days = NoDays
        BY <4>2 DEF ClearLedger
      <4> QED BY <4>3, EmptyFacts
    <3> QED BY <3>1
  <2>9. CASE FallbackPoll
    <3>1. PICK n, c, L : n = Increase(ledger, ThreadCounters) /\ c = ThreadCounters /\ L = ledger'
      OBVIOUS
    <3>2. n \in Nat /\ DOMAIN c \subseteq Sessions /\ \A t \in DOMAIN c : c[t] \in Nat
      BY <2>1, <3>1, IncreaseIsLines, CounterFacts DEF EventsInv
    <3>3. L = Observe(ledger, today, c, Retention) /\ n = Increase(ledger, c)
      BY <2>9, <3>1 DEF FallbackPoll
    <3>4. L.days = ledger.days \/ \E b \in Buckets : L.days = PruneDays(PutDay(ledger.days, today, b), Retention)
      BY <2>1, <3>2, <3>3, ObserveFacts
    <3> QED BY <2>3, <2>4, <3>1, <3>4
  <2>10. CASE TokenPollNewDay
    <3>1. PICK events :
            \/ ledger' = ledger
            \/ ledger' = ReplaceSessionDay(ledger, today, Cardinality(events), Retention)
               /\ Cardinality(events) \in Nat
      <4>1. PICK readable \in SUBSET (Today \cup ({Newest(Files)} \ {NoFile})) :
              LET events == Scanned(readable) IN
              IF events = {} THEN ledger' = ledger
              ELSE ledger' = ReplaceSessionDay(ledger, today, Cardinality(events), Retention)
        BY <2>10 DEF TokenPollNewDay
      <4>2. PICK events : events = Scanned(readable)
        OBVIOUS
      <4>3. PICK f \in [DOMAIN log -> Named] : events \subseteq {<<i, f[i]>> : i \in TokensOf(today)}
        BY <2>1, <4>2, ScannedFacts DEF EventsInv
      <4>4. Cardinality(events) \in Nat
        BY <2>1, <4>3, EventFacts DEF EventsInv
      <4> QED BY <4>1, <4>2, <4>4
    <3>2. PICK n, L : n = Cardinality(events) /\ L = ledger'
      OBVIOUS
    <3>3. CASE L = ReplaceSessionDay(ledger, today, n, Retention) /\ n \in Nat
      <4>1. L.days = ledger.days \/ \E b \in Buckets : L.days = PruneDays(PutDay(ledger.days, today, b), Retention)
        BY <2>1, <3>3, ReplaceFacts
      <4> QED BY <2>3, <2>4, <3>2, <4>1
    <3> QED BY <2>4, <3>1, <3>2, <3>3
  <2>11. CASE TokenPoll
    <3>1. PICK events : /\ ledger' = ObserveSessionEvents(ledger, today, Cardinality(events), Retention)
                        /\ Cardinality(events) \in Nat
      <4>1. PICK file \in {tailFile, Discovered} \ {NoFile}, readable \in BOOLEAN :
              LET same   == file = tailFile
                  lines  == IF ~readable THEN {} ELSE IF same THEN TailOf(file) ELSE Lines(file)
                  model  == IF same THEN currentModel ELSE NoModel
                  events == Fingerprints(lines, model) \ seen IN
              ledger' = ObserveSessionEvents(ledger, today, Cardinality(events), Retention)
        BY <2>11 DEF TokenPoll
      <4>2. PICK lines : lines = IF ~readable THEN {} ELSE IF file = tailFile THEN TailOf(file) ELSE Lines(file)
        OBVIOUS
      <4>3. PICK model : model = IF file = tailFile THEN currentModel ELSE NoModel
        OBVIOUS
      <4>4. PICK events : events = Fingerprints(lines, model) \ seen
        OBVIOUS
      <4>5. lines \in SUBSET DOMAIN log /\ model \in Named
        BY <2>1, <4>2, <4>3 DEF Lines, TailOf, EventsInv, TypeOK, Named
      <4>6. PICK f \in [DOMAIN log -> Named] :
              Fingerprints(lines, model) \subseteq {<<i, f[i]>> : i \in TokensOf(today)}
        BY <2>1, <4>5, FingerprintFacts DEF EventsInv
      <4>7. Cardinality(events) \in Nat
        <5>1. events \subseteq {<<i, f[i]>> : i \in TokensOf(today)}
          BY <4>4, <4>6
        <5> QED BY <2>1, <5>1, EventFacts DEF EventsInv
      <4> QED BY <4>1, <4>2, <4>3, <4>4, <4>7
    <3>2. PICK n, L : n = Cardinality(events) /\ L = ledger'
      OBVIOUS
    <3>3. L = ObserveSessionEvents(ledger, today, n, Retention) /\ n \in Nat
      BY <3>1, <3>2
    <3>4. L.days = ledger.days \/ \E b \in Buckets : L.days = PruneDays(PutDay(ledger.days, today, b), Retention)
      BY <2>1, <3>3, SessionEventsFacts
    <3> QED BY <2>3, <2>4, <3>2, <3>4
  <2> QED BY <2>5, <2>6, <2>7, <2>8, <2>9, <2>10, <2>11 DEF Next
<1>2. [][Frozen]_vars => PastDaysFrozen
  BY PTL DEF PastDaysFrozen
<1> QED BY <1>1, <1>2, UsageInvariant, PTL DEF Spec
=============================================================================
