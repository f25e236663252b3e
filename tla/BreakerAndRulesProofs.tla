------------------------ MODULE BreakerAndRulesProofs ------------------------
(***************************************************************************)
(* Two small components with little state: the breaker's bookkeeping, for  *)
(* every threshold, cooldown and number of concurrent requests, and the    *)
(* rule engine, for any rules, requests and orders.                        *)
(***************************************************************************)
EXTENDS UpstreamBreaker, RuleEngine, FiniteSetTheorems, SequenceTheorems, TLAPS

\* What a breaker record satisfies between critical sections.
Sound(x) == /\ x \in BreakerType
            /\ x.state = "closed" => x.consecutiveFails < failThreshold
            /\ x.recovers <= x.trips
            /\ x.state # "closed" => x.recovers < x.trips

\* The inductive invariant; the two counters' invariants need each other's
\* types, and a success in the half-open state needs that its trip is counted.
IInv == TypeOK /\ Sound(b)

\* The fields trip() writes, for any values of their types.
LEMMA TripType ==
  ASSUME NEW x \in BreakerType, NEW n \in Nat, NEW i \in Int
  PROVE  [x EXCEPT !.state = "open", !.trips = n, !.sinceOpen = i] \in BreakerType
BY DEF BreakerType

\* Every critical section keeps a breaker sound, from any sound breaker.
LEMMA SectionsAreSound ==
  ASSUME NEW x \in BreakerType, Sound(x)
  PROVE  Sound(HalfOpen(x)) /\ Sound(Succeeded(x)) /\ Sound(Failed(x))
<1>1. Sound(HalfOpen(x))  BY DEF Sound, HalfOpen, BreakerType
<1>2. Sound(Succeeded(x))
  <2> DEFINE s == Succeeded(x)
  <2>1. s.consecutiveFails = 0 /\ s.trips = x.trips /\ s \in BreakerType
    <3>1. CASE x.state = "half_open"
      <4>1. x.recovers + 1 \in Nat  BY DEF BreakerType
      <4> QED  BY <3>1, <4>1 DEF Succeeded, BreakerType
    <3>2. CASE x.state # "half_open"  BY <3>2 DEF Succeeded, BreakerType
    <3> QED  BY <3>1, <3>2
  <2>2. IF x.state = "half_open" THEN s.state = "closed" /\ s.recovers = x.recovers + 1
                                 ELSE s.state = x.state /\ s.recovers = x.recovers
    BY DEF Succeeded, BreakerType
  <2>3. x.trips \in Nat /\ x.recovers \in Nat  BY DEF BreakerType
  <2>4. Sound(s)
    <3> HIDE DEF s
    <3> QED  BY <2>1, <2>2, <2>3, BreakerConstants DEF Sound
  <2> QED  BY <2>4
<1>3. ASSUME NEW y \in BreakerType, y.recovers <= y.trips PROVE Sound(Trip(y))
  <2>1. /\ Trip(y).state = "open" /\ Trip(y).trips = y.trips + 1
        /\ Trip(y).recovers = y.recovers /\ Trip(y) \in BreakerType
    <3>1. y.trips + 1 \in Nat /\ 0 \in Int  BY DEF BreakerType
    <3>2. Trip(y) \in BreakerType  BY <3>1, TripType DEF Trip
    <3> QED  BY <3>2 DEF Trip, BreakerType
  <2>2. y.trips \in Nat /\ y.recovers \in Nat  BY DEF BreakerType
  <2> QED  BY <1>3, <2>1, <2>2 DEF Sound
<1>4. Sound(Failed(x))
  <2> DEFINE r == [x EXCEPT !.consecutiveFails = @ + 1]
  <2>1. CASE x.state = "half_open"
    BY <1>3, <2>1 DEF Sound, Failed, TripsOn
  <2>2. CASE x.state # "half_open"
    <3>1. r \in BreakerType /\ r.recovers = x.recovers /\ r.trips = x.trips
           /\ r.state = x.state /\ r.consecutiveFails = x.consecutiveFails + 1
      BY DEF BreakerType
    <3>2. Failed(x) = IF TripsOn(x) THEN Trip(r) ELSE r  BY <2>2 DEF Failed
    <3> HIDE DEF r
    <3>3. CASE TripsOn(x)  BY <1>3, <3>1, <3>2, <3>3 DEF Sound
    <3>4. CASE ~TripsOn(x)
      BY <3>1, <3>2, <3>4, BreakerConstants DEF Sound, TripsOn, BreakerType
    <3> QED  BY <3>3, <3>4
  <2> QED  BY <2>1, <2>2
<1> QED  BY <1>1, <1>2, <1>4

\* The initial state satisfies the inductive invariant.
LEMMA InitInv == Init => IInv
<1> SUFFICES ASSUME Init PROVE IInv  OBVIOUS
<1>1. Sound(b)  BY BreakerConstants DEF Init, NewBreaker, Sound, BreakerType
<1>2. up \in BOOLEAN  BY DEF Init
<1>3. steps \in 0..MaxSteps /\ pc \in [Requests -> {"idle", "open", "sent", "probe"}]
  BY UpstreamConstants DEF Init
<1> QED  BY <1>1, <1>2, <1>3 DEF IInv, TypeOK, Sound

\* A step of client.Query keeps the inductive invariant.
LEMMA RequestInv ==
  ASSUME IInv, NEW r \in Requests, Request(r) PROVE IInv'
<1>1. Sound(b) /\ b \in BreakerType /\ TypeOK  BY DEF IInv, TypeOK
<1>2. Sound(b)'
  BY <1>1, SectionsAreSound
  DEF Request, AllowLoad, AllowLocked, RecordSuccess, RecordFailure, Sound
<1>3. pc' \in [Requests -> {"idle", "open", "sent", "probe"}]
  BY <1>1 DEF TypeOK, Request, AllowLoad, AllowLocked, RecordSuccess, RecordFailure, Admitted
<1>4. up' = up /\ steps' = steps
  BY DEF Request, AllowLoad, AllowLocked, RecordSuccess, RecordFailure
<1> QED  BY <1>1, <1>2, <1>3, <1>4 DEF IInv, TypeOK, Sound

\* Every step keeps the inductive invariant.
LEMMA NextInv == IInv /\ [Next]_vars => IInv'
<1> SUFFICES ASSUME IInv, [Next]_vars PROVE IInv'  OBVIOUS
<1>1. CASE Toggle
  <2>1. up' \in BOOLEAN  BY <1>1 DEF Toggle
  <2> QED  BY <1>1, <2>1 DEF Toggle, IInv, TypeOK, Sound
<1>2. CASE Tick  BY <1>2, BreakerConstants DEF Tick, IInv, TypeOK, Sound, BreakerType
<1>3. CASE StepBack
  BY <1>3, BreakerConstants, UpstreamConstants DEF StepBack, IInv, TypeOK, Sound, BreakerType
<1>4. CASE UNCHANGED vars  BY <1>4 DEF vars, IInv, TypeOK, Sound
<1> QED  BY <1>1, <1>2, <1>3, <1>4, RequestInv DEF Next

\* The breaker is sound in every reachable state.
THEOREM BreakerInvariant == Spec => []IInv
<1>1. Init => IInv  BY InitInv
<1>2. IInv /\ [Next]_vars => IInv'  BY NextInv
<1> QED  BY <1>1, <1>2, PTL DEF Spec

\* breaker.go:117, :137: after a recovery it takes a full run of failures to trip
\* again, whatever the requests that were in flight report meanwhile.
THEOREM BreakerClosedBelowThreshold == Spec => []ClosedBelowThreshold
<1>1. IInv => ClosedBelowThreshold  BY DEF IInv, Sound, ClosedBelowThreshold
<1> QED  BY <1>1, BreakerInvariant, PTL

\* breaker.go:115, :146: the two counters agree with the state.
THEOREM BreakerTripAccounting == Spec => []TripAccounting
<1>1. IInv => TripAccounting  BY DEF IInv, Sound, TripAccounting
<1> QED  BY <1>1, BreakerInvariant, PTL

\* breaker.go:63, :90: no late result ends or extends the open state.
THEOREM BreakerOpenUntilCooled == Spec => OpenUntilCooled
<1> DEFINE A == b.state = "open" =>
                  \/ b'.state = "open" /\ b'.trips = b.trips
                  \/ b'.state = "half_open" /\ b.sinceOpen >= cooldown
<1>1. IInv /\ [Next]_vars => [A]_vars
  <2> SUFFICES ASSUME IInv, [Next]_vars, b.state = "open", vars' # vars PROVE A  OBVIOUS
  <2> USE DEF BreakerType
  <2>1. b \in BreakerType  BY DEF IInv, TypeOK
  <2>2. ASSUME NEW r \in Requests, Request(r) PROVE A
    <3>1. CASE AllowLoad(r)  BY <3>1 DEF AllowLoad
    <3>2. CASE AllowLocked(r)  BY <2>1, <3>2 DEF AllowLocked, HalfOpen
    <3>3. CASE RecordSuccess(r)  BY <2>1, <3>3 DEF RecordSuccess, Succeeded
    <3>4. CASE RecordFailure(r)  BY <2>1, <3>4 DEF RecordFailure, Failed, TripsOn
    <3> QED  BY <2>2, <3>1, <3>2, <3>3, <3>4 DEF Request
  <2>3. CASE Toggle  BY <2>3 DEF Toggle
  <2>4. CASE Tick  BY <2>1, <2>4 DEF Tick
  <2>5. CASE StepBack  BY <2>1, <2>5 DEF StepBack
  <2> QED  BY <2>2, <2>3, <2>4, <2>5 DEF Next
<1> QED  BY <1>1, BreakerInvariant, PTL DEF Spec, OpenUntilCooled
-----------------------------------------------------------------------------
(***************************************************************************)
(* The rule engine.                                                        *)
(***************************************************************************)
\* A nonempty set of numbers has a smallest one, and Min is it.
LEMMA LeastOne ==
  ASSUME NEW S, S \subseteq Nat, S # {}
  PROVE  \E k \in S : \A j \in S : k <= j
<1> DEFINE R == {ss \in Nat \X Nat : ss[1] < ss[2]}
<1>1. IsWellFoundedOn(R, Nat)  BY NatLessThanWellFounded DEF OpToRel
<1> HIDE DEF R
<1>2. PICK k \in S : \A j \in S : ~(<<j, k>> \in R)  BY <1>1, WFMin
<1>3. ASSUME NEW j \in S PROVE k <= j
  <2>1. k \in Nat /\ j \in Nat /\ <<j, k>> \in Nat \X Nat  OBVIOUS
  <2>2. ~(j < k)  BY <1>2, <2>1 DEF R
  <2> QED  BY <2>1, <2>2
<1> QED  BY <1>3

LEMMA MinIs ==
  ASSUME NEW S, S \subseteq Nat, S # {}
  PROVE  Min(S) \in S
BY LeastOne DEF Min

\* Likewise, a nonempty set of indices has a largest one, and Max is it.
LEMMA MaxIs ==
  ASSUME NEW n \in Nat, NEW s \in SUBSET (1..n), s # {}
  PROVE  Max(s) \in s /\ \A j \in s : Max(s) >= j
<1> DEFINE T == {n - i : i \in s}
<1>1. T \subseteq Nat /\ T # {}
  <2>1. \A i \in s : i \in 1..n /\ n - i \in Nat  OBVIOUS
  <2> QED  BY <2>1
<1>2. PICK k \in T : \A j \in T : k <= j  
  <2> HIDE DEF T
  <2> QED BY <1>1, LeastOne
<1>3. PICK i \in s : k = n - i OBVIOUS
<1>4. ASSUME NEW j \in s PROVE i >= j
  <2>1. n - j \in T /\ i \in 1..n /\ j \in 1..n  OBVIOUS
  <2>2. n - i <= n - j  BY <1>2, <1>3, <2>1
  <2> QED  BY <2>1, <2>2
<1> QED  BY <1>4 DEF Max

\* Folds.  The function that MapThenFoldSet defines by recursion exists: the least size of a set for
\* which it did not would have a predecessor.
Folding(S, V, pick, G) == /\ \A s \in SUBSET S : s # {} => pick[s] \in s
                          /\ \A x \in S, v \in V : G[x][v] \in V
Folded(it, S, V, base, pick, G) ==
  /\ it \in [SUBSET S -> V]
  /\ \A s \in SUBSET S : it[s] = IF s = {} THEN base ELSE G[pick[s]][it[s \ {pick[s]}]]

LEMMA FoldExists ==
  ASSUME NEW S, IsFiniteSet(S), NEW V, NEW base \in V, NEW pick, NEW G, Folding(S, V, pick, G)
  PROVE  \E it : Folded(it, S, V, base, pick, G)
<1> DEFINE Sub(n) == {s \in SUBSET S : Cardinality(s) <= n}
           Step(it, s) == IF s = {} THEN base ELSE G[pick[s]][it[s \ {pick[s]}]]
           Good(n, it) == it \in [Sub(n) -> V] /\ \A s \in Sub(n) : it[s] = Step(it, s)
           Bad == {n \in Nat : ~\E it : Good(n, it)}
<1>1. \A s \in SUBSET S : IsFiniteSet(s) /\ Cardinality(s) \in Nat /\ (Cardinality(s) = 0 <=> s = {})
  BY FS_Subset, FS_CardinalityType, FS_EmptySet
<1>2. \A s \in SUBSET S : s # {} => s \ {pick[s]} \in SUBSET S /\ Cardinality(s \ {pick[s]}) = Cardinality(s) - 1
  BY <1>1, FS_RemoveElement DEF Folding
<1>3. ASSUME Bad # {} PROVE FALSE
  <2>1. Bad \subseteq Nat  OBVIOUS
  <2>2. PICK k \in Bad : \A j \in Bad : k <= j
    <3> HIDE DEF Bad
    <3> QED  BY <1>3, <2>1, LeastOne
  <2>3. CASE k = 0
    <3> DEFINE it == [s \in Sub(0) |-> base]
    <3>1. \A s \in Sub(0) : s = {}  BY <1>1
    <3>2. Good(0, it)  BY <3>1
    <3> QED  BY <2>3, <3>2
  <2>4. CASE k # 0
    <3>1. k \in Nat /\ k - 1 \in Nat /\ k - 1 < k  BY <2>4
    <3>2. k - 1 \notin Bad
      <4> HIDE DEF Bad
      <4> QED  BY <2>2, <3>1
    <3>3. PICK h : Good(k - 1, h)  BY <3>1, <3>2
    <3> DEFINE it == [s \in Sub(k) |-> Step(h, s)]
    <3>4. \A s \in Sub(k) : s # {} => s \ {pick[s]} \in Sub(k - 1)  BY <1>1, <1>2, <3>1
    <3>5. Sub(k - 1) \subseteq Sub(k)  BY <1>1, <3>1
    <3> HIDE DEF Sub
    <3>6. \A s \in Sub(k) : s # {} => pick[s] \in S /\ h[s \ {pick[s]}] \in V  BY <3>3, <3>4 DEF Sub, Folding
    <3>7. it \in [Sub(k) -> V]  BY <3>6 DEF Folding
    <3>8. \A t \in Sub(k - 1) : it[t] = h[t]  BY <3>3, <3>5
    <3>9. \A s \in Sub(k) : it[s] = Step(it, s)  BY <3>4, <3>8
    <3>10. Good(k, it)  BY <3>7, <3>9
    <3> QED  BY <3>10
  <2> QED  BY <2>3, <2>4
<1>4. Cardinality(S) \in Nat  BY <1>1
<1>5. PICK it : Good(Cardinality(S), it)  BY <1>3, <1>4
<1>6. Sub(Cardinality(S)) = SUBSET S  BY <1>1, FS_Subset
<1>7. Folded(it, S, V, base, pick, G)  BY <1>5, <1>6 DEF Folded
<1> QED  BY <1>7

\* Chosen as a table of what is chosen of the first i elements.
Put(S, t, x) == IF x \in S /\ ~Contains(t, x) THEN Append(t, x) ELSE t

LEMMA ChosenTable ==
  ASSUME NEW X, NEW seq \in Seq(X), NEW C
  PROVE  \E it : /\ it[0] = << >>
                 /\ \A i \in 1..Len(seq) : it[i] = Put(C, it[i - 1], seq[i])
                 /\ Chosen(seq, C) = it[Len(seq)]
<1> DEFINE S == DOMAIN seq
           V == Seq(X)
           Step(it, s) == IF s = {} THEN << >> ELSE Put(C, it[s \ {Max(s)}], seq[Max(s)])
           iter == CHOOSE it : it = [s \in SUBSET S |-> Step(it, s)]
<1>1. Chosen(seq, C) = iter[S]  BY DEF Chosen, Put, FoldLeft, MapThenFoldSet
<1>2. Len(seq) \in Nat /\ S = 1..Len(seq) /\ \A i \in S : seq[i] \in X  BY LenProperties, ElementOfSeq
<1>3. IsFiniteSet(S)  BY <1>2, FS_Interval
<1>4. \A s \in SUBSET S : s # {} => Max(s) \in s  BY <1>2, MaxIs
<1>5. \A i \in S, v \in V : Put(C, v, seq[i]) \in V  BY <1>2, AppendProperties DEF Put
<1>6. \E it : it = [s \in SUBSET S |-> Step(it, s)]
  <2> DEFINE pick == [s \in SUBSET S |-> Max(s)]
             G == [i \in S |-> [v \in V |-> Put(C, v, seq[i])]]
  <2>1. \A s \in SUBSET S : s # {} => pick[s] \in s  BY <1>4
  <2>2. \A i \in S, v \in V : G[i][v] \in V /\ G[i][v] = Put(C, v, seq[i])  BY <1>5
  <2>3. \A s \in SUBSET S : pick[s] = Max(s)  OBVIOUS
  <2>4. << >> \in V  BY EmptySeq
  <2> HIDE DEF pick, G, S, V
  <2>5. PICK it : Folded(it, S, V, << >>, pick, G)
    <3>1. Folding(S, V, pick, G)  BY <2>1, <2>2 DEF Folding
    <3> QED  BY <1>3, <2>4, <3>1, FoldExists
  <2>6. ASSUME NEW s \in SUBSET S PROVE it[s] = Step(it, s)
    <3>1. CASE s = {}  BY <2>5, <3>1 DEF Folded
    <3>2. CASE s # {}
      <4>1. Max(s) \in S /\ s \ {Max(s)} \in SUBSET S  BY <1>4, <3>2
      <4>2. it[s \ {Max(s)}] \in V  BY <2>5, <4>1 DEF Folded
      <4> QED  BY <2>2, <2>3, <2>5, <3>2, <4>1, <4>2 DEF Folded
    <3> QED  BY <3>1, <3>2
  <2> HIDE DEF Step
  <2>7. it = [s \in SUBSET S |-> Step(it, s)]  BY <2>5, <2>6 DEF Folded
  <2> QED  BY <2>7
<1>7. iter = [s \in SUBSET S |-> Step(iter, s)]
  <2> HIDE DEF Step, S
  <2> QED  BY <1>6
<1> HIDE DEF iter, S
<1>8. \A s \in SUBSET S : iter[s] = Step(iter, s)
  <2> HIDE DEF Step
  <2> QED  BY <1>7
<1> DEFINE it == [i \in 0..Len(seq) |-> iter[1..i]]
<1>9. it[0] = << >>
  <2>1. 1..0 = {} /\ {} \in SUBSET S /\ 0 \in 0..Len(seq)  BY <1>2
  <2> QED  BY <1>8, <2>1
<1>10. ASSUME NEW i \in 1..Len(seq) PROVE it[i] = Put(C, it[i - 1], seq[i])
  <2>1. 1..i \in SUBSET S /\ i \in 1..i /\ i - 1 \in 0..Len(seq) /\ i \in 0..Len(seq)  BY <1>2
  <2>2. Max(1..i) \in 1..i /\ \A j \in 1..i : Max(1..i) >= j  BY <1>2, <2>1, MaxIs
  <2>3. Max(1..i) = i  BY <2>1, <2>2
  <2>4. (1..i) \ {i} = 1..(i - 1)  OBVIOUS
  <2>5. iter[1..i] = Put(C, iter[1..(i - 1)], seq[i])
    <3>1. iter[1..i] = Step(iter, 1..i)  BY <1>8, <2>1
    <3> QED  BY <2>1, <2>3, <2>4, <3>1
  <2> QED  BY <2>1, <2>5
<1>11. it[Len(seq)] = iter[S]  BY <1>2
<1> HIDE DEF it
<1> QED  BY <1>1, <1>9, <1>10, <1>11

\* No element twice, and which elements.
Once(s) == \A i, j \in 1..Len(s) : s[i] = s[j] => i = j
Has(s, T) == /\ \A i \in 1..Len(s) : s[i] \in T
             /\ \A x \in T : \E i \in 1..Len(s) : s[i] = x

LEMMA PutIs ==
  ASSUME NEW X, NEW s \in Seq(X), NEW T, Once(s), Has(s, T), NEW C, NEW x \in X
  PROVE  /\ Put(C, s, x) \in Seq(X) /\ Once(Put(C, s, x))
         /\ Has(Put(C, s, x), IF x \in C THEN T \cup {x} ELSE T)
<1>1. CASE ~(x \in C /\ ~Contains(s, x))
  <2>1. Put(C, s, x) = s  BY <1>1 DEF Put
  <2>2. x \in C => x \in T  BY <1>1 DEF Contains, Has
  <2>3. x \in C => T \cup {x} = T  BY <2>2
  <2> QED  BY <2>1, <2>3
<1>2. CASE x \in C /\ ~Contains(s, x)
  <2> DEFINE z == Append(s, x)
             n == Len(s)
  <2>1. z \in Seq(X) /\ Len(z) = n + 1 /\ (\A i \in 1..n : z[i] = s[i]) /\ z[n + 1] = x /\ n \in Nat
    BY AppendProperties, LenProperties
  <2>2. \A i \in 1..n : s[i] # x  BY <1>2 DEF Contains
  <2>3. Put(C, s, x) = z  BY <1>2 DEF Put
  <2> HIDE DEF z, n
  <2>4. 1..(n + 1) = (1..n) \cup {n + 1}  BY <2>1
  <2>5. Once(z)
    <3> SUFFICES ASSUME NEW i \in 1..(n + 1), NEW j \in 1..(n + 1), z[i] = z[j] PROVE i = j  BY <2>1 DEF Once
    <3>1. CASE i \in 1..n /\ j \in 1..n  BY <2>1, <3>1 DEF Once, n
    <3>2. CASE i = n + 1 /\ j \in 1..n  BY <2>1, <2>2, <3>2
    <3>3. CASE j = n + 1 /\ i \in 1..n  BY <2>1, <2>2, <3>3
    <3> QED  BY <2>4, <3>1, <3>2, <3>3
  <2>6. Has(z, T \cup {x})
    <3>1. \A i \in 1..(n + 1) : z[i] \in T \cup {x}  BY <2>1, <2>4 DEF Has, n
    <3>2. \A y \in T \cup {x} : \E i \in 1..(n + 1) : z[i] = y
      <4> SUFFICES ASSUME NEW y \in T \cup {x} PROVE \E i \in 1..(n + 1) : z[i] = y  OBVIOUS
      <4>1. CASE y = x  BY <2>1, <2>4, <4>1
      <4>2. CASE y \in T
        <5>1. PICK i \in 1..n : s[i] = y  BY <4>2 DEF Has, n
        <5> QED  BY <2>1, <2>4, <5>1
      <4> QED  BY <4>1, <4>2
    <3> QED  BY <2>1, <3>1, <3>2 DEF Has
  <2> QED  BY <1>2, <2>1, <2>3, <2>5, <2>6
<1> QED  BY <1>1, <1>2

\* What is chosen of a sequence is exactly its elements in the set, each once.
LEMMA ChosenIs ==
  ASSUME NEW X, NEW seq \in Seq(X), NEW C
  PROVE  /\ Chosen(seq, C) \in Seq(X) /\ Once(Chosen(seq, C))
         /\ Has(Chosen(seq, C), ToSet(seq) \cap C)
<1> DEFINE First(i) == {seq[j] : j \in 1..i} \cap C
           P(i, s) == s \in Seq(X) /\ Once(s) /\ Has(s, First(i))
<1>1. PICK it : /\ it[0] = << >>
                /\ \A i \in 1..Len(seq) : it[i] = Put(C, it[i - 1], seq[i])
                /\ Chosen(seq, C) = it[Len(seq)]
  BY ChosenTable
<1>2. Len(seq) \in Nat /\ \A i \in 1..Len(seq) : seq[i] \in X  BY LenProperties, ElementOfSeq
<1> DEFINE Bad == {i \in 0..Len(seq) : ~P(i, it[i])}
<1>3. ASSUME Bad # {} PROVE FALSE
  <2>1. Bad \subseteq Nat  BY <1>2
  <2>2. PICK k \in Bad : \A j \in Bad : k <= j
    <3> HIDE DEF Bad
    <3> QED  BY <1>3, <2>1, LeastOne
  <2>3. k \in 0..Len(seq) /\ ~P(k, it[k])  OBVIOUS
  <2>4. CASE k = 0
    <3>1. First(0) = {}  OBVIOUS
    <3>2. << >> \in Seq(X) /\ Len(<< >>) = 0  BY EmptySeq
    <3>3. Once(<< >>) /\ Has(<< >>, {})  BY <3>2 DEF Once, Has
    <3> QED  BY <1>1, <2>3, <2>4, <3>1, <3>2, <3>3
  <2>5. CASE k # 0
    <3>1. k \in 1..Len(seq) /\ k - 1 \in 0..Len(seq) /\ k - 1 < k  BY <1>2, <2>3, <2>5
    <3>2. k - 1 \notin Bad
      <4> HIDE DEF Bad
      <4> QED  BY <2>2, <3>1
    <3>3. P(k - 1, it[k - 1])  BY <3>1, <3>2
    <3>4. First(k) = IF seq[k] \in C THEN First(k - 1) \cup {seq[k]} ELSE First(k - 1)
      <4>1. 1..k = (1..(k - 1)) \cup {k}  BY <3>1
      <4> QED  BY <4>1
    <3> HIDE DEF First
    <3>5. P(k, it[k])
      <4> DEFINE s == it[k - 1]
      <4>1. s \in Seq(X) /\ Once(s) /\ Has(s, First(k - 1)) /\ seq[k] \in X  BY <1>2, <3>1, <3>3
      <4>2. it[k] = Put(C, s, seq[k])  BY <1>1, <3>1
      <4> HIDE DEF s
      <4>3. /\ Put(C, s, seq[k]) \in Seq(X) /\ Once(Put(C, s, seq[k]))
            /\ Has(Put(C, s, seq[k]), IF seq[k] \in C THEN First(k - 1) \cup {seq[k]} ELSE First(k - 1))
        BY <4>1, PutIs
      <4> QED  BY <3>4, <4>2, <4>3
    <3> QED  BY <2>3, <3>5
  <2> QED  BY <2>4, <2>5
<1>4. P(Len(seq), it[Len(seq)])
  <2>1. Len(seq) \in 0..Len(seq)  BY <1>2
  <2> QED  BY <1>3, <2>1
<1>5. ToSet(seq) \cap C = First(Len(seq))  BY LenProperties DEF ToSet
<1> QED  BY <1>1, <1>4, <1>5
-----------------------------------------------------------------------------
\* A POST /rules keeps a pattern that compiles once it is about to append it, and has
\* an ID that has been given out or is the next one.
Serving(x, next) ==
  \/ x = Idle
  \/ x.at \in {"compare", "build"} /\ x.want \in Wanted
  \/ x.at = "append" /\ x.want \in Wanted /\ x.want.domain \notin BadPatterns /\ x.id \in 1..next

\* No rule is in the list twice, and what a rule was compiled from is its domain, unless that is malformed.
EngineInv ==
  /\ object \in Seq(Rule) /\ Len(object) <= MaxRules /\ nextID = Len(object) + 1
  /\ rules \in Seq(1..Len(object)) /\ Once(rules)
  /\ DOMAIN request = Posts /\ request = [c \in Posts |-> request[c]]
  /\ \A c \in Posts : Serving(request[c], nextID)
  /\ \A r \in 1..Len(object) : object[r].domain \notin BadPatterns => object[r].compiled = object[r].domain

\* What the searches of the list find.
LEMMA FindIs ==
  ASSUME EngineInv, NEW id, Find(id) # 0
  PROVE  /\ Find(id) \in 1..Len(rules) /\ rules[Find(id)] \in 1..Len(object)
         /\ object[rules[Find(id)]].id = id
<1> DEFINE I == {i \in 1..Len(rules) : object[rules[i]].id = id}
<1>1. Find(id) = IF I # {} THEN Min(I) ELSE 0  BY DEF Find, SelectInSeq
<1>2. I \subseteq Nat  OBVIOUS
<1> HIDE DEF I
<1>3. Find(id) \in I  BY <1>1, <1>2, MinIs
<1> QED  BY <1>3, ElementOfSeq DEF I, EngineInv

LEMMA MatchIs ==
  ASSUME EngineInv, NEW name, Match(name) # 0
  PROVE  rules[Match(name)] \in 1..Len(object) /\ RuleMatch(object[rules[Match(name)]], name)
<1> DEFINE I == {i \in 1..Len(rules) : object[rules[i]].enabled /\ RuleMatch(object[rules[i]], name)}
<1>1. Match(name) = IF I # {} THEN Min(I) ELSE 0  BY DEF Match, SelectInSeq
<1>2. I \subseteq Nat  OBVIOUS
<1> HIDE DEF I
<1>3. Match(name) \in I  BY <1>1, <1>2, MinIs
<1> QED  BY <1>3, ElementOfSeq DEF I, EngineInv

LEMMA RuleMapIs ==
  ASSUME EngineInv, NEW id \in Ids(rules)
  PROVE  RuleMap(id) \in ToSet(rules) /\ object[RuleMap(id)].id = id
<1> DEFINE I == {i \in 1..Len(rules) : object[rules[i]].id = id}
<1>1. rules \in Seq(1..Len(object)) /\ Len(rules) \in Nat  BY LenProperties DEF EngineInv
<1>2. ToSet(rules) = {rules[i] : i \in 1..Len(rules)}  BY <1>1, LenProperties DEF ToSet
<1>3. I # {} /\ I \in SUBSET (1..Len(rules))  BY <1>2 DEF Ids
<1>4. RuleMap(id) = rules[Max(I)]  BY <1>3 DEF RuleMap, SelectLastInSeq
<1> HIDE DEF I
<1>5. Max(I) \in I  BY <1>1, <1>3, MaxIs
<1> QED  BY <1>2, <1>4, <1>5 DEF I

\* Two sequences without repetition and with nothing in common, one after the other.
LEMMA JoinedOnce ==
  ASSUME NEW X, NEW s \in Seq(X), NEW t \in Seq(X), Once(s), Once(t),
         \A i \in 1..Len(s), j \in 1..Len(t) : s[i] # t[j]
  PROVE  /\ s \o t \in Seq(X) /\ Once(s \o t)
         /\ \A i \in 1..Len(s) : \E k \in 1..Len(s \o t) : (s \o t)[k] = s[i]
         /\ \A j \in 1..Len(t) : \E k \in 1..Len(s \o t) : (s \o t)[k] = t[j]
<1> DEFINE z == s \o t
           m == Len(s)
           n == Len(t)
<1>1. /\ z \in Seq(X) /\ Len(z) = m + n /\ m \in Nat /\ n \in Nat
      /\ \A k \in 1..(m + n) : z[k] = IF k <= m THEN s[k] ELSE t[k - m]
  BY ConcatProperties, LenProperties
<1> HIDE DEF z
<1>2. ASSUME NEW k \in 1..(m + n), NEW l \in 1..(m + n), z[k] = z[l] PROVE k = l
  <2>1. CASE k <= m /\ l <= m
    <3>1. k \in 1..m /\ l \in 1..m /\ s[k] = s[l]  BY <1>1, <1>2, <2>1
    <3> QED  BY <3>1 DEF Once
  <2>2. CASE k <= m /\ ~(l <= m)
    <3>1. k \in 1..m /\ l - m \in 1..n /\ s[k] = t[l - m]  BY <1>1, <1>2, <2>2
    <3> QED  BY <3>1
  <2>3. CASE ~(k <= m) /\ l <= m
    <3>1. l \in 1..m /\ k - m \in 1..n /\ s[l] = t[k - m]  BY <1>1, <1>2, <2>3
    <3> QED  BY <3>1
  <2>4. CASE ~(k <= m) /\ ~(l <= m)
    <3>1. k - m \in 1..n /\ l - m \in 1..n /\ t[k - m] = t[l - m]  BY <1>1, <1>2, <2>4
    <3>2. k - m = l - m  BY <3>1 DEF Once
    <3> QED  BY <1>1, <3>2
  <2> QED  BY <2>1, <2>2, <2>3, <2>4
<1>3. Once(z)  BY <1>1, <1>2 DEF Once
<1>4. \A i \in 1..m : i \in 1..(m + n) /\ z[i] = s[i]  BY <1>1
<1>5. \A j \in 1..n : m + j \in 1..(m + n) /\ z[m + j] = t[j]
  <2> SUFFICES ASSUME NEW j \in 1..n PROVE m + j \in 1..(m + n) /\ z[m + j] = t[j]  OBVIOUS
  <2>1. m + j \in 1..(m + n) /\ ~(m + j <= m) /\ (m + j) - m = j  BY <1>1
  <2> QED  BY <1>1, <2>1
<1>6. /\ z \in Seq(X) /\ Once(z)
      /\ \A i \in 1..m : \E k \in 1..Len(z) : z[k] = s[i]
      /\ \A j \in 1..n : \E k \in 1..Len(z) : z[k] = t[j]
  BY <1>1, <1>3, <1>4, <1>5
<1> QED  BY <1>6 DEF z

\* A reordering keeps every rule that shares its ID with no other, and lists none twice.
LEMMA ReorderedIs ==
  ASSUME EngineInv, NEW ids \in Seq(Objects)
  PROVE  /\ Reordered(ids) \in Seq(1..Len(object)) /\ Once(Reordered(ids))
         /\ ToSet(rules) \ Ambiguous \subseteq ToSet(Reordered(ids))
<1> DEFINE X == 1..Len(object)
           known == Chosen(ids, Ids(rules))
           N == Len(known)
           K == ToSet(known)
           C == {r \in ToSet(rules) : object[r].id \notin K}
           rest == Chosen(rules, C)
           listed == Listed(known)
           z == Reordered(ids)
<1>1. rules \in Seq(X) /\ Len(rules) \in Nat  BY LenProperties DEF EngineInv
<1>2. ToSet(rules) \subseteq X  BY <1>1, LenProperties, ElementOfSeq DEF ToSet
<1>3. known \in Seq(Objects) /\ Once(known) /\ Has(known, ToSet(ids) \cap Ids(rules))  BY ChosenIs
<1>4. N \in Nat /\ K = {known[i] : i \in 1..N}  BY <1>3, LenProperties DEF ToSet
<1>5. \A i \in 1..N : known[i] \in Ids(rules) /\ known[i] \in K  BY <1>3, <1>4 DEF Has
<1>6. rest \in Seq(X) /\ Once(rest) /\ Has(rest, ToSet(rules) \cap C)  BY <1>1, ChosenIs
<1>7. z = listed \o rest  BY DEF Reordered
<1>8. listed = [i \in 1..N |-> RuleMap(known[i])]  BY DEF Listed
<1> HIDE DEF known, rest, listed, N, z
<1>9. \A i \in 1..N : /\ listed[i] = RuleMap(known[i]) /\ listed[i] \in ToSet(rules)
                      /\ object[listed[i]].id = known[i]
  BY <1>5, <1>8, RuleMapIs
<1>10. listed \in Seq(X) /\ Len(listed) = N
  <2>1. listed \in [1..N -> X]  BY <1>2, <1>8, <1>9
  <2> QED  BY <1>4, <2>1
<1>11. Once(listed)
  <2> SUFFICES ASSUME NEW i \in 1..N, NEW j \in 1..N, listed[i] = listed[j] PROVE i = j  BY <1>10 DEF Once
  <2>1. known[i] = known[j]  BY <1>9
  <2> QED  BY <1>3, <2>1 DEF Once, N
<1>12. \A i \in 1..Len(rest) : rest[i] \in C  BY <1>6 DEF Has
<1>13. \A i \in 1..N, j \in 1..Len(rest) : listed[i] # rest[j]
  <2> SUFFICES ASSUME NEW i \in 1..N, NEW j \in 1..Len(rest) PROVE listed[i] # rest[j]  OBVIOUS
  <2>1. object[listed[i]].id \in K /\ object[rest[j]].id \notin K  BY <1>5, <1>9, <1>12
  <2> QED  BY <2>1
<1> HIDE DEF X
<1>14. /\ z \in Seq(X) /\ Once(z)
       /\ \A i \in 1..N : \E k \in 1..Len(z) : z[k] = listed[i]
       /\ \A j \in 1..Len(rest) : \E k \in 1..Len(z) : z[k] = rest[j]
  <2>1. \A i \in 1..Len(listed), j \in 1..Len(rest) : listed[i] # rest[j]  BY <1>10, <1>13
  <2>2. listed \in Seq(X) /\ rest \in Seq(X) /\ Once(listed) /\ Once(rest)  BY <1>6, <1>10, <1>11
  <2>3. /\ listed \o rest \in Seq(X) /\ Once(listed \o rest)
        /\ \A i \in 1..Len(listed) : \E k \in 1..Len(listed \o rest) : (listed \o rest)[k] = listed[i]
        /\ \A j \in 1..Len(rest) : \E k \in 1..Len(listed \o rest) : (listed \o rest)[k] = rest[j]
    BY <2>1, <2>2, JoinedOnce
  <2> QED  BY <1>7, <1>10, <2>3
<1>15. ToSet(z) = {z[k] : k \in 1..Len(z)}  BY <1>14, LenProperties DEF ToSet
<1>16. ASSUME NEW r \in ToSet(rules) \ Ambiguous PROVE r \in ToSet(z)
  <2>1. CASE object[r].id \in K
    <3>1. PICK i \in 1..N : known[i] = object[r].id  BY <1>4, <2>1
    <3>2. listed[i] \in ToSet(rules) /\ object[listed[i]].id = object[r].id  BY <1>9, <3>1
    <3>3. listed[i] = r  BY <3>2 DEF Ambiguous
    <3> QED  BY <1>14, <1>15, <3>3
  <2>2. CASE object[r].id \notin K
    <3>1. r \in ToSet(rules) \cap C  BY <2>2
    <3>2. PICK j \in 1..Len(rest) : rest[j] = r  BY <1>6, <3>1 DEF Has
    <3> QED  BY <1>14, <1>15, <3>2
  <2> QED  BY <2>1, <2>2
<1>17. z \in Seq(1..Len(object)) /\ Once(z) /\ ToSet(rules) \ Ambiguous \subseteq ToSet(z)  BY <1>14, <1>16 DEF X
<1> QED  BY <1>17 DEF z

\* Removing one element.
LEMMA RemovedIs ==
  ASSUME NEW X, NEW s \in Seq(X), Once(s), NEW d \in 1..Len(s)
  PROVE  RemoveAt(s, d) \in Seq(X) /\ Once(RemoveAt(s, d))
<1> DEFINE u == SubSeq(s, 1, d - 1)
           w == SubSeq(s, d + 1, Len(s))
           n == Len(s)
<1>1. n \in Nat /\ \A i \in 1..n : s[i] \in X  BY LenProperties, ElementOfSeq
<1>2. u \in Seq(X) /\ Len(u) = d - 1 /\ \A i \in 1..(d - 1) : u[i] = s[i]
  <2>1. \A i \in 1..(d - 1) : s[i] \in X /\ 1 + i - 1 = i  BY <1>1
  <2> HIDE DEF n
  <2>2. 1 \in Int /\ d - 1 \in Int  OBVIOUS
  <2>3. /\ u \in Seq(X) /\ Len(u) = IF 1 <= d - 1 THEN (d - 1) - 1 + 1 ELSE 0
        /\ \A i \in 1..((d - 1) - 1 + 1) : u[i] = s[1 + i - 1]
    BY <2>1, <2>2, SubSeqProperties
  <2> HIDE DEF u
  <2>4. Len(u) = d - 1 /\ 1..((d - 1) - 1 + 1) = 1..(d - 1)  BY <2>3
  <2> QED  BY <2>1, <2>3, <2>4
<1>3. w \in Seq(X) /\ Len(w) = n - d /\ \A i \in 1..(n - d) : w[i] = s[d + i]
  <2>1. \A i \in (d + 1)..n : s[i] \in X  BY <1>1
  <2>2. d + 1 \in Int /\ n \in Int  BY <1>1
  <2>3. /\ w \in Seq(X) /\ Len(w) = IF d + 1 <= n THEN n - (d + 1) + 1 ELSE 0
        /\ \A i \in 1..(n - (d + 1) + 1) : w[i] = s[(d + 1) + i - 1]
    BY <2>1, <2>2, SubSeqProperties
  <2> HIDE DEF w, n
  <2>4. Len(w) = n - d /\ 1..(n - (d + 1) + 1) = 1..(n - d) /\ \A i \in 1..(n - d) : (d + 1) + i - 1 = d + i
    BY <1>1, <2>3 DEF n
  <2> QED  BY <2>3, <2>4
<1> HIDE DEF u, w
<1>4. Once(u) /\ Once(w)
  <2>1. \A i, j \in 1..(d - 1) : i \in 1..n /\ j \in 1..n  BY <1>1
  <2>2. \A i, j \in 1..(n - d) : d + i \in 1..n /\ d + j \in 1..n /\ (d + i = d + j => i = j)  BY <1>1
  <2> HIDE DEF n
  <2>3. \A i, j \in 1..n : s[i] = s[j] => i = j  BY DEF Once, n
  <2>4. Once(u)
    <3> SUFFICES ASSUME NEW i \in 1..(d - 1), NEW j \in 1..(d - 1), u[i] = u[j] PROVE i = j  BY <1>2 DEF Once
    <3> QED  BY <1>2, <2>1, <2>3
  <2>5. Once(w)
    <3> SUFFICES ASSUME NEW i \in 1..(Len(s) - d), NEW j \in 1..(Len(s) - d), w[i] = w[j] PROVE i = j
      BY <1>3 DEF Once, n
    <3>1. s[d + i] = s[d + j]  BY <1>3 DEF n
    <3> QED  BY <2>2, <2>3, <3>1 DEF n
  <2> QED  BY <2>4, <2>5
<1>5. \A i \in 1..Len(u), j \in 1..Len(w) : u[i] # w[j]
  <2> SUFFICES ASSUME NEW i \in 1..(d - 1), NEW j \in 1..(n - d) PROVE s[i] # s[d + j]  BY <1>2, <1>3
  <2>1. i \in 1..n /\ d + j \in 1..n /\ i # d + j  BY <1>1
  <2> QED  BY <2>1 DEF Once
<1>6. RemoveAt(s, d) = u \o w  BY DEF RemoveAt, u, w
<1>7. u \o w \in Seq(X) /\ Once(u \o w)  BY <1>2, <1>3, <1>4, <1>5, JoinedOnce
<1> QED  BY <1>6, <1>7
-----------------------------------------------------------------------------
\* The engine starts without rules.
LEMMA EngineFirst == ASSUME EngineInit PROVE EngineInv
<1>1. object = << >> /\ rules = << >> /\ nextID = 1 /\ request = [c \in Posts |-> Idle]  BY DEF EngineInit
<1>2. << >> \in Seq(Rule) /\ Len(<< >>) = 0 /\ << >> \in Seq(1..0)  BY EmptySeq
<1>3. Len(object) = 0 /\ Len(rules) = 0 /\ 1..Len(object) = 1..0  BY <1>1, <1>2
<1>4. \A c \in Posts : Serving(request[c], nextID)  BY <1>1 DEF Serving
<1>5. DOMAIN request = Posts /\ request = [c \in Posts |-> request[c]]  BY <1>1
<1> QED  BY <1>1, <1>2, <1>3, <1>4, <1>5, RuleConstants DEF EngineInv, Once

\* A POST /rules goes on, and the others stay.
LEMMA Goes ==
  ASSUME EngineInv, NEW c \in Posts, NEW x, request' = [request EXCEPT ![c] = x], UNCHANGED <<object, rules>>,
         nextID' = nextID, Serving(x, nextID)
  PROVE  EngineInv'
<1>1. DOMAIN request = Posts /\ \A d \in Posts : Serving(request[d], nextID)  BY DEF EngineInv
<1>2. DOMAIN request' = Posts /\ request' = [d \in Posts |-> request'[d]]  BY <1>1 DEF EngineInv
<1>3. \A d \in Posts : request'[d] = IF d = c THEN x ELSE request[d]  BY <1>1
<1>4. \A d \in Posts : Serving(request'[d], nextID')  BY <1>1, <1>3
<1>5. Once(rules)'  BY DEF EngineInv, Once
<1> QED  BY <1>2, <1>4, <1>5 DEF EngineInv

LEMMA AddListInv == ASSUME EngineInv, NEW c \in Posts, NEW want \in Wanted, AddList(c, want) PROVE EngineInv'
<1> DEFINE x == [at |-> "compare", want |-> want, seen |-> ToSet(rules)]
<1>1. Serving(x, nextID)  BY DEF Serving
<1>2. request' = [request EXCEPT ![c] = x] /\ UNCHANGED <<object, rules, nextID>>  BY DEF AddList
<1> HIDE DEF x
<1> QED  BY <1>1, <1>2, Goes

LEMMA AddCompareInv == ASSUME EngineInv, NEW c \in Posts, AddCompare(c) PROVE EngineInv'
<1> DEFINE y == [at |-> "build", want |-> request[c].want]
<1>1. request[c].want \in Wanted  BY DEF AddCompare, EngineInv, Serving, Idle
<1>2. Serving(y, nextID) /\ Serving(Idle, nextID)  BY <1>1 DEF Serving
<1>3. \E x \in {y, Idle} : request' = [request EXCEPT ![c] = x]  BY DEF AddCompare, EngineInv
<1>4. UNCHANGED <<object, rules, nextID>>  BY DEF AddCompare
<1> HIDE DEF y
<1> QED  BY <1>2, <1>3, <1>4, Goes

LEMMA AddBuildInv == ASSUME EngineInv, NEW c \in Posts, AddBuild(c) PROVE EngineInv'
<1> DEFINE y == [at |-> "append", want |-> request[c].want, id |-> nextID]
<1>1. request[c].want \in Wanted  BY DEF AddBuild, EngineInv, Serving, Idle
<1>2. nextID \in 1..nextID
  <2>1. Len(object) \in Nat /\ nextID = Len(object) + 1  BY LenProperties DEF EngineInv
  <2> QED  BY <2>1
<1>3. CASE request[c].want.domain \in BadPatterns
  <2>1. request' = [request EXCEPT ![c] = Idle] /\ UNCHANGED <<object, rules, nextID>>
    BY <1>3 DEF AddBuild, EngineInv
  <2>2. Serving(Idle, nextID)  BY DEF Serving
  <2> QED  BY <2>1, <2>2, Goes
<1>4. CASE request[c].want.domain \notin BadPatterns
  <2>1. request' = [request EXCEPT ![c] = y] /\ UNCHANGED <<object, rules, nextID>>
    BY <1>4 DEF AddBuild, EngineInv
  <2>2. Serving(y, nextID)  BY <1>1, <1>2, <1>4 DEF Serving
  <2> HIDE DEF y
  <2> QED  BY <2>1, <2>2, Goes
<1> QED  BY <1>3, <1>4

LEMMA AddAppendInv == ASSUME EngineInv, NEW c \in Posts, AddAppend(c) PROVE EngineInv'
<1> DEFINE n == Len(object)
           w == request[c].want
           m == Len(rules)
<1>1. object \in Seq(Rule) /\ n \in Nat /\ n + 1 <= MaxRules /\ nextID = n + 1 /\ MaxRules \in Nat
  BY LenProperties, RuleConstants DEF AddAppend, EngineInv
<1>2. w \in Wanted /\ w.domain \notin BadPatterns /\ request[c].id \in 1..(n + 1)
  <2>1. Serving(request[c], nextID) /\ request[c].at = "append"  BY DEF AddAppend, EngineInv
  <2> QED  BY <1>1, <2>1 DEF Serving, Idle
<1>3. Built(c) \in Rule /\ Built(c).domain = Built(c).compiled
  <2>1. request[c].id \in Objects  BY <1>1, <1>2 DEF Objects
  <2> QED  BY <1>2, <2>1 DEF Built, Rule, Wanted
<1>4. object' = Append(object, Built(c)) /\ rules' = Append(rules, Len(object'))  BY DEF AddAppend
<1>5. /\ object' \in Seq(Rule) /\ Len(object') = n + 1
      /\ \A i \in 1..n : object'[i] = object[i]
      /\ object'[n + 1] = Built(c)
  BY <1>1, <1>3, <1>4, AppendProperties
<1>6. rules \in Seq(1..n) /\ Once(rules) /\ m \in Nat /\ \A i \in 1..m : rules[i] \in 1..n
  BY LenProperties, ElementOfSeq DEF EngineInv
<1>7. rules \in Seq(1..(n + 1)) /\ n + 1 \in 1..(n + 1)
  <2>1. 1..n \subseteq 1..(n + 1)  BY <1>1
  <2> HIDE DEF n
  <2>2. rules \in Seq(1..(n + 1))  BY <1>6, <2>1, SeqMonotonic
  <2> QED  BY <1>1, <2>2
<1>8. /\ rules' \in Seq(1..(n + 1)) /\ Len(rules') = m + 1
      /\ \A i \in 1..m : rules'[i] = rules[i]
      /\ rules'[m + 1] = n + 1
  <2> HIDE DEF n
  <2> QED  BY <1>4, <1>5, <1>7, AppendProperties
<1>9. Once(rules')
  <2> SUFFICES ASSUME NEW i \in 1..(m + 1), NEW j \in 1..(m + 1), rules'[i] = rules'[j] PROVE i = j
    BY <1>8 DEF Once
  <2>1. 1..(m + 1) = (1..m) \cup {m + 1} /\ \A l \in 1..n : l # n + 1  BY <1>1, <1>6
  <2>2. CASE i \in 1..m /\ j \in 1..m  BY <1>6, <1>8, <2>2 DEF Once
  <2>3. CASE i \in 1..m /\ j = m + 1  BY <1>6, <1>8, <2>1, <2>3
  <2>4. CASE i = m + 1 /\ j \in 1..m  BY <1>6, <1>8, <2>1, <2>4
  <2> QED  BY <2>1, <2>2, <2>3, <2>4
<1>10. request' = [request EXCEPT ![c] = Idle] /\ nextID' = nextID + 1  BY DEF AddAppend
<1>11. DOMAIN request' = Posts /\ request' = [d \in Posts |-> request'[d]]  BY <1>10 DEF EngineInv
<1>12. \A d \in Posts : Serving(request'[d], nextID')
  <2> SUFFICES ASSUME NEW d \in Posts PROVE Serving(request'[d], nextID')  OBVIOUS
  <2>1. request'[d] = IF d = c THEN Idle ELSE request[d]  BY <1>10 DEF EngineInv
  <2>2. \A i \in 1..nextID : i \in 1..nextID'  BY <1>1, <1>10
  <2>3. CASE d = c  BY <2>1, <2>3 DEF Serving
  <2>4. CASE d # c
    <3>1. Serving(request[d], nextID) /\ request'[d] = request[d]  BY <2>1, <2>4 DEF EngineInv
    <3> QED  BY <2>2, <3>1 DEF Serving
  <2> QED  BY <2>3, <2>4
<1>13. \A r \in 1..(n + 1) : object'[r].domain \notin BadPatterns => object'[r].compiled = object'[r].domain
  <2>1. 1..(n + 1) = (1..n) \cup {n + 1}  BY <1>1
  <2> QED  BY <1>3, <1>5, <2>1 DEF EngineInv
<1>14. Len(object') <= MaxRules /\ nextID' = Len(object') + 1  BY <1>1, <1>5, <1>10
<1>15. Once(rules)'  BY <1>9 DEF Once
<1> HIDE DEF n, m, w
<1> QED  BY <1>5, <1>8, <1>11, <1>12, <1>13, <1>14, <1>15 DEF EngineInv

\* An absent field leaves the old value.
LEMMA AssignIs ==
  ASSUME NEW S, NEW old \in S, NEW T \in SUBSET S, NEW field \in Optional(T)
  PROVE  Assign(old, field) \in S
BY DEF Assign, Optional

LEMMA UpdateInv ==
  ASSUME EngineInv, NEW id \in Objects, NEW type \in Optional(Types), NEW domain \in Optional(Patterns),
         NEW enabled \in Optional(Switches), Update(id, type, domain, enabled)
  PROVE  EngineInv'
<1> DEFINE r == rules[Find(id)]
           o == object[r]
           changed == [o EXCEPT !.type = Assign(@, type), !.domain = Assign(@, domain),
                                !.enabled = Assign(@, enabled)]
           p == IF changed.domain \in BadPatterns THEN changed
                ELSE [changed EXCEPT !.compiled = changed.domain]
<1>1. Find(id) # 0 /\ object' = [object EXCEPT ![r] = p] /\ UNCHANGED <<rules, nextID, request>>  BY DEF Update
<1>2. r \in 1..Len(object)  BY <1>1, FindIs
<1>3. object \in Seq(Rule) /\ o \in Rule  BY <1>2, ElementOfSeq DEF EngineInv
<1>4. o.type \in Types /\ o.domain \in Patterns /\ o.enabled \in Switches /\ o.compiled \in Patterns \ BadPatterns
  BY <1>3 DEF Rule
<1> HIDE DEF o, r
<1>5. Assign(o.type, type) \in Types /\ Assign(o.domain, domain) \in Patterns /\ Assign(o.enabled, enabled) \in Switches
  BY <1>4, AssignIs
<1>6. changed \in Rule  BY <1>3, <1>5 DEF Rule
<1> HIDE DEF changed
<1>7. p \in Rule /\ (p.domain \notin BadPatterns => p.compiled = p.domain)
  <2>1. CASE changed.domain \in BadPatterns  BY <1>6, <2>1
  <2>2. CASE changed.domain \notin BadPatterns
    <3>1. changed.domain \in Patterns \ BadPatterns  BY <1>6, <2>2 DEF Rule
    <3>2. p = [changed EXCEPT !.compiled = changed.domain]  BY <2>2
    <3> HIDE DEF p
    <3> QED  BY <1>6, <3>1, <3>2 DEF Rule
  <2> QED  BY <2>1, <2>2
<1> HIDE DEF p
<1>8. /\ object' \in Seq(Rule) /\ Len(object') = Len(object)
      /\ \A j \in 1..Len(object) : object'[j] = IF j = r THEN p ELSE object[j]
  BY <1>1, <1>2, <1>3, <1>7, ExceptSeq
<1>9. \A j \in 1..Len(object) : object'[j].domain \notin BadPatterns => object'[j].compiled = object'[j].domain
  BY <1>7, <1>8 DEF EngineInv
<1>10. Once(rules)' /\ \A c \in Posts : Serving(request'[c], nextID')
  BY <1>1 DEF EngineInv, Once, Serving
<1>11. rules' \in Seq(1..Len(object')) /\ Len(object') <= MaxRules /\ nextID' = Len(object') + 1
  BY <1>1, <1>8 DEF EngineInv
<1>12. DOMAIN request' = Posts /\ request' = [c \in Posts |-> request'[c]]  BY <1>1 DEF EngineInv
<1> QED  BY <1>8, <1>9, <1>10, <1>11, <1>12 DEF EngineInv

\* The order changes, and nothing else.
LEMMA Arranged ==
  ASSUME EngineInv, rules' \in Seq(1..Len(object)), Once(rules'), UNCHANGED <<object, nextID, request>>
  PROVE  EngineInv'
<1>1. \A c \in Posts : Serving(request'[c], nextID')  BY DEF EngineInv, Serving
<1>2. Once(rules)'  BY DEF Once
<1> QED  BY <1>1, <1>2 DEF EngineInv

LEMMA DeleteInv == ASSUME EngineInv, NEW id \in Objects, Delete(id) PROVE EngineInv'
<1>1. Find(id) \in 1..Len(rules)  BY FindIs DEF Delete
<1>2. rules' = RemoveAt(rules, Find(id)) /\ UNCHANGED <<object, nextID, request>>  BY DEF Delete
<1>3. rules' \in Seq(1..Len(object)) /\ Once(rules')  BY <1>1, <1>2, RemovedIs DEF EngineInv
<1> QED  BY <1>2, <1>3, Arranged

LEMMA OrderIs == ASSUME NEW ids \in Orders PROVE ids \in Seq(Objects)
BY RuleConstants DEF Orders, BoundedSeq, SeqOf

LEMMA ReorderInv == ASSUME EngineInv, NEW ids \in Orders, Reorder(ids) PROVE EngineInv'
<1>1. rules' = Reordered(ids) /\ UNCHANGED <<object, nextID, request>>  BY DEF Reorder
<1>2. rules' \in Seq(1..Len(object)) /\ Once(rules')  BY <1>1, OrderIs, ReorderedIs
<1> QED  BY <1>1, <1>2, Arranged

LEMMA EngineStep == ASSUME EngineInv, [EngineNext]_engineVars PROVE EngineInv'
<1>1. CASE AddRule
  BY <1>1, AddListInv, AddCompareInv, AddBuildInv, AddAppendInv DEF AddRule
<1>2. CASE UNCHANGED engineVars
  <2>1. UNCHANGED <<object, nextID, request>> /\ rules' = rules  BY <1>2 DEF engineVars
  <2>2. rules' \in Seq(1..Len(object)) /\ Once(rules')  BY <2>1 DEF EngineInv
  <2> QED  BY <2>1, <2>2, Arranged
<1> QED  BY <1>1, <1>2, UpdateInv, DeleteInv, ReorderInv DEF EngineNext

\* What holds of the rules whatever requests, updates, deletions and reorderings come.
THEOREM EngineInvariant == EngineSpec => []EngineInv
<1>1. EngineInit => EngineInv  BY EngineFirst
<1>2. EngineInv /\ [EngineNext]_engineVars => EngineInv'  BY EngineStep
<1> QED  BY <1>1, <1>2, PTL DEF EngineSpec

\* The types of the rules, their order, the next ID and the requests.
THEOREM RulesTypeOK == EngineSpec => []EngineTypeOK
<1>1. EngineInv => EngineTypeOK
  <2> SUFFICES ASSUME EngineInv PROVE EngineTypeOK  OBVIOUS
  <2>1. Len(object) \in Nat /\ Len(object) <= MaxRules /\ nextID = Len(object) + 1 /\ MaxRules \in Nat
    BY LenProperties, RuleConstants DEF EngineInv
  <2>2. nextID \in 1..MaxRules + 1  BY <2>1
  <2>3. \A c \in Posts :
          \/ request[c] = Idle
          \/ request[c].at \in {"compare", "build", "append"} /\ request[c].want \in Wanted
    BY DEF EngineInv, Serving
  <2> QED  BY <2>1, <2>2, <2>3 DEF EngineInv, EngineTypeOK
<1> QED  BY <1>1, EngineInvariant, PTL

\* rules.go:118, 268: for any rules, patterns and names, and any number of updates that failed, the
\* rule that decides a name covers it by its domain, or by the last one before that was not malformed.
THEOREM RulesMatchTheirDomain == EngineSpec => []MatchesItsDomain
<1>1. EngineInv => MatchesItsDomain
  <2> SUFFICES ASSUME EngineInv, NEW name \in Names, Match(name) # 0
               PROVE  LET rule == object[rules[Match(name)]]
                          accepted == IF rule.domain \in BadPatterns THEN rule.compiled ELSE rule.domain
                      IN name \in Literal[accepted] \cup Derived[accepted]
    BY DEF MatchesItsDomain
  <2> DEFINE rule == object[rules[Match(name)]]
  <2>1. rules[Match(name)] \in 1..Len(object) /\ RuleMatch(rule, name)  BY MatchIs
  <2>2. rule.domain \notin BadPatterns => rule.compiled = rule.domain  BY <2>1 DEF EngineInv
  <2>3. rule.domain \in BadPatterns => Literal[rule.domain] = {}  BY RuleConstants
  <2> HIDE DEF rule
  <2>4. name \in Literal[rule.domain] \/ name \in Derived[rule.compiled]  BY <2>1 DEF RuleMatch
  <2> QED  BY <2>2, <2>3, <2>4 DEF rule
<1> QED  BY <1>1, EngineInvariant, PTL

\* rules.go:171, 188: for any list of rules and whatever IDs an order names, leaves out or repeats,
\* a rule goes only by DELETE or to another rule with the same ID, and none is listed twice.
THEOREM RulesLeaveOnPurpose == EngineSpec => LeavesOnPurpose
<1> DEFINE A == /\ ToSet(rules) \ Ambiguous \subseteq ToSet(rules') \/ \E id \in Objects : Delete(id)
                /\ IsInjective(rules')
<1>1. EngineInv /\ EngineInv' /\ [EngineNext]_engineVars => [A]_engineVars
  <2> SUFFICES ASSUME EngineInv, EngineInv', EngineNext PROVE A  OBVIOUS
  <2>1. IsInjective(rules')
    <3>1. rules' \in Seq(1..Len(object')) /\ \A i, j \in 1..Len(rules') : rules'[i] = rules'[j] => i = j
      BY DEF EngineInv, Once
    <3>2. DOMAIN rules' = 1..Len(rules')  BY <3>1, LenProperties
    <3> QED  BY <3>1, <3>2 DEF IsInjective
  <2>2. ASSUME rules' = rules PROVE ToSet(rules) \subseteq ToSet(rules')  BY <2>2
  <2>3. ASSUME AddRule PROVE ToSet(rules) \subseteq ToSet(rules')
    <3>1. CASE rules' = rules  BY <2>2, <3>1
    <3>2. CASE rules' = Append(rules, Len(object'))
      <4>1. /\ rules \in Seq(1..Len(object)) /\ rules' \in Seq(1..Len(object'))
            /\ Len(rules) \in Nat
        BY LenProperties DEF EngineInv
      <4>2. Len(rules') = Len(rules) + 1 /\ \A i \in 1..Len(rules) : rules'[i] = rules[i]
        BY <3>2, <4>1
      <4>3. /\ ToSet(rules) = {rules[i] : i \in 1..Len(rules)}
            /\ ToSet(rules') = {rules'[i] : i \in 1..Len(rules')}
        BY <4>1, LenProperties DEF ToSet
      <4>4. \A i \in 1..Len(rules) : i \in 1..Len(rules')  BY <4>1, <4>2
      <4>5. ASSUME NEW r \in ToSet(rules) PROVE r \in ToSet(rules')
        <5>1. PICK i \in 1..Len(rules) : rules[i] = r  BY <4>3
        <5> QED  BY <4>2, <4>3, <4>4, <5>1
      <4> QED  BY <4>5
    <3> QED  BY <2>3, <3>1, <3>2 DEF AddRule, AddList, AddCompare, AddBuild, AddAppend
  <2>4. ASSUME NEW ids \in Orders, Reorder(ids) PROVE ToSet(rules) \ Ambiguous \subseteq ToSet(rules')
    BY <2>4, OrderIs, ReorderedIs DEF Reorder
  <2>5. ASSUME NEW id, NEW type, NEW domain, NEW enabled, Update(id, type, domain, enabled) PROVE rules' = rules
    BY <2>5 DEF Update
  <2> QED  BY <2>1, <2>2, <2>3, <2>4, <2>5 DEF EngineNext
<1> QED  BY <1>1, EngineInvariant, PTL DEF EngineSpec, LeavesOnPurpose
=============================================================================
