---------------------------- MODULE UpstreamsProofs ----------------------------
(***************************************************************************)
(* What the upstreams tell of the requests sent through them, for any      *)
(* number of addresses, concurrent queries and configuration changes.      *)
(***************************************************************************)
EXTENDS Upstreams, FiniteSetTheorems, SequenceTheorems, TLAPS

Told == {"answer", "failed", "timeout"}

\* How far a call of Query is, and what it knows by then.
Standing(x) ==
  /\ x.at \in {"off", "find"} => x.i = 0 /\ x.why = "none"
  /\ x.at = "sent" => x.i # 0 /\ x.why = "none"
  /\ x.at = "outcome" => x.i # 0 /\ x.why \in Told /\ (x.why = "answer" => x.latency \in Latencies)
  /\ x.at = "posted" => (x.i = 0 /\ x.why \in {"unknown", "rejected"}) \/ (x.i # 0 /\ x.why \in Told)
Standings == \A c \in Callers, a \in Addresses : Standing(ask[c][a])

\* A call is made once.
NotYet == /\ \A g \in Groups : group[g].at = "new" => \A a \in Addresses : ask[g][a].at = "off"
          /\ \A a \in Addresses : status.at = "new" \/ a \in status.left => ask["status"][a].at = "off"

\* A breaker has no failures but those its object has counted.
Sober(o) == /\ o.b.consecutiveFails <= o.failures
            /\ o.b.state # "closed" => o.b.trips > 0
            /\ o.b.trips > 0 => o.failures >= failThreshold
Sobers == \A i \in 1..Len(object) : Sober(object[i])

\* The counters of object number i, and the calls that went through it.
Counts(o, i) == /\ o.requests = CountAsks(i, {"outcome", "posted"}, Told)
                /\ o.successes = CountAsks(i, {"posted"}, {"answer"})
                /\ o.failures = CountAsks(i, {"posted"}, {"failed", "timeout"})
                /\ o.timeouts = CountAsks(i, {"posted"}, {"timeout"})
Counted == \A i \in 1..Len(object) : Counts(object[i], i)

\* While GET /status has the lock, it probes the upstream it looked up, and no other.
Probing ==
  /\ \A a \in status.left : upstreams[a] # 0
  /\ \A a \in Addresses : ask["status"][a].at \in {"find", "sent", "outcome"} =>
       status.at = "probing" /\ a = status.addr
  /\ status.at \in {"probing", "requests", "counters"} =>
       /\ status.addr \in Addresses /\ status.uc = upstreams[status.addr] /\ status.uc # 0
       /\ ask["status"][status.addr].i \in {0, status.uc}
  /\ status.at \in {"requests", "counters"} => ask["status"][status.addr].at = "posted"

\* A report is complete, or the one that is being written.
Fine(r) == (r.up => r.successes > 0) /\ r.successes + r.failures <= r.requests + r.late
Reports ==
  /\ \A a \in Addresses : (status.at = "counters" /\ a = status.addr) \/ Fine(status.report[a])
  /\ status.at = "counters" =>
       LET r == status.report[status.addr]
           o == object[status.uc]
       IN /\ r.up => ask["status"][status.addr].why = "answer"
          /\ o.successes + o.failures <= r.requests + r.late

IInv == TypeOK /\ Standings /\ NotYet /\ Sobers /\ Counted /\ Probing /\ Reports
-----------------------------------------------------------------------------
\* Counting calls.
In(x, i, ats, whys) == x.i = i /\ x.at \in ats /\ x.why \in whys
Chosen(i, ats, whys) == {ca \in Callers \X Addresses : In(ask[ca[1]][ca[2]], i, ats, whys)}

\* Only the call of c for address a goes on.
Only(c, a) == \A d \in Callers, e \in Addresses : d # c \/ e # a => ask'[d][e] = ask[d][e]

LEMMA FiniteCalls == IsFiniteSet(Callers \X Addresses)
<1>1. IsFiniteSet(Groups \cup {"status"})  BY UpstreamsConstants, FS_AddElement
<1> QED  BY <1>1, UpstreamsConstants, FS_Product DEF Callers

LEMMA CountIs ==
  ASSUME NEW i, NEW ats, NEW whys
  PROVE  /\ CountAsks(i, ats, whys) = Cardinality(Chosen(i, ats, whys))
         /\ IsFiniteSet(Chosen(i, ats, whys)) /\ Cardinality(Chosen(i, ats, whys)) \in Nat
<1>1. {ca \in Asks(i) : ask[ca[1]][ca[2]].at \in ats /\ ask[ca[1]][ca[2]].why \in whys} = Chosen(i, ats, whys)
  BY DEF Asks, Chosen, In
<1>2. Chosen(i, ats, whys) \in SUBSET (Callers \X Addresses)  BY DEF Chosen
<1>3. IsFiniteSet(Chosen(i, ats, whys))  BY <1>2, FiniteCalls, FS_Subset
<1> QED  BY <1>1, <1>3, FS_CardinalityType DEF CountAsks

LEMMA CountNext ==
  ASSUME NEW i, NEW ats, NEW whys
  PROVE  CountAsks(i, ats, whys)' = Cardinality(Chosen(i, ats, whys)')
<1>1. {ca \in Asks(i)' : ask'[ca[1]][ca[2]].at \in ats /\ ask'[ca[1]][ca[2]].why \in whys} = Chosen(i, ats, whys)'
  BY DEF Asks, Chosen, In
<1> QED  BY <1>1 DEF CountAsks

LEMMA CountStays ==
  ASSUME NEW i, NEW ats, NEW whys,
         \A d \in Callers, e \in Addresses : In(ask'[d][e], i, ats, whys) <=> In(ask[d][e], i, ats, whys)
  PROVE  CountAsks(i, ats, whys)' = CountAsks(i, ats, whys)
<1>1. Chosen(i, ats, whys)' = {ca \in Callers \X Addresses : In(ask'[ca[1]][ca[2]], i, ats, whys)}  BY DEF Chosen, In
<1>2. \A ca \in Callers \X Addresses : In(ask'[ca[1]][ca[2]], i, ats, whys) <=> In(ask[ca[1]][ca[2]], i, ats, whys)
  OBVIOUS
<1>3. Chosen(i, ats, whys)' = Chosen(i, ats, whys)  BY <1>1, <1>2 DEF Chosen
<1>4. CountAsks(i, ats, whys) = Cardinality(Chosen(i, ats, whys))  BY CountIs
<1>5. CountAsks(i, ats, whys)' = Cardinality(Chosen(i, ats, whys)')  BY CountNext
<1> QED  BY <1>3, <1>4, <1>5

LEMMA CountGrows ==
  ASSUME NEW i, NEW ats, NEW whys, NEW c \in Callers, NEW a \in Addresses, Only(c, a),
         ~In(ask[c][a], i, ats, whys), In(ask'[c][a], i, ats, whys)
  PROVE  CountAsks(i, ats, whys)' = CountAsks(i, ats, whys) + 1
<1>1. Chosen(i, ats, whys)' = {ca \in Callers \X Addresses : In(ask'[ca[1]][ca[2]], i, ats, whys)}  BY DEF Chosen, In
<1>2. \A ca \in Callers \X Addresses :
        In(ask'[ca[1]][ca[2]], i, ats, whys) <=> In(ask[ca[1]][ca[2]], i, ats, whys) \/ ca = <<c, a>>
  BY DEF Only
<1>3. Chosen(i, ats, whys)' = Chosen(i, ats, whys) \cup {<<c, a>>}  BY <1>1, <1>2 DEF Chosen
<1>4. <<c, a>> \notin Chosen(i, ats, whys)  BY DEF Chosen
<1>5. Cardinality(Chosen(i, ats, whys) \cup {<<c, a>>}) = Cardinality(Chosen(i, ats, whys)) + 1
  BY <1>4, CountIs, FS_AddElement
<1>6. CountAsks(i, ats, whys) = Cardinality(Chosen(i, ats, whys))  BY CountIs
<1>7. CountAsks(i, ats, whys)' = Cardinality(Chosen(i, ats, whys)')  BY CountNext
<1> QED  BY <1>3, <1>5, <1>6, <1>7

\* A call that stays in its class of calls, or outside it, does not change the count.
LEMMA CountStaysOnly ==
  ASSUME NEW i, NEW ats, NEW whys, NEW c \in Callers, NEW a \in Addresses, Only(c, a),
         In(ask'[c][a], i, ats, whys) <=> In(ask[c][a], i, ats, whys)
  PROVE  CountAsks(i, ats, whys)' = CountAsks(i, ats, whys)
<1>1. \A d \in Callers, e \in Addresses : In(ask'[d][e], i, ats, whys) <=> In(ask[d][e], i, ats, whys)
  BY DEF Only
<1> QED  BY <1>1, CountStays

\* An answer that was posted has been counted; successes and failures are different requests.
LEMMA CountBounds ==
  ASSUME TypeOK, Counted, NEW i \in 1..Len(object)
  PROVE  /\ object[i].successes + object[i].failures <= object[i].requests
         /\ \A c \in Callers, a \in Addresses : In(ask[c][a], i, {"posted"}, {"answer"}) => object[i].successes > 0
<1> DEFINE S == Chosen(i, {"posted"}, {"answer"})
           F == Chosen(i, {"posted"}, {"failed", "timeout"})
           R == Chosen(i, {"outcome", "posted"}, Told)
<1>1. /\ object[i].successes = Cardinality(S) /\ object[i].failures = Cardinality(F)
      /\ object[i].requests = Cardinality(R)
      /\ IsFiniteSet(S) /\ IsFiniteSet(F) /\ IsFiniteSet(R)
      /\ Cardinality(S) \in Nat /\ Cardinality(F) \in Nat /\ Cardinality(R) \in Nat
  BY CountIs DEF Counted, Counts
<1>2. S \cap F = {} /\ S \cup F \in SUBSET R  BY DEF Chosen, In, Told
<1>3. \A c \in Callers, a \in Addresses : In(ask[c][a], i, {"posted"}, {"answer"}) => S # {}
  <2> SUFFICES ASSUME NEW c \in Callers, NEW a \in Addresses, In(ask[c][a], i, {"posted"}, {"answer"})
               PROVE  <<c, a>> \in S
    OBVIOUS
  <2> QED  BY DEF Chosen
<1> HIDE DEF S, F, R
<1>4. Cardinality(S \cup F) = Cardinality(S) + Cardinality(F)
  <2>1. Cardinality(S \cap F) = 0  BY <1>2, FS_EmptySet
  <2>2. Cardinality(S \cup F) = Cardinality(S) + Cardinality(F) - Cardinality(S \cap F)  BY <1>1, FS_Union
  <2> QED  BY <1>1, <2>1, <2>2
<1>5. Cardinality(S \cup F) <= Cardinality(R)  BY <1>1, <1>2, FS_Subset
<1>6. S # {} => Cardinality(S) # 0  BY <1>1, FS_EmptySet
<1> QED  BY <1>1, <1>3, <1>4, <1>5, <1>6
-----------------------------------------------------------------------------
\* Breakers and objects.
LEMMA HalfOpenIs ==
  ASSUME NEW b \in BreakerType
  PROVE  /\ HalfOpen(b) \in BreakerType
         /\ HalfOpen(b).consecutiveFails = b.consecutiveFails /\ HalfOpen(b).trips = b.trips
         /\ HalfOpen(b).state = "closed" <=> b.state = "closed"
BY DEF HalfOpen, BreakerType

LEMMA SucceededIs ==
  ASSUME NEW b \in BreakerType
  PROVE  /\ Succeeded(b) \in BreakerType
         /\ Succeeded(b).consecutiveFails = 0 /\ Succeeded(b).trips = b.trips
         /\ Succeeded(b).state # "closed" => b.state # "closed"
<1>1. CASE b.state = "half_open"
  <2>1. b.recovers + 1 \in Nat  BY DEF BreakerType
  <2> QED  BY <1>1, <2>1 DEF Succeeded, BreakerType
<1>2. CASE b.state # "half_open"  BY <1>2 DEF Succeeded, BreakerType
<1> QED  BY <1>1, <1>2

\* The fields that trip() writes.
LEMMA TripIs ==
  ASSUME NEW b \in BreakerType, NEW n \in Nat, NEW k \in Int
  PROVE  [b EXCEPT !.state = "open", !.trips = n, !.sinceOpen = k] \in BreakerType
BY DEF BreakerType

LEMMA FailedIs ==
  ASSUME NEW b \in BreakerType
  PROVE  /\ Failed(b) \in BreakerType
         /\ Failed(b).consecutiveFails <= b.consecutiveFails + 1
         /\ \/ Failed(b).trips = b.trips /\ Failed(b).state = b.state
            \/ /\ Failed(b).trips = b.trips + 1
               /\ b.state = "half_open" \/ b.consecutiveFails + 1 >= failThreshold
<1> DEFINE r == IF b.state = "half_open" THEN b ELSE [b EXCEPT !.consecutiveFails = @ + 1]
<1>1. /\ r \in BreakerType /\ r.trips = b.trips /\ r.state = b.state
      /\ r.consecutiveFails \in {b.consecutiveFails, b.consecutiveFails + 1}
  BY DEF BreakerType
<1>2. b.consecutiveFails \in Nat /\ b.trips \in Nat  BY DEF BreakerType
<1>3. Failed(b) = IF TripsOn(b) THEN Trip(r) ELSE r  BY DEF Failed
<1> HIDE DEF r
<1>4. /\ Trip(r) \in BreakerType /\ Trip(r).trips = r.trips + 1
      /\ Trip(r).consecutiveFails = r.consecutiveFails
  <2>1. r.trips + 1 \in Nat /\ 0 \in Int  BY <1>1 DEF BreakerType
  <2>2. Trip(r) \in BreakerType  BY <1>1, <2>1, TripIs DEF Trip
  <2> QED  BY <1>1, <2>2 DEF Trip, BreakerType
<1>5. TripsOn(b) => b.state = "half_open" \/ b.consecutiveFails + 1 >= failThreshold  BY DEF TripsOn
<1> QED  BY <1>1, <1>2, <1>3, <1>4, <1>5

\* The ring never grows beyond its buffer.
Sized(o) == Len(o.latencies) <= latencyBufferSize

LEMMA OutcomeIs ==
  ASSUME NEW o \in Object, NEW why \in Told
  PROVE  /\ Outcome(o, why) \in Object /\ Outcome(o, why).b = o.b
         /\ Outcome(o, why).latencies = o.latencies /\ Outcome(o, why).requests = o.requests
         /\ Outcome(o, why).successes = IF why = "answer" THEN o.successes + 1 ELSE o.successes
         /\ Outcome(o, why).failures = IF why = "answer" THEN o.failures ELSE o.failures + 1
         /\ Outcome(o, why).timeouts = IF why = "timeout" THEN o.timeouts + 1 ELSE o.timeouts
<1> DEFINE s == IF why = "answer" THEN o.successes + 1 ELSE o.successes
           f == IF why = "answer" THEN o.failures ELSE o.failures + 1
           t == IF why = "timeout" THEN o.timeouts + 1 ELSE o.timeouts
<1>1. s \in Nat /\ f \in Nat /\ t \in Nat  BY DEF Object
<1>2. Outcome(o, why) = [o EXCEPT !.successes = s, !.failures = f, !.timeouts = t]  BY DEF Outcome, Object
<1> HIDE DEF s, f, t
<1>3. /\ Outcome(o, why) \in Object /\ Outcome(o, why).b = o.b
      /\ Outcome(o, why).latencies = o.latencies /\ Outcome(o, why).requests = o.requests
      /\ Outcome(o, why).successes = s /\ Outcome(o, why).failures = f /\ Outcome(o, why).timeouts = t
  BY <1>1, <1>2 DEF Object
<1> QED  BY <1>3 DEF s, f, t

LEMMA SampledIs ==
  ASSUME NEW o \in Object, Sized(o), NEW ns \in Latencies
  PROVE  /\ Sampled(o, ns) \in Object /\ Sized(Sampled(o, ns)) /\ Sampled(o, ns).b = o.b
         /\ Sampled(o, ns).requests = o.requests /\ Sampled(o, ns).successes = o.successes
         /\ Sampled(o, ns).failures = o.failures /\ Sampled(o, ns).timeouts = o.timeouts
<1> DEFINE l == IF Len(o.latencies) < latencyBufferSize THEN Append(o.latencies, ns)
                ELSE [o.latencies EXCEPT ![o.latIdx] = ns]
           k == (o.latIdx % latencyBufferSize) + 1
           m == o.latSum + ns
           s == Append(o.samples, ns)
<1>1. /\ o.latencies \in Seq(Latencies) /\ o.samples \in Seq(Latencies) /\ o.latIdx \in 1..latencyBufferSize
      /\ o.latSum \in Nat /\ ns \in Nat /\ latencyBufferSize \in Nat \ {0}
  BY UpstreamsConstants DEF Object
<1>2. l \in Seq(Latencies) /\ Len(l) <= latencyBufferSize
  <2>1. CASE Len(o.latencies) < latencyBufferSize  BY <1>1, <2>1
  <2>2. CASE Len(o.latencies) >= latencyBufferSize
    <3>1. Len(o.latencies) \in Nat  BY <1>1, LenProperties
    <3>2. o.latIdx \in 1..Len(o.latencies)  BY <1>1, <2>2, <3>1
    <3>3. l = [o.latencies EXCEPT ![o.latIdx] = ns]  BY <1>1, <2>2, <3>1
    <3>4. [o.latencies EXCEPT ![o.latIdx] = ns] \in Seq(Latencies)
          /\ Len([o.latencies EXCEPT ![o.latIdx] = ns]) = Len(o.latencies)
      BY <1>1, <3>2, ExceptSeq
    <3> QED  BY <3>3, <3>4 DEF Sized
  <2>3. Len(o.latencies) \in Nat  BY <1>1, LenProperties
  <2> QED  BY <1>1, <2>1, <2>2, <2>3
<1>3. k \in 1..latencyBufferSize  BY <1>1
<1>4. m \in Nat /\ s \in Seq(Latencies)  BY <1>1
<1>5. Sampled(o, ns) = [o EXCEPT !.latencies = l, !.latIdx = k, !.latSum = m, !.samples = s]
  BY DEF Sampled, Object
<1> HIDE DEF l, k, m, s
<1>6. Sampled(o, ns).latencies = l  BY <1>5 DEF Object
<1> QED  BY <1>2, <1>3, <1>4, <1>5, <1>6 DEF Object, Sized

LEMMA RecordedIs ==
  ASSUME NEW o \in Object, Sized(o), Sober(o), NEW why \in Told, NEW ns, why = "answer" => ns \in Latencies
  PROVE  /\ Recorded(o, why, ns) \in Object /\ Sized(Recorded(o, why, ns)) /\ Sober(Recorded(o, why, ns))
         /\ Recorded(o, why, ns).requests = o.requests
         /\ Recorded(o, why, ns).successes = IF why = "answer" THEN o.successes + 1 ELSE o.successes
         /\ Recorded(o, why, ns).failures = IF why = "answer" THEN o.failures ELSE o.failures + 1
         /\ Recorded(o, why, ns).timeouts = IF why = "timeout" THEN o.timeouts + 1 ELSE o.timeouts
<1> DEFINE counted == Outcome(o, why)
           s == IF why = "answer" THEN o.successes + 1 ELSE o.successes
           f == IF why = "answer" THEN o.failures ELSE o.failures + 1
           t == IF why = "timeout" THEN o.timeouts + 1 ELSE o.timeouts
<1>1. /\ counted \in Object /\ counted.b = o.b /\ counted.latencies = o.latencies
      /\ counted.requests = o.requests /\ counted.successes = s /\ counted.failures = f /\ counted.timeouts = t
  BY OutcomeIs
<1>2. o.b \in BreakerType /\ o.failures \in Nat  BY DEF Object
<1>3. o.b.trips \in Nat /\ o.b.consecutiveFails \in Nat  BY <1>2 DEF BreakerType
<1> HIDE DEF counted, s, t
<1>4. CASE why = "answer"
  <2> DEFINE p == Sampled(counted, ns)
             b == Succeeded(p.b)
  <2>1. Sized(counted)  BY <1>1 DEF Sized
  <2>2. /\ p \in Object /\ Sized(p) /\ p.b = o.b /\ p.requests = o.requests /\ p.successes = s
        /\ p.failures = f /\ p.timeouts = t
    BY <1>1, <1>4, <2>1, SampledIs
  <2>3. b \in BreakerType /\ b.consecutiveFails = 0 /\ b.trips = o.b.trips /\ (b.state # "closed" => o.b.state # "closed")
    BY <1>2, <2>2, SucceededIs
  <2>4. Recorded(o, why, ns) = [p EXCEPT !.b = b]  BY <1>4, <2>2 DEF Recorded, Object, counted
  <2> HIDE DEF p, b
  <2>5. /\ Recorded(o, why, ns) \in Object /\ Sized(Recorded(o, why, ns)) /\ Recorded(o, why, ns).b = b
        /\ Recorded(o, why, ns).requests = o.requests /\ Recorded(o, why, ns).successes = s
        /\ Recorded(o, why, ns).failures = f /\ Recorded(o, why, ns).timeouts = t
    BY <2>2, <2>3, <2>4 DEF Object, Sized
  <2>6. Sober(Recorded(o, why, ns))  BY <1>2, <1>3, <1>4, <2>3, <2>5 DEF Sober
  <2> QED  BY <2>5, <2>6 DEF s, t
<1>5. CASE why # "answer"
  <2> DEFINE b == Failed(counted.b)
  <2>1. /\ b \in BreakerType /\ b.consecutiveFails <= o.b.consecutiveFails + 1
        /\ \/ b.trips = o.b.trips /\ b.state = o.b.state
           \/ b.trips = o.b.trips + 1 /\ (o.b.state = "half_open" \/ o.b.consecutiveFails + 1 >= failThreshold)
    BY <1>1, <1>2, FailedIs
  <2>2. Recorded(o, why, ns) = [counted EXCEPT !.b = b]  BY <1>1, <1>5 DEF Recorded, Object, counted
  <2> HIDE DEF b
  <2>3. /\ Recorded(o, why, ns) \in Object /\ Sized(Recorded(o, why, ns)) /\ Recorded(o, why, ns).b = b
        /\ Recorded(o, why, ns).requests = o.requests /\ Recorded(o, why, ns).successes = s
        /\ Recorded(o, why, ns).failures = f /\ Recorded(o, why, ns).timeouts = t
    BY <1>1, <2>1, <2>2 DEF Object, Sized
  <2>4. b.consecutiveFails \in Nat /\ b.trips \in Nat  BY <2>1 DEF BreakerType
  <2>5. Sober(Recorded(o, why, ns))  BY <1>2, <1>3, <1>5, <2>1, <2>3, <2>4, BreakerConstants DEF Sober
  <2> QED  BY <2>3, <2>5 DEF s, t
<1> QED  BY <1>4, <1>5
-----------------------------------------------------------------------------
\* One object changes, and the others stay.
LEMMA ObjectStep ==
  ASSUME object \in Seq(Object), NEW i \in 1..Len(object), NEW o \in Object, object' = [object EXCEPT ![i] = o]
  PROVE  /\ object' \in Seq(Object) /\ Len(object') = Len(object) /\ object'[i] = o
         /\ \A j \in 1..Len(object) : j # i => object'[j] = object[j]
BY ExceptSeq

\* One call goes on, and the others stay.
LEMMA AskStep ==
  ASSUME ask \in [Callers -> [Addresses -> Call]], NEW c \in Callers, NEW a \in Addresses, NEW x \in Call,
         ask' = [ask EXCEPT ![c][a] = x]
  PROVE  ask' \in [Callers -> [Addresses -> Call]] /\ Only(c, a) /\ ask'[c][a] = x
<1>1. ask[c] \in [Addresses -> Call]  OBVIOUS
<1>2. \A d \in Callers : ask'[d] = IF d = c THEN [ask[c] EXCEPT ![a] = x] ELSE ask[d]  OBVIOUS
<1>3. ask' \in [Callers -> [Addresses -> Call]]  BY <1>1, <1>2
<1>4. Only(c, a)  BY <1>1, <1>2 DEF Only
<1> QED  BY <1>1, <1>2, <1>3, <1>4
-----------------------------------------------------------------------------
\* The parts of the type invariant.
GroupOK(x) == /\ DOMAIN x = {"at", "selected", "results", "best"} /\ x.at \in {"new", "waiting", "done"}
              /\ x.selected \in Seq(Addresses) /\ x.results \in Seq(Addresses)
GroupsOK == DOMAIN group = Groups /\ \A g \in Groups : GroupOK(group[g])
ObjectsOK == object \in Seq(Object) /\ \A i \in 1..Len(object) : Sized(object[i])
StatusOK == /\ status \in [at : {"new", "next", "probing", "requests", "counters", "done"}, left : SUBSET Addresses,
                           addr : Addresses \cup {"none"}, uc : 0..Len(object), report : [Addresses -> Report]]
ClientOK == /\ cfg \in Configs \cup {InitialServers} /\ todo \in Seq(Addresses) /\ updates \in 0..MaxUpdates
            /\ upstreams \in [Addresses -> 0..Len(object)] /\ locking \in BOOLEAN
AsksOK == ask \in [Callers -> [Addresses -> Call]]

LEMMA TypeParts == TypeOK <=> ClientOK /\ ObjectsOK /\ GroupsOK /\ AsksOK /\ StatusOK
BY DEF TypeOK, ClientOK, ObjectsOK, GroupsOK, GroupOK, AsksOK, StatusOK, Sized

LEMMA TypePartsNext ==
  ASSUME ClientOK', ObjectsOK', GroupsOK', AsksOK', StatusOK' PROVE TypeOK'
BY DEF TypeOK, ClientOK, ObjectsOK, GroupsOK, GroupOK, AsksOK, StatusOK, Sized

\* No counter changes.
Alike(o, p) == p.requests = o.requests /\ p.successes = o.successes /\ p.failures = o.failures /\ p.timeouts = o.timeouts
AllAlike == /\ ObjectsOK' /\ Sobers' /\ Len(object') = Len(object)
            /\ \A j \in 1..Len(object) : Alike(object[j], object'[j])

LEMMA AlikeSame == ASSUME IInv, object' = object PROVE AllAlike
BY TypeParts DEF IInv, AllAlike, Alike, ObjectsOK, Sobers, Sober, Sized

LEMMA AlikeBreaker ==
  ASSUME IInv, NEW i \in 1..Len(object), NEW b \in BreakerType, object' = [object EXCEPT ![i].b = b],
         b.consecutiveFails = object[i].b.consecutiveFails, b.trips = object[i].b.trips,
         b.state # "closed" => object[i].b.state # "closed"
  PROVE  AllAlike
<1> DEFINE o == [object[i] EXCEPT !.b = b]
<1>1. ObjectsOK  BY TypeParts DEF IInv
<1>2. object \in Seq(Object) /\ object[i] \in Object /\ Len(object) \in Nat  BY <1>1, LenProperties, ElementOfSeq DEF ObjectsOK
<1>3. o \in Object /\ o.b = b /\ Alike(object[i], o) /\ o.latencies = object[i].latencies
  BY <1>2 DEF Object, Alike
<1>4. object' = [object EXCEPT ![i] = o]  BY <1>2
<1> HIDE DEF o
<1>5. /\ object' \in Seq(Object) /\ Len(object') = Len(object) /\ object'[i] = o
      /\ \A j \in 1..Len(object) : j # i => object'[j] = object[j]
  BY <1>2, <1>3, <1>4, ObjectStep
<1>6. Sized(object[i]) /\ Sober(object[i])  BY <1>1 DEF ObjectsOK, IInv, Sobers
<1>7. Sized(o)  BY <1>3, <1>6 DEF Sized
<1>8. Sober(o)  BY <1>3, <1>6 DEF Sober, Alike
<1>9. \A j \in 1..Len(object) : Sized(object'[j])
  BY <1>1, <1>5, <1>7 DEF ObjectsOK
<1>10. \A j \in 1..Len(object) : Sober(object'[j])
  BY <1>5, <1>8 DEF IInv, Sobers
<1>11. \A j \in 1..Len(object) : Alike(object[j], object'[j])
  <2>1. \A j \in 1..Len(object) : Alike(object[j], object[j])  BY DEF Alike
  <2> QED  BY <1>3, <1>5, <2>1
<1>12. ObjectsOK'  BY <1>5, <1>9 DEF ObjectsOK, Object, Sized
<1>13. Sobers'  BY <1>5, <1>10 DEF Sobers, Sober
<1> QED  BY <1>5, <1>11, <1>12, <1>13 DEF AllAlike

\* A call that no counter counts.
Uncounted(x) == x.at \notin {"outcome", "posted"} \/ x.i = 0

LEMMA CountedKept ==
  ASSUME Counted, AllAlike, Len(object) \in Nat,
         \A d \in Callers, e \in Addresses :
            ask'[d][e] = ask[d][e] \/ (Uncounted(ask[d][e]) /\ Uncounted(ask'[d][e]))
  PROVE  Counted'
<1> SUFFICES ASSUME NEW i \in 1..Len(object) PROVE Counts(object[i], i)'
  <2>1. Len(object') = Len(object)  BY DEF AllAlike
  <2> QED  BY <2>1 DEF Counted
<1>1. ASSUME NEW ats, NEW whys, ats \subseteq {"outcome", "posted"} PROVE CountAsks(i, ats, whys)' = CountAsks(i, ats, whys)
  <2>1. \A d \in Callers, e \in Addresses : In(ask'[d][e], i, ats, whys) <=> In(ask[d][e], i, ats, whys)
    <3> SUFFICES ASSUME NEW d \in Callers, NEW e \in Addresses
                 PROVE  In(ask'[d][e], i, ats, whys) <=> In(ask[d][e], i, ats, whys)
      OBVIOUS
    <3>1. CASE ask'[d][e] = ask[d][e]  BY <3>1
    <3>2. CASE Uncounted(ask[d][e]) /\ Uncounted(ask'[d][e])
      <4>1. i # 0  OBVIOUS
      <4>2. ASSUME NEW x, Uncounted(x) PROVE ~In(x, i, ats, whys)  BY <1>1, <4>1, <4>2 DEF Uncounted, In
      <4> QED  BY <3>2, <4>2
    <3> QED  BY <3>1, <3>2
  <2> QED  BY <2>1, CountStays
<1>2. Counts(object[i], i) /\ Alike(object[i], object'[i])  BY DEF Counted, AllAlike
<1>3. /\ CountAsks(i, {"outcome", "posted"}, Told)' = CountAsks(i, {"outcome", "posted"}, Told)
      /\ CountAsks(i, {"posted"}, {"answer"})' = CountAsks(i, {"posted"}, {"answer"})
      /\ CountAsks(i, {"posted"}, {"failed", "timeout"})' = CountAsks(i, {"posted"}, {"failed", "timeout"})
      /\ CountAsks(i, {"posted"}, {"timeout"})' = CountAsks(i, {"posted"}, {"timeout"})
  BY <1>1
<1> QED  BY <1>2, <1>3 DEF Counts, Alike, Told
-----------------------------------------------------------------------------
\* A step of Query: of one call, which is under way.

SameAts == \A g \in Groups : group'[g].at = group[g].at

LEMMA ResultStep ==
  ASSUME GroupsOK, NEW c \in Groups, NEW a \in Addresses, group' = [group EXCEPT ![c].results = Append(@, a)]
  PROVE  GroupsOK' /\ SameAts
<1> DEFINE r == Append(group[c].results, a)
           x == [group[c] EXCEPT !.results = r]
<1>1. GroupOK(group[c]) /\ DOMAIN group = Groups  BY DEF GroupsOK
<1>2. r \in Seq(Addresses)  BY <1>1 DEF GroupOK
<1>3. group' = [group EXCEPT ![c] = x]  OBVIOUS
<1> HIDE DEF r
<1>4. GroupOK(x) /\ x.at = group[c].at  BY <1>1, <1>2 DEF GroupOK
<1> HIDE DEF x
<1>5. DOMAIN group' = Groups /\ \A g \in Groups : group'[g] = IF g = c THEN x ELSE group[g]  BY <1>1, <1>3
<1>6. \A g \in Groups : GroupOK(group'[g])  BY <1>4, <1>5 DEF GroupsOK
<1>7. GroupsOK'  BY <1>5, <1>6 DEF GroupsOK, GroupOK
<1> QED  BY <1>4, <1>5, <1>7 DEF SameAts

\* What UpstreamStatuses remembers besides its place.
SameRest == /\ status'.left = status.left /\ status'.addr = status.addr /\ status'.uc = status.uc
            /\ status'.report = status.report

LEMMA PostStep ==
  ASSUME GroupsOK, StatusOK, NEW c \in Callers, NEW a \in Addresses, Post(c, a), Len(object') = Len(object)
  PROVE  /\ GroupsOK' /\ StatusOK' /\ SameAts /\ SameRest
         /\ status'.at = IF c = "status" THEN "requests" ELSE status.at
<1>1. CASE c \in Groups
  <2>1. GroupsOK' /\ SameAts  BY <1>1, ResultStep DEF Post
  <2>2. status' = status /\ c # "status"  BY <1>1, UpstreamsConstants DEF Post
  <2>3. StatusOK'  BY <2>2 DEF StatusOK, Report
  <2> QED  BY <2>1, <2>2, <2>3 DEF SameRest
<1>2. CASE c \notin Groups
  <2>1. group' = group /\ status' = [status EXCEPT !.at = "requests"]  BY <1>2 DEF Post
  <2>2. GroupsOK' /\ SameAts  BY <2>1 DEF GroupsOK, GroupOK, SameAts
  <2>3. StatusOK' /\ SameRest /\ status'.at = "requests"  BY <2>1 DEF StatusOK, SameRest, Report
  <2> QED  BY <1>2, <2>2, <2>3 DEF Callers
<1> QED  BY <1>1, <1>2

LEMMA CallKeeps ==
  ASSUME IInv, NEW c \in Callers, NEW a \in Addresses, Only(c, a), ask[c][a].at # "off", Standing(ask'[c][a]),
         SameAts, status'.left = status.left, status'.at = "new" => status.at = "new"
  PROVE  Standings' /\ NotYet'
<1>1. Standings /\ NotYet  BY DEF IInv
<1>2. \A d \in Callers, e \in Addresses : Standing(ask'[d][e])  BY <1>1 DEF Only, Standings
<1>3. \A g \in Groups : group'[g].at = "new" => \A e \in Addresses : ask'[g][e].at = "off"
  BY <1>1 DEF NotYet, SameAts, Only, Callers
<1>4. \A e \in Addresses : status'.at = "new" \/ e \in status'.left => ask'["status"][e].at = "off"
  BY <1>1 DEF NotYet, Only, Callers
<1>5. Standings'  BY <1>2 DEF Standings, Standing, Told
<1> QED  BY <1>3, <1>4, <1>5 DEF NotYet

LEMMA ProbingKept ==
  ASSUME IInv, NEW c \in Callers, NEW a \in Addresses, Only(c, a), upstreams' = upstreams,
         status'.left = status.left, status'.addr = status.addr, status'.uc = status.uc,
         ask[c][a].at \in {"find", "sent", "outcome"}, ask'[c][a].at \in {"sent", "outcome", "posted"},
         ask'[c][a].i \in {ask[c][a].i, upstreams[a]},
         status'.at = IF c = "status" /\ ask'[c][a].at = "posted" THEN "requests" ELSE status.at
  PROVE  Probing'
<1>1. Probing  BY DEF IInv
<1>2. CASE c = "status"
  <2>1. status.at = "probing" /\ a = status.addr  BY <1>1, <1>2 DEF Probing
  <2>2. /\ status.addr \in Addresses /\ status.uc = upstreams[status.addr] /\ status.uc # 0
        /\ ask["status"][status.addr].i \in {0, status.uc}
    BY <1>1, <2>1 DEF Probing
  <2>3. \A e \in Addresses : e # a => ask'["status"][e] = ask["status"][e]  BY <1>2 DEF Only, Callers
  <2>4. \A e \in Addresses : ask'["status"][e].at \in {"find", "sent", "outcome"} => e = a /\ ask'["status"][a].at # "posted"
    BY <1>1, <2>1, <2>3 DEF Probing
  <2>5. ask'["status"][a].i \in {0, status.uc}  BY <1>2, <2>1, <2>2
  <2>6. CASE ask'[c][a].at = "posted"
    <3>1. status'.at = "requests"  BY <1>2, <2>6
    <3> QED  BY <1>1, <1>2, <2>1, <2>2, <2>4, <2>5, <2>6, <3>1 DEF Probing
  <2>7. CASE ask'[c][a].at # "posted"
    <3>1. status'.at = "probing"  BY <2>1, <2>7
    <3> QED  BY <1>1, <1>2, <2>1, <2>2, <2>4, <2>5, <3>1 DEF Probing
  <2> QED  BY <2>6, <2>7
<1>3. CASE c # "status"
  <2>1. \A e \in Addresses : ask'["status"][e] = ask["status"][e]  BY <1>3 DEF Only, Callers
  <2>2. status'.at = status.at  BY <1>3
  <2> QED  BY <1>1, <2>1, <2>2 DEF Probing
<1> QED  BY <1>2, <1>3

LEMMA ReportsKept ==
  ASSUME IInv, NEW c \in Callers, NEW a \in Addresses, Only(c, a), ask[c][a].at # "posted", SameRest,
         status'.at = status.at \/ (status.at # "counters" /\ status'.at # "counters"),
         \A j \in 1..Len(object) : object'[j].successes = object[j].successes /\ object'[j].failures = object[j].failures
  PROVE  Reports'
<1>1. Reports /\ Probing /\ StatusOK /\ ObjectsOK  BY TypeParts DEF IInv
<1>2. \A e \in Addresses : (status'.at = "counters" /\ e = status'.addr) \/ Fine(status'.report[e])
  BY <1>1 DEF Reports, SameRest
<1>3. CASE status'.at # "counters"  BY <1>2, <1>3 DEF Reports, Fine
<1>4. CASE status'.at = "counters"
  <2>1. status.at = "counters"  BY <1>4
  <2>2. status.addr \in Addresses /\ status.uc # 0 /\ ask["status"][status.addr].at = "posted"  BY <1>1, <2>1 DEF Probing
  <2>3. status.uc \in 1..Len(object)  BY <1>1, <2>2, LenProperties DEF StatusOK, ObjectsOK
  <2>4. ask'["status"][status.addr] = ask["status"][status.addr]  BY <2>2 DEF Only, Callers
  <2>5. /\ object'[status.uc].successes = object[status.uc].successes
        /\ object'[status.uc].failures = object[status.uc].failures
    BY <2>3
  <2>6. /\ status.report[status.addr].up => ask["status"][status.addr].why = "answer"
        /\ object[status.uc].successes + object[status.uc].failures
             <= status.report[status.addr].requests + status.report[status.addr].late
    BY <1>1, <2>1 DEF Reports
  <2> QED  BY <1>2, <2>4, <2>5, <2>6 DEF Reports, SameRest, Fine
<1> QED  BY <1>3, <1>4

LEMMA ClientKept ==
  ASSUME ClientOK, UNCHANGED client, Len(object') = Len(object) PROVE ClientOK' /\ upstreams' = upstreams
BY DEF ClientOK, client

LEMMA CallType ==
  ASSUME AsksOK, NEW c \in Callers, NEW a \in Addresses, NEW x \in Call, ask' = [ask EXCEPT ![c][a] = x],
         Len(object') = Len(object)
  PROVE  AsksOK' /\ Only(c, a) /\ ask'[c][a] = x
<1>1. ask' \in [Callers -> [Addresses -> Call]] /\ Only(c, a) /\ ask'[c][a] = x  BY AskStep DEF AsksOK
<1>2. Call' = Call  BY DEF Call
<1> QED  BY <1>1, <1>2 DEF AsksOK, Callers

\* A request that is not sent.  x is the call that ends.
LEMMA CallFails ==
  ASSUME IInv, NEW c \in Callers, NEW a \in Addresses, ask[c][a].at = "find", NEW why \in {"unknown", "rejected"},
         NEW x \in Call, x.at = "posted", x.why = why, x.i = ask[c][a].i, ask' = [ask EXCEPT ![c][a] = x],
         Post(c, a), AllAlike, UNCHANGED client
  PROVE  IInv'
<1>1. ClientOK /\ ObjectsOK /\ GroupsOK /\ AsksOK /\ StatusOK /\ Standings /\ Counted /\ Len(object) \in Nat
  BY TypeParts, LenProperties DEF IInv, ObjectsOK
<1>2. ask[c][a] \in Call /\ Standing(ask[c][a])  BY <1>1 DEF AsksOK, Standings
<1>3. x.i = 0 /\ Standing(x)  BY <1>2 DEF Standing, Told
<1>4. Len(object') = Len(object) /\ ObjectsOK' /\ Sobers'  BY DEF AllAlike
<1>5. AsksOK' /\ Only(c, a) /\ ask'[c][a] = x
  <2>1. AsksOK /\ Len(object') = Len(object)  BY <1>1, <1>4
  <2> QED  BY <2>1, CallType
<1>6. ClientOK' /\ upstreams' = upstreams  BY <1>1, <1>4, ClientKept
<1>7. /\ GroupsOK' /\ StatusOK' /\ SameAts /\ SameRest
      /\ status'.at = IF c = "status" THEN "requests" ELSE status.at
  BY <1>1, <1>4, PostStep
<1>8. TypeOK'  BY <1>4, <1>5, <1>6, <1>7, TypePartsNext
<1>9. Standings' /\ NotYet'  BY <1>3, <1>5, <1>7, CallKeeps DEF SameRest
<1>10. Counted'
  <2>1. Uncounted(ask[c][a]) /\ Uncounted(x)  BY <1>3 DEF Uncounted
  <2>2. \A d \in Callers, e \in Addresses :
          ask'[d][e] = ask[d][e] \/ (Uncounted(ask[d][e]) /\ Uncounted(ask'[d][e]))
    BY <1>5, <2>1 DEF Only
  <2> QED  BY <1>1, <2>2, CountedKept
<1>11. Probing'  BY <1>5, <1>6, <1>7, ProbingKept DEF SameRest
<1>12. Reports'
  <2>1. \A j \in 1..Len(object) : object'[j].successes = object[j].successes /\ object'[j].failures = object[j].failures
    BY DEF AllAlike, Alike
  <2>2. status'.at = status.at \/ (status.at # "counters" /\ status'.at # "counters")
    <3>1. c = "status" => status.at = "probing"  BY DEF IInv, Probing
    <3> QED  BY <1>7, <3>1
  <2> QED  BY <1>5, <1>7, <2>1, <2>2, ReportsKept
<1> QED  BY <1>4, <1>8, <1>9, <1>10, <1>11, <1>12 DEF IInv

LEMMA FindFails ==
  ASSUME IInv, NEW c \in Callers, NEW a \in Addresses, ask[c][a].at = "find", NEW why \in {"unknown", "rejected"},
         ask' = [ask EXCEPT ![c][a].at = "posted", ![c][a].why = why], Post(c, a), AllAlike, UNCHANGED client
  PROVE  IInv'
<1>1. PICK x : x = [ask[c][a] EXCEPT !.at = "posted", !.why = why]  OBVIOUS
<1>2. AsksOK /\ ask[c][a] \in Call  BY TypeParts DEF IInv, AsksOK
<1>3. ask' = [ask EXCEPT ![c][a] = x]  BY <1>1, <1>2 DEF AsksOK
<1>4. x \in Call /\ x.at = "posted" /\ x.why = why /\ x.i = ask[c][a].i  BY <1>1, <1>2 DEF Call
<1> QED  BY <1>3, <1>4, CallFails

\* A request that is sent, through the upstream's present object.
LEMMA FindSends ==
  ASSUME IInv, NEW c \in Callers, NEW a \in Addresses, ask[c][a].at = "find", upstreams[a] # 0,
         ask' = [ask EXCEPT ![c][a].at = "sent", ![c][a].i = upstreams[a]],
         AllAlike, UNCHANGED client, UNCHANGED <<group, status>>
  PROVE  IInv'
<1> DEFINE x == [ask[c][a] EXCEPT !.at = "sent", !.i = upstreams[a]]
<1>1. ClientOK /\ ObjectsOK /\ GroupsOK /\ AsksOK /\ StatusOK /\ Standings /\ Counted /\ Len(object) \in Nat
  BY TypeParts, LenProperties DEF IInv, ObjectsOK
<1>2. ask[c][a] \in Call /\ Standing(ask[c][a]) /\ upstreams[a] \in 0..Len(object)
  BY <1>1 DEF AsksOK, Standings, ClientOK
<1>3. x \in Call /\ x.at = "sent" /\ x.why = ask[c][a].why /\ x.i = upstreams[a]  BY <1>2 DEF Call
<1>4. Standing(x)  BY <1>2, <1>3 DEF Standing, Told
<1>5. ask' = [ask EXCEPT ![c][a] = x]  BY <1>1 DEF AsksOK
<1> HIDE DEF x
<1>6. Len(object') = Len(object) /\ ObjectsOK' /\ Sobers'  BY DEF AllAlike
<1>7. AsksOK' /\ Only(c, a) /\ ask'[c][a] = x
  <2>1. AsksOK /\ x \in Call /\ Len(object') = Len(object)  BY <1>1, <1>3, <1>6
  <2> QED  BY <1>5, <2>1, CallType
<1>8. ClientOK' /\ upstreams' = upstreams  BY <1>1, <1>6, ClientKept
<1>9. GroupsOK' /\ StatusOK' /\ SameAts /\ SameRest /\ status' = status
  BY <1>1, <1>6 DEF GroupsOK, GroupOK, StatusOK, Report, SameAts, SameRest
<1>10. TypeOK'  BY <1>6, <1>7, <1>8, <1>9, TypePartsNext
<1>11. Standings' /\ NotYet'  BY <1>4, <1>7, <1>9, CallKeeps
<1>12. Counted'
  <2>1. Uncounted(ask[c][a]) /\ Uncounted(x)  BY <1>3 DEF Uncounted
  <2>2. \A d \in Callers, e \in Addresses :
          ask'[d][e] = ask[d][e] \/ (Uncounted(ask[d][e]) /\ Uncounted(ask'[d][e]))
    BY <1>7, <2>1 DEF Only
  <2> QED  BY <1>1, <2>2, CountedKept
<1>13. Probing'  BY <1>3, <1>7, <1>8, <1>9, ProbingKept
<1>14. Reports'
  <2>1. \A j \in 1..Len(object) : object'[j].successes = object[j].successes /\ object'[j].failures = object[j].failures
    BY DEF AllAlike, Alike
  <2> QED  BY <1>7, <1>9, <2>1, ReportsKept
<1> QED  BY <1>6, <1>10, <1>11, <1>12, <1>13, <1>14 DEF IInv

LEMMA FindInv == ASSUME IInv, NEW c \in Callers, NEW a \in Addresses, Find(c, a) PROVE IInv'
<1> DEFINE i == upstreams[a]
           b == HalfOpen(object[i].b)
<1>1. ask[c][a].at = "find" /\ UNCHANGED client  BY DEF Find
<1>2. CASE i = 0
  <2>1. /\ ask' = [ask EXCEPT ![c][a].at = "posted", ![c][a].why = "unknown"] /\ Post(c, a) /\ object' = object
    BY <1>2 DEF Find
  <2>2. AllAlike  BY <2>1, AlikeSame
  <2> QED  BY <1>1, <2>1, <2>2, FindFails
<1>3. CASE i # 0
  <2>1. ClientOK /\ ObjectsOK  BY TypeParts DEF IInv
  <2>2. i \in 1..Len(object)  BY <1>3, <2>1, LenProperties DEF ClientOK, ObjectsOK
  <2>3. object[i] \in Object  BY <2>1, <2>2, ElementOfSeq DEF ObjectsOK
  <2>4. object[i].b \in BreakerType  BY <2>3 DEF Object
  <2>5. /\ b \in BreakerType /\ b.consecutiveFails = object[i].b.consecutiveFails /\ b.trips = object[i].b.trips
        /\ b.state # "closed" => object[i].b.state # "closed"
    BY <2>4, HalfOpenIs
  <2>6. /\ object' = [object EXCEPT ![i].b = b]
        /\ \/ /\ ask' = [ask EXCEPT ![c][a].at = "posted", ![c][a].why = "rejected"] /\ Post(c, a)
           \/ /\ ask' = [ask EXCEPT ![c][a].at = "sent", ![c][a].i = i] /\ UNCHANGED <<group, status>>
    BY <1>3 DEF Find
  <2> HIDE DEF b
  <2>7. AllAlike  BY <2>2, <2>5, <2>6, AlikeBreaker
  <2>8. CASE ask' = [ask EXCEPT ![c][a].at = "posted", ![c][a].why = "rejected"] /\ Post(c, a)
    BY <1>1, <2>7, <2>8, FindFails
  <2>9. CASE ask' = [ask EXCEPT ![c][a].at = "sent", ![c][a].i = i] /\ UNCHANGED <<group, status>>
    BY <1>1, <1>3, <2>7, <2>9, FindSends
  <2> QED  BY <2>6, <2>8, <2>9
<1> QED  BY <1>2, <1>3

\* The counters of the other objects do not change.
LEMMA CountedElsewhere ==
  ASSUME Counted, NEW c \in Callers, NEW a \in Addresses, Only(c, a), ask'[c][a].i = ask[c][a].i,
         Len(object') = Len(object), NEW i \in 1..Len(object), i = ask[c][a].i,
         \A j \in 1..Len(object) : j # i => object'[j] = object[j], Counts(object[i], i)'
  PROVE  Counted'
<1> SUFFICES ASSUME NEW j \in 1..Len(object), j # i PROVE Counts(object[j], j)'  BY DEF Counted
<1>1. ASSUME NEW ats, NEW whys PROVE CountAsks(j, ats, whys)' = CountAsks(j, ats, whys)
  <2>1. ~In(ask'[c][a], j, ats, whys) /\ ~In(ask[c][a], j, ats, whys)  BY DEF In
  <2> QED  BY <2>1, CountStaysOnly
<1>2. Counts(object[j], j) /\ object'[j] = object[j]  BY DEF Counted
<1>3. /\ CountAsks(j, {"outcome", "posted"}, Told)' = CountAsks(j, {"outcome", "posted"}, Told)
      /\ CountAsks(j, {"posted"}, {"answer"})' = CountAsks(j, {"posted"}, {"answer"})
      /\ CountAsks(j, {"posted"}, {"failed", "timeout"})' = CountAsks(j, {"posted"}, {"failed", "timeout"})
      /\ CountAsks(j, {"posted"}, {"timeout"})' = CountAsks(j, {"posted"}, {"timeout"})
  BY <1>1
<1> QED  BY <1>2, <1>3 DEF Counts, Told

\* A request is over and counted.
LEMMA EndsInv ==
  ASSUME IInv, NEW c \in Callers, NEW a \in Addresses, NEW why \in Told, NEW ns \in Latencies \cup {0},
         why = "answer" => ns \in Latencies, Ends(c, a, why, ns)
  PROVE  IInv'
<1> PICK i : i = ask[c][a].i  OBVIOUS
<1> DEFINE x == [ask[c][a] EXCEPT !.at = "outcome", !.why = why, !.latency = ns]
           n == object[i].requests + 1
           o == [object[i] EXCEPT !.requests = n]
<1>1. ClientOK /\ ObjectsOK /\ GroupsOK /\ AsksOK /\ StatusOK /\ Standings /\ Counted /\ Sobers /\ Len(object) \in Nat
  BY TypeParts, LenProperties DEF IInv, ObjectsOK
<1>2. ask[c][a] \in Call /\ Standing(ask[c][a]) /\ ask[c][a].at = "sent"  BY <1>1 DEF AsksOK, Standings, Ends
<1>3. i \in 0..Len(object) /\ i # 0  BY <1>2 DEF Call, Standing
<1>4. i \in 1..Len(object)  BY <1>1, <1>3
<1>5. object[i] \in Object /\ object \in Seq(Object) /\ Sized(object[i]) /\ Sober(object[i])
  BY <1>1, <1>4, ElementOfSeq DEF ObjectsOK, Sobers
<1>6. n \in Nat
  <2>1. object[i].requests \in Nat  BY <1>5 DEF Object
  <2> QED  BY <2>1
<1>7. why \in {"none", "unknown", "rejected", "answer", "failed", "timeout"}  BY DEF Told
<1>8. x \in Call /\ x.at = "outcome" /\ x.why = why /\ x.i = i /\ x.latency = ns  BY <1>2, <1>7 DEF Call
<1>9. Standing(x)  BY <1>3, <1>8 DEF Standing
<1>10. ask' = [ask EXCEPT ![c][a] = x]  BY <1>1 DEF AsksOK, Ends
<1>11. object' = [object EXCEPT ![i] = o]  BY <1>4, <1>5 DEF Ends
<1>12. UNCHANGED client /\ UNCHANGED <<group, status>>  BY DEF Ends
<1> HIDE DEF x, n
<1>13. /\ o \in Object /\ o.b = object[i].b /\ o.latencies = object[i].latencies /\ o.requests = n
       /\ o.successes = object[i].successes /\ o.failures = object[i].failures /\ o.timeouts = object[i].timeouts
  BY <1>5, <1>6 DEF Object
<1>14. Sized(o) /\ Sober(o)  BY <1>5, <1>13 DEF Sized, Sober
<1> HIDE DEF o
<1>15. /\ object' \in Seq(Object) /\ Len(object') = Len(object) /\ object'[i] = o
       /\ \A j \in 1..Len(object) : j # i => object'[j] = object[j]
  BY <1>4, <1>5, <1>11, <1>13, ObjectStep
<1>16. ObjectsOK' /\ Sobers'
  <2>1. \A j \in 1..Len(object) : Sized(object'[j]) /\ Sober(object'[j])
    BY <1>1, <1>14, <1>15 DEF ObjectsOK, Sobers
  <2>2. ObjectsOK'  BY <1>15, <2>1 DEF ObjectsOK, Object, Sized
  <2> QED  BY <1>15, <2>1, <2>2 DEF Sobers, Sober
<1>17. AsksOK' /\ Only(c, a) /\ ask'[c][a] = x
  <2>1. AsksOK /\ x \in Call /\ Len(object') = Len(object)  BY <1>1, <1>8, <1>15
  <2> QED  BY <1>10, <2>1, CallType
<1>18. ClientOK' /\ upstreams' = upstreams  BY <1>1, <1>12, <1>15, ClientKept
<1>19. GroupsOK' /\ StatusOK' /\ SameAts /\ SameRest /\ status' = status
  BY <1>1, <1>12, <1>15 DEF GroupsOK, GroupOK, StatusOK, Report, SameAts, SameRest
<1>20. TypeOK'  BY <1>16, <1>17, <1>18, <1>19, TypePartsNext
<1>21. Standings' /\ NotYet'  BY <1>2, <1>9, <1>17, <1>19, CallKeeps
<1>22. Counted'
  <2>1. Counts(object[i], i)  BY <1>1, <1>4 DEF Counted
  <2>2. ~In(ask[c][a], i, {"outcome", "posted"}, Told) /\ In(ask'[c][a], i, {"outcome", "posted"}, Told)
    BY <1>2, <1>8, <1>17 DEF In
  <2>3. CountAsks(i, {"outcome", "posted"}, Told)' = CountAsks(i, {"outcome", "posted"}, Told) + 1
    BY <1>17, <2>2, CountGrows
  <2>4. ASSUME NEW whys PROVE CountAsks(i, {"posted"}, whys)' = CountAsks(i, {"posted"}, whys)
    <3>1. ~In(ask[c][a], i, {"posted"}, whys) /\ ~In(ask'[c][a], i, {"posted"}, whys)  BY <1>2, <1>8, <1>17 DEF In
    <3> QED  BY <1>17, <3>1, CountStaysOnly
  <2>5. /\ CountAsks(i, {"posted"}, {"answer"})' = CountAsks(i, {"posted"}, {"answer"})
        /\ CountAsks(i, {"posted"}, {"failed", "timeout"})' = CountAsks(i, {"posted"}, {"failed", "timeout"})
        /\ CountAsks(i, {"posted"}, {"timeout"})' = CountAsks(i, {"posted"}, {"timeout"})
    BY <2>4
  <2>6. object'[i].requests = object[i].requests + 1  BY <1>13, <1>15 DEF n
  <2>7. Counts(object[i], i)'  BY <1>13, <1>15, <2>1, <2>3, <2>5, <2>6 DEF Counts, Told
  <2>8. ask'[c][a].i = ask[c][a].i  BY <1>8, <1>17
  <2> QED  BY <1>1, <1>4, <1>15, <1>17, <2>7, <2>8, CountedElsewhere
<1>23. Probing'  BY <1>2, <1>8, <1>17, <1>18, <1>19, ProbingKept
<1>24. Reports'
  <2>1. \A j \in 1..Len(object) : object'[j].successes = object[j].successes /\ object'[j].failures = object[j].failures
    BY <1>13, <1>15
  <2> QED  BY <1>2, <1>17, <1>19, <2>1, ReportsKept
<1> QED  BY <1>16, <1>20, <1>21, <1>22, <1>23, <1>24 DEF IInv

\* A snapshot under way learns that an object it reads is overtaken.
LEMMA OvertakesIs ==
  ASSUME IInv, NEW i, status' = Overtakes(i), Len(object') = Len(object)
  PROVE  /\ StatusOK' /\ status'.at = status.at /\ status'.left = status.left
         /\ status'.addr = status.addr /\ status'.uc = status.uc
         /\ \A e \in Addresses : \/ status'.report[e] = status.report[e]
                                 \/ status.at = "counters" /\ e = status.addr
         /\ status.at = "counters" =>
              /\ status'.report[status.addr].up = status.report[status.addr].up
              /\ status'.report[status.addr].requests = status.report[status.addr].requests
              /\ status'.report[status.addr].late = IF status.uc = i THEN status.report[status.addr].late + 1
                                                    ELSE status.report[status.addr].late
<1>1. StatusOK /\ Probing  BY TypeParts DEF IInv
<1>2. CASE ~(status.at = "counters" /\ status.uc = i)
  <2>1. status' = status  BY <1>2 DEF Overtakes
  <2> QED  BY <1>1, <1>2, <2>1 DEF StatusOK, Report
<1>3. CASE status.at = "counters" /\ status.uc = i
  <2> DEFINE e == status.addr
             n == status.report[e].late + 1
             r == [status.report[e] EXCEPT !.late = n]
             m == [status.report EXCEPT ![e] = r]
  <2>1. e \in Addresses  BY <1>1, <1>3 DEF Probing
  <2>2. status.report \in [Addresses -> Report] /\ status.report[e] \in Report  BY <1>1, <2>1 DEF StatusOK
  <2>3. n \in Nat
    <3>1. status.report[e].late \in Nat  BY <2>2 DEF Report
    <3> QED  BY <3>1
  <2>4. status' = [status EXCEPT !.report = m]  BY <1>1, <1>3, <2>1, <2>2 DEF Overtakes, StatusOK
  <2> HIDE DEF n
  <2>5. r \in Report /\ r.up = status.report[e].up /\ r.requests = status.report[e].requests /\ r.late = n
    BY <2>2, <2>3 DEF Report
  <2> HIDE DEF r
  <2>6. m \in [Addresses -> Report] /\ m[e] = r /\ \A f \in Addresses : f # e => m[f] = status.report[f]
    BY <2>1, <2>2, <2>5
  <2> HIDE DEF m
  <2>7. /\ status' \in [at : {"new", "next", "probing", "requests", "counters", "done"}, left : SUBSET Addresses,
                        addr : Addresses \cup {"none"}, uc : 0..Len(object), report : [Addresses -> Report]]
        /\ status'.at = status.at /\ status'.left = status.left
        /\ status'.addr = status.addr /\ status'.uc = status.uc /\ status'.report = m
    BY <1>1, <2>4, <2>6 DEF StatusOK
  <2>8. StatusOK'  BY <2>7 DEF StatusOK, Report
  <2> QED  BY <1>3, <2>5, <2>6, <2>7, <2>8 DEF n
<1> QED  BY <1>2, <1>3

\* The counters of an object when an outcome is recorded in it.
LEMMA CountedRecord ==
  ASSUME Counted, NEW c \in Callers, NEW a \in Addresses, Only(c, a), ask[c][a].at = "outcome",
         ask'[c][a].at = "posted", ask'[c][a].why = ask[c][a].why, ask'[c][a].i = ask[c][a].i,
         NEW why \in Told, ask[c][a].why = why,
         Len(object') = Len(object), NEW i \in 1..Len(object), i = ask[c][a].i,
         \A j \in 1..Len(object) : j # i => object'[j] = object[j],
         object'[i].requests = object[i].requests,
         object'[i].successes = IF why = "answer" THEN object[i].successes + 1 ELSE object[i].successes,
         object'[i].failures = IF why = "answer" THEN object[i].failures ELSE object[i].failures + 1,
         object'[i].timeouts = IF why = "timeout" THEN object[i].timeouts + 1 ELSE object[i].timeouts
  PROVE  Counted'
<1>1. Counts(object[i], i)  BY DEF Counted
<1>2. CountAsks(i, {"outcome", "posted"}, Told)' = CountAsks(i, {"outcome", "posted"}, Told)
  <2>1. In(ask[c][a], i, {"outcome", "posted"}, Told) /\ In(ask'[c][a], i, {"outcome", "posted"}, Told)  BY DEF In
  <2>2. PICK ats : ats = {"outcome", "posted"}  OBVIOUS
  <2>3. In(ask'[c][a], i, ats, Told) <=> In(ask[c][a], i, ats, Told)  BY <2>1, <2>2
  <2>4. CountAsks(i, ats, Told)' = CountAsks(i, ats, Told)  BY <2>3, CountStaysOnly
  <2> QED  BY <2>2, <2>4
<1>3. ASSUME NEW whys
      PROVE  CountAsks(i, {"posted"}, whys)' = IF why \in whys THEN CountAsks(i, {"posted"}, whys) + 1
                                               ELSE CountAsks(i, {"posted"}, whys)
  <2>1. ~In(ask[c][a], i, {"posted"}, whys) /\ (In(ask'[c][a], i, {"posted"}, whys) <=> why \in whys)  BY DEF In
  <2>2. CASE why \in whys
    <3>1. In(ask'[c][a], i, {"posted"}, whys)  BY <2>1, <2>2
    <3>2. CountAsks(i, {"posted"}, whys)' = CountAsks(i, {"posted"}, whys) + 1  BY <2>1, <3>1, CountGrows
    <3> QED  BY <2>2, <3>2
  <2>3. CASE why \notin whys
    <3>1. CountAsks(i, {"posted"}, whys)' = CountAsks(i, {"posted"}, whys)  BY <2>1, <2>3, CountStaysOnly
    <3> QED  BY <2>3, <3>1
  <2> QED  BY <2>2, <2>3
<1>4. /\ CountAsks(i, {"posted"}, {"answer"})'
           = IF why \in {"answer"} THEN CountAsks(i, {"posted"}, {"answer"}) + 1
             ELSE CountAsks(i, {"posted"}, {"answer"})
      /\ CountAsks(i, {"posted"}, {"failed", "timeout"})'
           = IF why \in {"failed", "timeout"} THEN CountAsks(i, {"posted"}, {"failed", "timeout"}) + 1
             ELSE CountAsks(i, {"posted"}, {"failed", "timeout"})
      /\ CountAsks(i, {"posted"}, {"timeout"})'
           = IF why \in {"timeout"} THEN CountAsks(i, {"posted"}, {"timeout"}) + 1
             ELSE CountAsks(i, {"posted"}, {"timeout"})
  BY <1>3
<1>5. (why \in {"failed", "timeout"} <=> why # "answer") /\ (why \in {"answer"} <=> why = "answer")
  BY DEF Told
<1>6. Counts(object[i], i)'
  <2>1. object'[i].requests = CountAsks(i, {"outcome", "posted"}, Told)'  BY <1>1, <1>2 DEF Counts
  <2>2. object'[i].successes = CountAsks(i, {"posted"}, {"answer"})'  BY <1>1, <1>4, <1>5 DEF Counts
  <2>3. object'[i].failures = CountAsks(i, {"posted"}, {"failed", "timeout"})'  BY <1>1, <1>4, <1>5 DEF Counts
  <2>4. object'[i].timeouts = CountAsks(i, {"posted"}, {"timeout"})'  BY <1>1, <1>4 DEF Counts
  <2> QED  BY <2>1, <2>2, <2>3, <2>4 DEF Counts, Told
<1> QED  BY <1>6, CountedElsewhere

\* A result is recorded in the object its request went through, and is posted.
LEMMA RecordInv == ASSUME IInv, NEW c \in Callers, NEW a \in Addresses, Record(c, a) PROVE IInv'
<1> PICK i : i = ask[c][a].i  OBVIOUS
<1> PICK why : why = ask[c][a].why  OBVIOUS
<1> PICK ns : ns = ask[c][a].latency  OBVIOUS
<1> DEFINE x == [ask[c][a] EXCEPT !.at = "posted"]
           o == Recorded(object[i], why, ns)
<1>1. ClientOK /\ ObjectsOK /\ GroupsOK /\ AsksOK /\ StatusOK /\ Standings /\ Counted /\ Sobers /\ Len(object) \in Nat
  BY TypeParts, LenProperties DEF IInv, ObjectsOK
<1>2. ask[c][a] \in Call /\ Standing(ask[c][a]) /\ ask[c][a].at = "outcome"  BY <1>1 DEF AsksOK, Standings, Record
<1>3. /\ i \in 0..Len(object) /\ i # 0 /\ why \in Told
      /\ why = "answer" => ns \in Latencies
  BY <1>2 DEF Call, Standing
<1>4. i \in 1..Len(object)  BY <1>1, <1>3
<1>5. object[i] \in Object /\ object \in Seq(Object) /\ Sized(object[i]) /\ Sober(object[i])
  BY <1>1, <1>4, ElementOfSeq DEF ObjectsOK, Sobers
<1>6. x \in Call /\ x.at = "posted" /\ x.why = why /\ x.i = i  BY <1>2 DEF Call
<1>7. Standing(x)  BY <1>3, <1>6 DEF Standing
<1>8. ask' = [ask EXCEPT ![c][a] = x]  BY <1>1 DEF AsksOK, Record
<1>9. object' = [object EXCEPT ![i] = o]  BY <1>4, <1>5 DEF Record
<1>10. UNCHANGED client  BY DEF Record
<1>11. /\ o \in Object /\ Sized(o) /\ Sober(o) /\ o.requests = object[i].requests
       /\ o.successes = IF why = "answer" THEN object[i].successes + 1 ELSE object[i].successes
       /\ o.failures = IF why = "answer" THEN object[i].failures ELSE object[i].failures + 1
       /\ o.timeouts = IF why = "timeout" THEN object[i].timeouts + 1 ELSE object[i].timeouts
  <2> HIDE DEF x
  <2>1. PICK was : was = object[i]  OBVIOUS
  <2>2. was \in Object /\ Sized(was) /\ Sober(was)  BY <1>5, <2>1
  <2>3. /\ Recorded(was, why, ns) \in Object /\ Sized(Recorded(was, why, ns)) /\ Sober(Recorded(was, why, ns))
        /\ Recorded(was, why, ns).requests = was.requests
        /\ Recorded(was, why, ns).successes = IF why = "answer" THEN was.successes + 1 ELSE was.successes
        /\ Recorded(was, why, ns).failures = IF why = "answer" THEN was.failures ELSE was.failures + 1
        /\ Recorded(was, why, ns).timeouts = IF why = "timeout" THEN was.timeouts + 1 ELSE was.timeouts
    <3> HIDE DEF o
    <3> QED  BY <1>3, <2>2, RecordedIs
  <2>4. o = Recorded(was, why, ns)  BY <2>1
  <2> HIDE DEF o
  <2> QED  BY <2>1, <2>3, <2>4
<1> HIDE DEF x, o
<1>12. /\ object' \in Seq(Object) /\ Len(object') = Len(object) /\ object'[i] = o
       /\ \A j \in 1..Len(object) : j # i => object'[j] = object[j]
  BY <1>4, <1>5, <1>9, <1>11, ObjectStep
<1>13. ObjectsOK' /\ Sobers'
  <2>1. \A j \in 1..Len(object) : Sized(object'[j]) /\ Sober(object'[j])
    BY <1>1, <1>11, <1>12 DEF ObjectsOK, Sobers
  <2>2. ObjectsOK'  BY <1>12, <2>1 DEF ObjectsOK, Object, Sized
  <2> QED  BY <1>12, <2>1, <2>2 DEF Sobers, Sober
<1>14. AsksOK' /\ Only(c, a) /\ ask'[c][a] = x
  <2>1. AsksOK /\ x \in Call /\ Len(object') = Len(object)  BY <1>1, <1>6, <1>12
  <2> QED  BY <1>8, <2>1, CallType
<1>15. ClientOK' /\ upstreams' = upstreams  BY <1>1, <1>10, <1>12, ClientKept
<1>16. Counted'
  <2>1. /\ ask'[c][a].at = "posted" /\ ask'[c][a].why = ask[c][a].why /\ ask'[c][a].i = ask[c][a].i
        /\ ask[c][a].why = why /\ i = ask[c][a].i
    BY <1>6, <1>14
  <2>2. /\ object'[i].requests = object[i].requests
        /\ object'[i].successes = IF why = "answer" THEN object[i].successes + 1 ELSE object[i].successes
        /\ object'[i].failures = IF why = "answer" THEN object[i].failures ELSE object[i].failures + 1
        /\ object'[i].timeouts = IF why = "timeout" THEN object[i].timeouts + 1 ELSE object[i].timeouts
    BY <1>11, <1>12
  <2> QED  BY <1>1, <1>2, <1>3, <1>4, <1>12, <1>14, <2>1, <2>2, CountedRecord
<1>17. CASE c \in Groups
  <2>1. group' = [group EXCEPT ![c].results = Append(@, a)] /\ status' = Overtakes(i)  BY <1>17 DEF Record
  <2>2. GroupsOK' /\ SameAts  BY <1>1, <1>17, <2>1, ResultStep
  <2>3. /\ StatusOK' /\ status'.at = status.at /\ status'.left = status.left
        /\ status'.addr = status.addr /\ status'.uc = status.uc
        /\ \A e \in Addresses : \/ status'.report[e] = status.report[e]
                                \/ status.at = "counters" /\ e = status.addr
        /\ status.at = "counters" =>
             /\ status'.report[status.addr].up = status.report[status.addr].up
             /\ status'.report[status.addr].requests = status.report[status.addr].requests
             /\ status'.report[status.addr].late = IF status.uc = i THEN status.report[status.addr].late + 1
                                                   ELSE status.report[status.addr].late
    BY <1>12, <2>1, OvertakesIs
  <2>4. TypeOK'  BY <1>13, <1>14, <1>15, <2>2, <2>3, TypePartsNext
  <2>5. Standings' /\ NotYet'  BY <1>2, <1>7, <1>14, <2>2, <2>3, CallKeeps
  <2>6. c # "status"  BY <1>17, UpstreamsConstants
  <2>7. Probing'  BY <1>2, <1>6, <1>14, <1>15, <2>3, <2>6, ProbingKept
  <2>8. Reports'
    <3>1. Reports /\ Probing  BY DEF IInv
    <3>2. \A e \in Addresses : (status'.at = "counters" /\ e = status'.addr) \/ Fine(status'.report[e])
      BY <2>3, <3>1 DEF Reports
    <3>3. CASE status.at # "counters"  BY <2>3, <3>2, <3>3 DEF Reports, Fine
    <3>4. CASE status.at = "counters"
      <4>1. status.addr \in Addresses /\ status.uc # 0  BY <3>1, <3>4 DEF Probing
      <4>2. status.uc \in 1..Len(object) /\ status.report[status.addr] \in Report  BY <1>1, <4>1 DEF StatusOK
      <4>3. object[status.uc] \in Object  BY <1>5, <4>2, ElementOfSeq
      <4>4. /\ status.report[status.addr].requests \in Nat /\ status.report[status.addr].late \in Nat
            /\ object[status.uc].successes \in Nat /\ object[status.uc].failures \in Nat
        BY <4>2, <4>3 DEF Report, Object
      <4>5. /\ status.report[status.addr].up => ask["status"][status.addr].why = "answer"
            /\ object[status.uc].successes + object[status.uc].failures
                 <= status.report[status.addr].requests + status.report[status.addr].late
        BY <3>1, <3>4 DEF Reports
      <4>6. ask'["status"][status.addr] = ask["status"][status.addr]  BY <1>14, <2>6, <4>1 DEF Only, Callers
      <4>7. object'[status.uc].successes + object'[status.uc].failures
              = IF status.uc = i THEN object[status.uc].successes + object[status.uc].failures + 1
                ELSE object[status.uc].successes + object[status.uc].failures
        <5>1. CASE status.uc # i
          <6>1. object'[status.uc] = object[status.uc]  BY <1>12, <4>2, <5>1
          <6> QED  BY <5>1, <6>1
        <5>2. CASE status.uc = i
          <6>1. object'[status.uc].successes = IF why = "answer" THEN object[status.uc].successes + 1 ELSE object[status.uc].successes
            BY <1>11, <1>12, <5>2
          <6>2. object'[status.uc].failures = IF why = "answer" THEN object[status.uc].failures ELSE object[status.uc].failures + 1
            BY <1>11, <1>12, <5>2
          <6> QED  BY <4>4, <5>2, <6>1, <6>2
        <5> QED  BY <5>1, <5>2
      <4>8. object'[status.uc].successes + object'[status.uc].failures
              <= status'.report[status.addr].requests + status'.report[status.addr].late
        BY <2>3, <3>4, <4>4, <4>5, <4>7
      <4> QED  BY <2>3, <3>2, <3>4, <4>5, <4>6, <4>8 DEF Reports, Fine
    <3> QED  BY <3>3, <3>4
  <2> QED  BY <1>13, <1>16, <2>4, <2>5, <2>7, <2>8 DEF IInv
<1>18. CASE c \notin Groups
  <2>1. c = "status" /\ Post(c, a)  BY <1>18 DEF Record, Callers
  <2>2. /\ GroupsOK' /\ StatusOK' /\ SameAts /\ SameRest
        /\ status'.at = IF c = "status" THEN "requests" ELSE status.at
    BY <1>1, <1>12, <2>1, PostStep
  <2>3. TypeOK'  BY <1>13, <1>14, <1>15, <2>2, TypePartsNext
  <2>4. Standings' /\ NotYet'  BY <1>2, <1>7, <1>14, <2>2, CallKeeps DEF SameRest
  <2>5. Probing'  BY <1>2, <1>6, <1>14, <1>15, <2>1, <2>2, ProbingKept DEF SameRest
  <2>6. status.at = "probing"  BY <1>2, <2>1 DEF IInv, Probing
  <2>7. Reports'
    <3>1. \A e \in Addresses : Fine(status.report[e])  BY <2>6 DEF IInv, Reports
    <3> QED  BY <2>1, <2>2, <3>1 DEF Reports, Fine, SameRest
  <2> QED  BY <1>13, <1>16, <2>3, <2>4, <2>5, <2>7 DEF IInv
<1> QED  BY <1>17, <1>18
-----------------------------------------------------------------------------
\* A call of QueryGroup makes its calls of Query.
LEMMA QueryGroupInv == ASSUME IInv, NEW g \in Groups, NEW n \in Concurrencies, QueryGroup(g, n) PROVE IInv'
<1> DEFINE m == Min({n, Len(cfg)})
           s == SubSeq(cfg, 1, m)
           y == [group[g] EXCEPT !.at = "waiting", !.selected = s]
           first == [NoAsk EXCEPT !.at = "find"]
           calls == [a \in Addresses |-> IF a \in ToSet(s) THEN first ELSE NoAsk]
<1>1. ClientOK /\ ObjectsOK /\ GroupsOK /\ AsksOK /\ StatusOK /\ Counted /\ Len(object) \in Nat /\ Standings /\ NotYet /\ Probing
  BY TypeParts, LenProperties DEF IInv, ObjectsOK
<1>2. cfg \in Seq(Addresses) /\ Len(cfg) \in Nat /\ n \in Nat  BY <1>1, UpstreamsConstants, LenProperties DEF ClientOK
<1>3. m \in 0..Len(cfg)
  <2>1. n <= Len(cfg) => Min({n, Len(cfg)}) = n  BY <1>2 DEF Min
  <2>2. Len(cfg) <= n => Min({n, Len(cfg)}) = Len(cfg)  BY <1>2 DEF Min
  <2> QED  BY <1>2, <2>1, <2>2
<1> HIDE DEF m
<1>4. s \in Seq(Addresses)
  <2>1. \A k \in 1..m : cfg[k] \in Addresses  BY <1>2, <1>3, ElementOfSeq
  <2> QED  BY <1>3, <2>1, SubSeqProperties
<1>5. /\ group[g].at = "new" /\ UNCHANGED <<client, object, status>>
      /\ group' = [group EXCEPT ![g].at = "waiting", ![g].selected = s]
      /\ ask' = [ask EXCEPT ![g] = calls]
  BY DEF QueryGroup, m
<1>6. first = [at |-> "find", i |-> 0, why |-> "none", latency |-> 0]  BY DEF NoAsk
<1>7. first \in Call /\ NoAsk \in Call  BY <1>1, <1>6 DEF Call, NoAsk
<1>8. Standing(first) /\ Standing(NoAsk) /\ Uncounted(first) /\ Uncounted(NoAsk)
  BY <1>6 DEF Standing, NoAsk, Uncounted
<1> HIDE DEF s, first
<1>9. calls \in [Addresses -> Call] /\ \A a \in Addresses : calls[a] = first \/ calls[a] = NoAsk  BY <1>7
<1> HIDE DEF calls
<1>10. g \in Callers /\ g # "status" /\ "status" \in Callers  BY UpstreamsConstants DEF Callers
<1>11. /\ ask' \in [Callers -> [Addresses -> Call]] /\ ask'[g] = calls
       /\ \A d \in Callers : d # g => ask'[d] = ask[d]
  BY <1>1, <1>5, <1>9, <1>10 DEF AsksOK
<1>12. group' = [group EXCEPT ![g] = y]  BY <1>5
<1>13. GroupOK(group[g])  BY <1>1 DEF GroupsOK
<1>14. GroupOK(y) /\ y.at = "waiting"  BY <1>4, <1>13 DEF GroupOK
<1> HIDE DEF y
<1>15. DOMAIN group' = Groups /\ \A h \in Groups : group'[h] = IF h = g THEN y ELSE group[h]
  BY <1>1, <1>12 DEF GroupsOK
<1>16. AllAlike /\ object' = object  BY <1>5, AlikeSame
<1>17. TypeOK'
  <2>1. Call' = Call  BY <1>5 DEF Call
  <2>2. AsksOK'  BY <1>11, <2>1 DEF AsksOK, Callers
  <2>3. GroupsOK'  BY <1>1, <1>14, <1>15 DEF GroupsOK, GroupOK
  <2>4. ClientOK'  BY <1>1, <1>5, ClientKept
  <2>5. StatusOK'  BY <1>1, <1>5 DEF StatusOK, Report
  <2>6. ObjectsOK'  BY <1>16 DEF AllAlike
  <2> QED  BY <2>2, <2>3, <2>4, <2>5, <2>6, TypePartsNext
<1>18. Standings'
  <2>1. \A d \in Callers, e \in Addresses : Standing(ask'[d][e])  BY <1>1, <1>8, <1>9, <1>11 DEF Standings
  <2> QED  BY <2>1 DEF Standings, Standing, Told
<1>19. NotYet'
  <2>1. \A h \in Groups : group'[h].at = "new" => \A a \in Addresses : ask'[h][a].at = "off"
    BY <1>1, <1>11, <1>14, <1>15 DEF NotYet, Callers
  <2>2. status' = status /\ ask'["status"] = ask["status"]  BY <1>5, <1>10, <1>11
  <2> QED  BY <1>1, <2>1, <2>2 DEF NotYet
<1>20. Counted'
  <2>1. \A d \in Callers, e \in Addresses :
          ask'[d][e] = ask[d][e] \/ (Uncounted(ask[d][e]) /\ Uncounted(ask'[d][e]))
    <3> SUFFICES ASSUME NEW d \in Callers, NEW e \in Addresses, d = g
                 PROVE  Uncounted(ask[d][e]) /\ Uncounted(ask'[d][e])
      BY <1>11
    <3>1. ask[g][e].at = "off"  BY <1>1, <1>5 DEF NotYet
    <3>2. Uncounted(ask[g][e])  BY <3>1 DEF Uncounted
    <3>3. Uncounted(ask'[g][e])  BY <1>8, <1>9, <1>11
    <3> QED  BY <3>2, <3>3
  <2> QED  BY <1>1, <1>16, <2>1, CountedKept
<1>21. Probing' /\ Reports'
  <2>1. status' = status /\ ask'["status"] = ask["status"] /\ upstreams' = upstreams
    BY <1>5, <1>10, <1>11 DEF client
  <2>2. Probing'  BY <1>1, <2>1 DEF Probing
  <2>3. Reports  BY DEF IInv
  <2>4. Reports'  BY <1>16, <2>1, <2>3 DEF Reports, Fine
  <2> QED  BY <2>2, <2>4
<1>22. Sobers'  BY <1>16 DEF AllAlike
<1> QED  BY <1>17, <1>18, <1>19, <1>20, <1>21, <1>22 DEF IInv

\* A step that makes no call and changes no object.
LEMMA QuietKept ==
  ASSUME IInv, ask' = ask, object' = object
  PROVE  ObjectsOK' /\ AsksOK' /\ Standings' /\ Sobers' /\ Counted'
<1>1. ObjectsOK /\ AsksOK /\ Standings /\ Counted /\ Len(object) \in Nat  BY TypeParts, LenProperties DEF IInv, ObjectsOK
<1>2. AllAlike  BY AlikeSame
<1>3. Counted'
  <2>1. \A d \in Callers, e \in Addresses : ask'[d][e] = ask[d][e]  OBVIOUS
  <2> QED  BY <1>1, <1>2, <2>1, CountedKept
<1>4. AsksOK'
  <2>1. Call' = Call  BY DEF Call
  <2> QED  BY <1>1, <2>1 DEF AsksOK, Callers
<1>5. Standings'  BY <1>1 DEF Standings, Standing, Told
<1> QED  BY <1>2, <1>3, <1>4, <1>5 DEF AllAlike

\* QueryGroup returns.
LEMMA ReturnInv == ASSUME IInv, NEW g \in Groups, Return(g) PROVE IInv'
<1>1. ClientOK /\ GroupsOK /\ StatusOK /\ NotYet /\ Probing /\ Reports  BY TypeParts DEF IInv
<1>2. UNCHANGED <<client, object, ask, status>>  BY DEF Return
<1>3. PICK best : group' = [group EXCEPT ![g].at = "done", ![g].best = best]  BY DEF Return
<1> DEFINE y == [group[g] EXCEPT !.at = "done", !.best = best]
<1>4. group' = [group EXCEPT ![g] = y] /\ GroupOK(group[g])  BY <1>1, <1>3 DEF GroupsOK
<1>5. GroupOK(y) /\ y.at = "done"  BY <1>4 DEF GroupOK
<1> HIDE DEF y
<1>6. DOMAIN group' = Groups /\ \A h \in Groups : group'[h] = IF h = g THEN y ELSE group[h]
  BY <1>1, <1>4 DEF GroupsOK
<1>7. ObjectsOK' /\ AsksOK' /\ Standings' /\ Sobers' /\ Counted'  BY <1>2, QuietKept
<1>8. GroupsOK'  BY <1>1, <1>5, <1>6 DEF GroupsOK, GroupOK
<1>9. ClientOK' /\ upstreams' = upstreams  BY <1>1, <1>2, ClientKept
<1>10. StatusOK'  BY <1>1, <1>2 DEF StatusOK, Report
<1>11. TypeOK'  BY <1>7, <1>8, <1>9, <1>10, TypePartsNext
<1>12. NotYet'
  <2>1. \A h \in Groups : group'[h].at = "new" => \A a \in Addresses : ask'[h][a].at = "off"
    BY <1>1, <1>2, <1>5, <1>6 DEF NotYet
  <2> QED  BY <1>1, <1>2, <2>1 DEF NotYet
<1>13. Probing' /\ Reports'
  <2>1. Probing'  BY <1>1, <1>2, <1>9 DEF Probing
  <2>2. Reports'  BY <1>1, <1>2 DEF Reports, Fine
  <2> QED  BY <2>1, <2>2
<1> QED  BY <1>7, <1>11, <1>12, <1>13 DEF IInv

\* A new configuration is installed.
LEMMA UpdateConfigInv == ASSUME IInv, NEW c \in Configs, UpdateConfig(c) PROVE IInv'
<1>1. ClientOK /\ GroupsOK /\ StatusOK /\ NotYet /\ Probing /\ Reports  BY TypeParts DEF IInv
<1>2. UNCHANGED <<locking, upstreams, object, group, ask, status>>  BY DEF UpdateConfig
<1>3. ObjectsOK' /\ AsksOK' /\ Standings' /\ Sobers' /\ Counted'  BY <1>2, QuietKept
<1>4. ClientOK'
  <2>1. cfg' = c /\ todo' = c /\ updates' = updates + 1 /\ updates < MaxUpdates  BY DEF UpdateConfig
  <2>2. c \in Seq(Addresses) /\ updates' \in 0..MaxUpdates
    BY <1>1, <2>1, UpstreamsConstants DEF ClientOK
  <2> QED  BY <1>1, <1>2, <2>1, <2>2 DEF ClientOK
<1>5. GroupsOK' /\ StatusOK'  BY <1>1, <1>2 DEF GroupsOK, GroupOK, StatusOK, Report
<1>6. TypeOK'  BY <1>3, <1>4, <1>5, TypePartsNext
<1>7. NotYet'  BY <1>1, <1>2 DEF NotYet
<1>8. Probing'  BY <1>1, <1>2 DEF Probing
<1>9. Reports'  BY <1>1, <1>2 DEF Reports, Fine
<1> QED  BY <1>3, <1>6, <1>7, <1>8, <1>9 DEF IInv

\* AddUpstream comes to its lock.
LEMMA AddUpstreamLockInv == ASSUME IInv, AddUpstreamLock PROVE IInv'
<1>1. ClientOK /\ GroupsOK /\ StatusOK /\ NotYet /\ Probing /\ Reports  BY TypeParts DEF IInv
<1>2. locking' = TRUE /\ UNCHANGED <<cfg, todo, updates, upstreams, object, group, ask, status>>  BY DEF AddUpstreamLock
<1>3. ObjectsOK' /\ AsksOK' /\ Standings' /\ Sobers' /\ Counted'  BY <1>2, QuietKept
<1>4. ClientOK' /\ GroupsOK' /\ StatusOK'  BY <1>1, <1>2 DEF ClientOK, GroupsOK, GroupOK, StatusOK, Report
<1>5. TypeOK'  BY <1>3, <1>4, TypePartsNext
<1>6. NotYet' /\ Probing'  BY <1>1, <1>2 DEF NotYet, Probing
<1>7. Reports'  BY <1>1, <1>2 DEF Reports, Fine
<1> QED  BY <1>3, <1>5, <1>6, <1>7 DEF IInv

\* The cooldown of a breaker passes.
LEMMA CoolInv == ASSUME IInv, NEW i \in 1..Len(object), Cool(i) PROVE IInv'
<1> DEFINE b == [object[i].b EXCEPT !.sinceOpen = cooldown]
<1>1. ClientOK /\ ObjectsOK /\ GroupsOK /\ AsksOK /\ StatusOK /\ Standings /\ NotYet /\ Counted /\ Probing /\ Reports
      /\ Len(object) \in Nat
  BY TypeParts, LenProperties DEF IInv, ObjectsOK
<1>2. object[i] \in Object  BY <1>1, ElementOfSeq DEF ObjectsOK
<1>3. object[i].b \in BreakerType  BY <1>2 DEF Object
<1>4. cooldown \in Int  BY BreakerConstants
<1>5. /\ b \in BreakerType /\ b.consecutiveFails = object[i].b.consecutiveFails /\ b.trips = object[i].b.trips
      /\ b.state = object[i].b.state
  BY <1>3, <1>4 DEF BreakerType
<1>6. object' = [object EXCEPT ![i].b = b] /\ UNCHANGED <<client, group, ask, status>>
  BY <1>1, <1>2 DEF Cool, Object
<1> HIDE DEF b
<1>7. AllAlike  BY <1>5, <1>6, AlikeBreaker
<1>8. Len(object') = Len(object) /\ ObjectsOK' /\ Sobers'  BY <1>7 DEF AllAlike
<1>9. Counted'
  <2>1. \A d \in Callers, e \in Addresses : ask'[d][e] = ask[d][e]  BY <1>6
  <2> QED  BY <1>1, <1>7, <2>1, CountedKept
<1>10. TypeOK'
  <2>1. ClientOK'  BY <1>1, <1>6, <1>8, ClientKept
  <2>2. Call' = Call  BY <1>8 DEF Call
  <2>3. AsksOK'  BY <1>1, <1>6, <2>2 DEF AsksOK, Callers
  <2>4. GroupsOK' /\ StatusOK'  BY <1>1, <1>6, <1>8 DEF GroupsOK, GroupOK, StatusOK, Report
  <2> QED  BY <1>8, <2>1, <2>3, <2>4, TypePartsNext
<1>11. Standings'  BY <1>1, <1>6 DEF Standings, Standing, Told
<1>12. NotYet'  BY <1>1, <1>6 DEF NotYet
<1>13. Probing'  BY <1>1, <1>6 DEF Probing, client
<1>14. Reports'
  <2>1. \A e \in Addresses : (status'.at = "counters" /\ e = status'.addr) \/ Fine(status'.report[e])
    BY <1>1, <1>6 DEF Reports
  <2>2. CASE status.at # "counters"  BY <1>6, <2>1, <2>2 DEF Reports, Fine
  <2>3. CASE status.at = "counters"
    <3>1. status.uc \in 1..Len(object)  BY <1>1, <2>3 DEF StatusOK, Probing
    <3>2. Alike(object[status.uc], object'[status.uc])  BY <1>7, <3>1 DEF AllAlike
    <3>3. /\ status.report[status.addr].up => ask["status"][status.addr].why = "answer"
          /\ object[status.uc].successes + object[status.uc].failures
               <= status.report[status.addr].requests + status.report[status.addr].late
      BY <1>1, <2>3 DEF Reports
    <3>4. object'[status.uc].successes + object'[status.uc].failures
            = object[status.uc].successes + object[status.uc].failures
      BY <3>2 DEF Alike
    <3> QED  BY <1>6, <2>1, <3>3, <3>4 DEF Reports, Fine
  <2> QED  BY <2>2, <2>3
<1> QED  BY <1>8, <1>9, <1>10, <1>11, <1>12, <1>13, <1>14 DEF IInv

LEMMA NewObjectIs ==
  /\ NewObject \in Object /\ NewObject.requests = 0 /\ NewObject.successes = 0 /\ NewObject.failures = 0
  /\ NewObject.timeouts = 0 /\ Sized(NewObject) /\ Sober(NewObject)
<1>4. NewBreaker \in BreakerType /\ NewBreaker.consecutiveFails = 0 /\ NewBreaker.trips = 0 /\ NewBreaker.state = "closed"
  BY BreakerConstants DEF NewBreaker, BreakerType
<1>5. <<>> \in Seq(Latencies) /\ Len(<<>>) = 0 /\ 1 \in 1..latencyBufferSize
  BY EmptySeq, UpstreamsConstants
<1>6. /\ NewObject \in Object /\ NewObject.latencies = <<>> /\ NewObject.b = NewBreaker /\ NewObject.requests = 0
      /\ NewObject.successes = 0 /\ NewObject.failures = 0 /\ NewObject.timeouts = 0
  <2> DEFINE e == <<>>
             b == NewBreaker
  <2>1. NewObject = [b |-> b, requests |-> 0, successes |-> 0, failures |-> 0, timeouts |-> 0,
                     latencies |-> e, latIdx |-> 1, latSum |-> 0, samples |-> e]
    BY DEF NewObject
  <2>2. e \in Seq(Latencies) /\ b \in BreakerType  BY <1>4, <1>5
  <2> HIDE DEF e, b
  <2>3. /\ NewObject \in Object /\ NewObject.latencies = e /\ NewObject.b = b /\ NewObject.requests = 0
        /\ NewObject.successes = 0 /\ NewObject.failures = 0 /\ NewObject.timeouts = 0
    BY <1>5, <2>1, <2>2 DEF Object
  <2> QED  BY <2>3 DEF e, b
<1>7. Sized(NewObject)
  <2>1. latencyBufferSize \in Nat  BY UpstreamsConstants
  <2> QED  BY <1>5, <1>6, <2>1 DEF Sized
<1>8. Sober(NewObject)  BY <1>4, <1>6 DEF Sober
<1> QED  BY <1>6, <1>7, <1>8

\* A new object has counted nothing, and no call has gone through it.
LEMMA AddUpstreamInv == ASSUME IInv, AddUpstream PROVE IInv'
<1> PICK n : n = Len(object) + 1  OBVIOUS
<1> DEFINE a == Head(todo)
<1>1. ClientOK /\ ObjectsOK /\ GroupsOK /\ AsksOK /\ StatusOK /\ Standings /\ NotYet /\ Counted /\ Probing /\ Reports
      /\ Sobers /\ Len(object) \in Nat /\ object \in Seq(Object)
  BY TypeParts, LenProperties DEF IInv, ObjectsOK
<1>2. /\ todo # <<>> /\ status.at \in {"new", "done"} /\ upstreams' = [upstreams EXCEPT ![a] = n]
      /\ object' = Append(object, NewObject) /\ todo' = Tail(todo) /\ locking' = FALSE
      /\ UNCHANGED <<cfg, updates, group, ask, status>>
  BY DEF AddUpstream
<1>3. a \in Addresses /\ Tail(todo) \in Seq(Addresses)  BY <1>1, <1>2, HeadTailProperties DEF ClientOK
<1>6. /\ NewObject \in Object /\ NewObject.requests = 0 /\ NewObject.successes = 0 /\ NewObject.failures = 0
      /\ NewObject.timeouts = 0
  BY NewObjectIs
<1>7. Sized(NewObject)  BY NewObjectIs
<1>8. Sober(NewObject)  BY NewObjectIs
<1>9. /\ object' \in Seq(Object) /\ Len(object') = n /\ object'[n] = NewObject /\ n \in Nat
      /\ \A j \in 1..Len(object) : object'[j] = object[j]
  BY <1>1, <1>2, <1>6
<1>10. \A j \in 1..n : j = n \/ j \in 1..Len(object)  BY <1>1
<1>11. ObjectsOK' /\ Sobers'
  <2>1. \A j \in 1..n : Sized(object'[j]) /\ Sober(object'[j])
    BY <1>1, <1>7, <1>8, <1>9, <1>10 DEF ObjectsOK, Sobers
  <2>2. ObjectsOK'  BY <1>9, <2>1 DEF ObjectsOK, Object, Sized
  <2> QED  BY <1>9, <2>1, <2>2 DEF Sobers, Sober
<1>12. 0..Len(object) \subseteq 0..n /\ n \in 0..n  BY <1>1
<1>13. TypeOK'
  <2>1. ClientOK'  BY <1>1, <1>2, <1>3, <1>9, <1>12 DEF ClientOK
  <2>2. Call \subseteq Call'  BY <1>9, <1>12 DEF Call
  <2>3. AsksOK'
    <3>1. \A c \in Callers : ask[c] \in [Addresses -> Call']  BY <1>1, <2>2 DEF AsksOK
    <3>2. ask \in [Callers -> [Addresses -> Call']]  BY <1>1, <3>1 DEF AsksOK
    <3> QED  BY <1>2, <3>2 DEF AsksOK, Callers
  <2>4. GroupsOK'  BY <1>1, <1>2 DEF GroupsOK, GroupOK
  <2>5. StatusOK'
    <3>1. status.uc \in 0..n  BY <1>1, <1>12 DEF StatusOK
    <3> QED  BY <1>1, <1>2, <1>9, <3>1 DEF StatusOK, Report
  <2> QED  BY <1>11, <2>1, <2>3, <2>4, <2>5, TypePartsNext
<1>14. Counted'
  <2>1. ASSUME NEW j \in 1..Len(object) PROVE Counts(object[j], j)'
    <3>1. ASSUME NEW ats, NEW whys PROVE CountAsks(j, ats, whys)' = CountAsks(j, ats, whys)
      <4>1. \A d \in Callers, e \in Addresses : In(ask'[d][e], j, ats, whys) <=> In(ask[d][e], j, ats, whys)  BY <1>2
      <4> QED  BY <4>1, CountStays
    <3>2. Counts(object[j], j) /\ object'[j] = object[j]  BY <1>1, <1>9 DEF Counted
    <3>3. /\ CountAsks(j, {"outcome", "posted"}, Told)' = CountAsks(j, {"outcome", "posted"}, Told)
          /\ CountAsks(j, {"posted"}, {"answer"})' = CountAsks(j, {"posted"}, {"answer"})
          /\ CountAsks(j, {"posted"}, {"failed", "timeout"})' = CountAsks(j, {"posted"}, {"failed", "timeout"})
          /\ CountAsks(j, {"posted"}, {"timeout"})' = CountAsks(j, {"posted"}, {"timeout"})
      BY <3>1
    <3> QED  BY <3>2, <3>3 DEF Counts, Told
  <2>2. Counts(object[n], n)'
    <3>1. \A d \in Callers, e \in Addresses : ask'[d][e].i # n
      <4>1. \A d \in Callers, e \in Addresses : ask[d][e].i \in 0..Len(object)  BY <1>1 DEF AsksOK, Call
      <4> QED  BY <1>1, <1>2, <4>1
    <3>2. ASSUME NEW ats, NEW whys PROVE CountAsks(n, ats, whys)' = 0
      <4>1. Chosen(n, ats, whys)' = {}  BY <3>1 DEF Chosen, In
      <4> QED  BY <4>1, CountNext, FS_EmptySet
    <3>3. /\ CountAsks(n, {"outcome", "posted"}, Told)' = 0 /\ CountAsks(n, {"posted"}, {"answer"})' = 0
          /\ CountAsks(n, {"posted"}, {"failed", "timeout"})' = 0 /\ CountAsks(n, {"posted"}, {"timeout"})' = 0
      BY <3>2
    <3> QED  BY <1>6, <1>9, <3>3 DEF Counts, Told
  <2> QED  BY <1>9, <1>10, <2>1, <2>2 DEF Counted
<1>15. Standings'  BY <1>1, <1>2 DEF Standings, Standing, Told
<1>16. NotYet'  BY <1>1, <1>2 DEF NotYet
<1>17. Probing'
  <2>1. \A e \in status.left : upstreams'[e] # 0
    <3>1. n # 0  BY <1>1
    <3>2. \A e \in status.left : e \in Addresses /\ upstreams[e] # 0  BY <1>1 DEF StatusOK, Probing
    <3> QED  BY <1>1, <1>2, <1>3, <3>1, <3>2 DEF ClientOK
  <2> QED  BY <1>1, <1>2, <2>1 DEF Probing
<1>18. Reports'  BY <1>1, <1>2 DEF Reports, Fine
<1> QED  BY <1>11, <1>13, <1>14, <1>15, <1>16, <1>17, <1>18 DEF IInv
-----------------------------------------------------------------------------
\* A step of UpstreamStatuses that makes no call.
LEMMA StatusKept ==
  ASSUME IInv, UNCHANGED <<client, object, group, ask>>, StatusOK',
         \A a \in Addresses : status'.at = "new" \/ a \in status'.left => ask["status"][a].at = "off",
         Probing', Reports'
  PROVE  IInv'
<1>1. ClientOK /\ GroupsOK /\ NotYet  BY TypeParts DEF IInv
<1>2. ObjectsOK' /\ AsksOK' /\ Standings' /\ Sobers' /\ Counted'  BY QuietKept
<1>3. ClientOK' /\ GroupsOK'
  <2>1. ClientOK'  BY <1>1, ClientKept
  <2> QED  BY <1>1, <2>1 DEF GroupsOK, GroupOK
<1>4. TypeOK'  BY <1>2, <1>3, TypePartsNext
<1>5. NotYet'  BY <1>1 DEF NotYet
<1> QED  BY <1>2, <1>4, <1>5 DEF IInv

LEMMA StatusBeginInv == ASSUME IInv, StatusBegin PROVE IInv'
<1> DEFINE left == {a \in Addresses : upstreams[a] # 0}
<1>1. StatusOK /\ NotYet /\ Probing /\ Reports  BY TypeParts DEF IInv
<1>2. /\ status.at = "new" /\ status' = [status EXCEPT !.at = "next", !.left = left]
      /\ UNCHANGED <<client, object, group, ask>>
  BY DEF StatusBegin
<1>3. left \in SUBSET Addresses /\ \A a \in left : upstreams[a] # 0  OBVIOUS
<1> HIDE DEF left
<1>4. StatusOK'  BY <1>1, <1>2, <1>3 DEF StatusOK, Report
<1>5. /\ status'.at = "next" /\ status'.left = left /\ status'.report = status.report
  BY <1>1, <1>2 DEF StatusOK
<1>6. \A a \in Addresses : ask["status"][a].at = "off"  BY <1>1, <1>2 DEF NotYet
<1>7. Probing'  BY <1>2, <1>3, <1>5, <1>6 DEF Probing, client
<1>8. Reports'  BY <1>1, <1>2, <1>5 DEF Reports, Fine
<1> QED  BY <1>2, <1>4, <1>6, <1>7, <1>8, StatusKept

LEMMA StatusEndInv == ASSUME IInv, StatusEnd PROVE IInv'
<1>1. StatusOK /\ NotYet /\ Probing /\ Reports  BY TypeParts DEF IInv
<1>2. /\ status.at = "next" /\ status.left = {} /\ status' = [status EXCEPT !.at = "done"]
      /\ UNCHANGED <<client, object, group, ask>>
  BY DEF StatusEnd
<1>3. StatusOK'  BY <1>1, <1>2 DEF StatusOK, Report
<1>4. status'.at = "done" /\ status'.left = {} /\ status'.report = status.report  BY <1>1, <1>2 DEF StatusOK
<1>5. \A a \in Addresses : status'.at = "new" \/ a \in status'.left => ask["status"][a].at = "off"  BY <1>4
<1>6. Probing'  BY <1>1, <1>2, <1>4 DEF Probing, client
<1>7. Reports'  BY <1>1, <1>2, <1>4 DEF Reports, Fine
<1> QED  BY <1>2, <1>3, <1>5, <1>6, <1>7, StatusKept

\* The upstream that is probed has no call of UpstreamStatuses yet, and gets one.
LEMMA ProbeInv == ASSUME IInv, NEW a \in Addresses, Probe(a) PROVE IInv'
<1> DEFINE x == [ask["status"][a] EXCEPT !.at = "find"]
           left == status.left \ {a}
<1>1. ClientOK /\ ObjectsOK /\ GroupsOK /\ AsksOK /\ StatusOK /\ Standings /\ NotYet /\ Counted /\ Probing /\ Reports
      /\ Len(object) \in Nat
  BY TypeParts, LenProperties DEF IInv, ObjectsOK
<1>2. /\ status.at = "next" /\ a \in status.left /\ UNCHANGED <<client, object, group>>
      /\ status' = [status EXCEPT !.at = "probing", !.addr = a, !.uc = upstreams[a], !.left = left]
      /\ ask' = [ask EXCEPT !["status"][a].at = "find"]
  BY <1>1 DEF Probe, StatusOK
<1>3. "status" \in Callers /\ "status" \notin Groups  BY UpstreamsConstants DEF Callers
<1>4. ask["status"][a] \in Call /\ Standing(ask["status"][a]) /\ ask["status"][a].at = "off"
  BY <1>1, <1>2, <1>3 DEF AsksOK, Standings, NotYet
<1>5. x \in Call /\ x.at = "find" /\ x.i = 0 /\ x.why = "none"  BY <1>4 DEF Call, Standing
<1>6. Standing(x) /\ Uncounted(x) /\ Uncounted(ask["status"][a])  BY <1>4, <1>5 DEF Standing, Uncounted
<1>7. ask' = [ask EXCEPT !["status"][a] = x]  BY <1>1, <1>2, <1>3 DEF AsksOK
<1> HIDE DEF x
<1>8. AllAlike /\ Len(object') = Len(object)  BY <1>2, AlikeSame
<1>9. ObjectsOK' /\ Sobers'  BY <1>8 DEF AllAlike
<1>10. AsksOK' /\ Only("status", a) /\ ask'["status"][a] = x
  <2>1. AsksOK /\ x \in Call /\ Len(object') = Len(object)  BY <1>1, <1>5, <1>8
  <2> QED  BY <1>3, <1>7, <2>1, CallType
<1>11. upstreams[a] \in 0..Len(object) /\ upstreams[a] # 0 /\ left \in SUBSET Addresses /\ a \notin left
       /\ \A e \in left : e \in status.left
  BY <1>1, <1>2 DEF ClientOK, StatusOK, Probing
<1> HIDE DEF left
<1>12. /\ status'.at = "probing" /\ status'.addr = a /\ status'.uc = upstreams[a] /\ status'.left = left
       /\ status'.report = status.report
  BY <1>1, <1>2 DEF StatusOK
<1>13. StatusOK'
  <2>1. status' \in [at : {"new", "next", "probing", "requests", "counters", "done"}, left : SUBSET Addresses,
                     addr : Addresses \cup {"none"}, uc : 0..Len(object), report : [Addresses -> Report]]
    BY <1>1, <1>2, <1>11 DEF StatusOK
  <2> QED  BY <1>8, <2>1 DEF StatusOK, Report
<1>14. ClientOK' /\ upstreams' = upstreams  BY <1>1, <1>2, <1>8, ClientKept
<1>15. GroupsOK'  BY <1>1, <1>2 DEF GroupsOK, GroupOK
<1>16. TypeOK'  BY <1>9, <1>10, <1>13, <1>14, <1>15, TypePartsNext
<1>17. Standings'
  <2>1. \A d \in Callers, e \in Addresses : Standing(ask'[d][e])  BY <1>1, <1>6, <1>10 DEF Only, Standings
  <2> QED  BY <2>1 DEF Standings, Standing, Told
<1>18. NotYet'
  <2>1. \A g \in Groups : group'[g].at = "new" => \A e \in Addresses : ask'[g][e].at = "off"
    <3> SUFFICES ASSUME NEW g \in Groups, group'[g].at = "new", NEW e \in Addresses PROVE ask'[g][e].at = "off"
      OBVIOUS
    <3>1. g # "status" /\ g \in Callers  BY <1>3 DEF Callers
    <3>2. ask'[g][e] = ask[g][e]  BY <1>10, <3>1 DEF Only
    <3> QED  BY <1>1, <1>2, <3>2 DEF NotYet
  <2>2. \A e \in Addresses : status'.at = "new" \/ e \in status'.left => ask'["status"][e].at = "off"
    BY <1>1, <1>3, <1>10, <1>11, <1>12 DEF NotYet, Only
  <2> QED  BY <2>1, <2>2 DEF NotYet
<1>19. Counted'
  <2>1. \A d \in Callers, e \in Addresses :
          ask'[d][e] = ask[d][e] \/ (Uncounted(ask[d][e]) /\ Uncounted(ask'[d][e]))
    BY <1>6, <1>10 DEF Only
  <2> QED  BY <1>1, <1>8, <2>1, CountedKept
<1>20. Probing'
  <2>1. \A e \in Addresses : ask'["status"][e].at \in {"find", "sent", "outcome"} => e = a
    <3>1. \A e \in Addresses : ask["status"][e].at \notin {"find", "sent", "outcome"}  BY <1>1, <1>2 DEF Probing
    <3> QED  BY <1>3, <1>10, <3>1 DEF Only
  <2>2. \A e \in status'.left : upstreams'[e] # 0  BY <1>1, <1>11, <1>12, <1>14 DEF Probing
  <2> QED  BY <1>5, <1>10, <1>11, <1>12, <1>14, <2>1, <2>2 DEF Probing
<1>21. Reports'
  <2>1. \A e \in Addresses : Fine(status.report[e])  BY <1>1, <1>2 DEF Reports
  <2> QED  BY <1>12, <2>1 DEF Reports, Fine
<1> QED  BY <1>9, <1>16, <1>17, <1>18, <1>19, <1>20, <1>21 DEF IInv

\* What both halves of a snapshot write: the report of the upstream that was probed.
LEMMA ReportStep ==
  ASSUME StatusOK, status.addr \in Addresses, NEW r \in Report, NEW at \in {"next", "counters"},
         status' = [status EXCEPT !.at = at, !.report[status.addr] = r], object' = object
  PROVE  /\ StatusOK' /\ status'.at = at /\ status'.left = status.left
         /\ status'.addr = status.addr /\ status'.uc = status.uc /\ status'.report[status.addr] = r
         /\ \A e \in Addresses : e # status.addr => status'.report[e] = status.report[e]
<1> DEFINE m == [status.report EXCEPT ![status.addr] = r]
<1>1. status.report \in [Addresses -> Report]  BY DEF StatusOK
<1>2. status' = [status EXCEPT !.at = at, !.report = m]  BY DEF StatusOK
<1>3. m \in [Addresses -> Report] /\ m[status.addr] = r /\ \A e \in Addresses : e # status.addr => m[e] = status.report[e]
  BY <1>1
<1> HIDE DEF m
<1>4. /\ status' \in [at : {"new", "next", "probing", "requests", "counters", "done"}, left : SUBSET Addresses,
                      addr : Addresses \cup {"none"}, uc : 0..Len(object), report : [Addresses -> Report]]
      /\ status'.at = at /\ status'.left = status.left /\ status'.addr = status.addr /\ status'.uc = status.uc
      /\ status'.report = m
  BY <1>2, <1>3 DEF StatusOK
<1>5. StatusOK'  BY <1>4 DEF StatusOK, Report
<1> QED  BY <1>3, <1>4, <1>5

LEMMA SnapshotRequestsInv == ASSUME IInv, SnapshotRequests PROVE IInv'
<1> DEFINE e == status.addr
           u == ask["status"][e].why = "answer"
           q == object[status.uc].requests
           r == [status.report[e] EXCEPT !.up = u, !.requests = q]
<1>1. ObjectsOK /\ StatusOK /\ NotYet /\ Probing /\ Reports /\ Counted /\ TypeOK  BY TypeParts DEF IInv
<1>2. /\ status.at = "requests" /\ UNCHANGED <<client, object, group, ask>>
      /\ status' = [status EXCEPT !.at = "counters", !.report[e] = r]
  BY DEF SnapshotRequests
<1>3. e \in Addresses /\ status.uc # 0 /\ ask["status"][e].at = "posted"  BY <1>1, <1>2 DEF Probing
<1>4. status.uc \in 1..Len(object) /\ status.report[e] \in Report  BY <1>1, <1>3, LenProperties DEF StatusOK, ObjectsOK
<1>5. object[status.uc] \in Object  BY <1>1, <1>4, ElementOfSeq DEF ObjectsOK
<1>6. q \in Nat /\ u \in BOOLEAN /\ object[status.uc].successes \in Nat /\ object[status.uc].failures \in Nat
  BY <1>5 DEF Object
<1>7. object[status.uc].successes + object[status.uc].failures <= q  BY <1>1, <1>4, CountBounds
<1> HIDE DEF u, q
<1>8. r \in Report /\ r.up = u /\ r.requests = q /\ r.late \in Nat  BY <1>4, <1>6 DEF Report
<1> HIDE DEF r
<1>9. /\ StatusOK' /\ status'.at = "counters" /\ status'.left = status.left
      /\ status'.addr = e /\ status'.uc = status.uc /\ status'.report[e] = r
      /\ \A f \in Addresses : f # e => status'.report[f] = status.report[f]
  BY <1>1, <1>2, <1>3, <1>8, ReportStep
<1>10. \A a \in Addresses : status'.at = "new" \/ a \in status'.left => ask["status"][a].at = "off"
  BY <1>1, <1>9 DEF NotYet
<1>11. Probing'  BY <1>1, <1>2, <1>9 DEF Probing, client
<1>12. Reports'
  <2>1. \A f \in Addresses : f = e \/ Fine(status'.report[f])  BY <1>1, <1>2, <1>9 DEF Reports
  <2>2. r.up => ask'["status"][e].why = "answer"  BY <1>2, <1>8 DEF u
  <2>3. object'[status.uc].successes + object'[status.uc].failures <= r.requests + r.late  BY <1>2, <1>6, <1>7, <1>8
  <2> QED  BY <1>9, <2>1, <2>2, <2>3 DEF Reports, Fine
<1> QED  BY <1>2, <1>9, <1>10, <1>11, <1>12, StatusKept

LEMMA SnapshotRestInv == ASSUME IInv, SnapshotRest PROVE IInv'
<1> DEFINE e == status.addr
           o == object[status.uc]
           s == o.successes
           f == o.failures
           r == [status.report[e] EXCEPT !.successes = s, !.failures = f]
<1>1. ObjectsOK /\ StatusOK /\ AsksOK /\ Standings /\ NotYet /\ Probing /\ Reports /\ Counted /\ TypeOK
  BY TypeParts DEF IInv
<1>2. /\ status.at = "counters" /\ UNCHANGED <<client, object, group, ask>>
      /\ status' = [status EXCEPT !.at = "next", !.report[e] = r]
  BY DEF SnapshotRest
<1>3. /\ e \in Addresses /\ status.uc # 0 /\ ask["status"][e].at = "posted"
      /\ ask["status"][e].i \in {0, status.uc}
  BY <1>1, <1>2 DEF Probing
<1>4. status.uc \in 1..Len(object) /\ status.report[e] \in Report  BY <1>1, <1>3, LenProperties DEF StatusOK, ObjectsOK
<1>5. o \in Object  BY <1>1, <1>4, ElementOfSeq DEF ObjectsOK
<1>6. s \in Nat /\ f \in Nat  BY <1>5 DEF Object
<1>7. ask["status"][e].why = "answer" => s > 0
  <2> SUFFICES ASSUME ask["status"][e].why = "answer" PROVE s > 0  OBVIOUS
  <2>1. "status" \in Callers  BY DEF Callers
  <2>2. Standing(ask["status"][e])  BY <1>1, <1>3, <2>1 DEF Standings
  <2>3. ask["status"][e].i = status.uc  BY <1>3, <2>2 DEF Standing
  <2>4. In(ask["status"][e], status.uc, {"posted"}, {"answer"})  BY <1>3, <2>3 DEF In
  <2> QED  BY <1>1, <1>3, <1>4, <2>1, <2>4, CountBounds
<1>8. /\ status.report[e].up => ask["status"][e].why = "answer"
      /\ s + f <= status.report[e].requests + status.report[e].late
  BY <1>1, <1>2 DEF Reports
<1> HIDE DEF s, f
<1>9. /\ r \in Report /\ r.up = status.report[e].up /\ r.requests = status.report[e].requests
      /\ r.late = status.report[e].late /\ r.successes = s /\ r.failures = f
  BY <1>4, <1>6 DEF Report
<1> HIDE DEF r
<1>10. /\ StatusOK' /\ status'.at = "next" /\ status'.left = status.left
       /\ status'.addr = e /\ status'.uc = status.uc /\ status'.report[e] = r
       /\ \A d \in Addresses : d # e => status'.report[d] = status.report[d]
  BY <1>1, <1>2, <1>3, <1>9, ReportStep
<1>11. \A a \in Addresses : status'.at = "new" \/ a \in status'.left => ask["status"][a].at = "off"
  BY <1>1, <1>10 DEF NotYet
<1>12. Probing'  BY <1>1, <1>2, <1>10 DEF Probing, client
<1>13. Reports'
  <2>1. Fine(r)  BY <1>7, <1>8, <1>9 DEF Fine
  <2>2. \A d \in Addresses : Fine(status'.report[d])  BY <1>1, <1>2, <1>10, <2>1 DEF Reports
  <2> QED  BY <1>10, <2>2 DEF Reports, Fine
<1> QED  BY <1>2, <1>10, <1>11, <1>12, <1>13, StatusKept
-----------------------------------------------------------------------------
\* A nonempty set of numbers has a smallest one, and Min is it.
LEMMA LeastOne ==
  ASSUME NEW S, S \subseteq Nat, S # {}
  PROVE  \E k \in S : \A j \in S : k <= j
<1> DEFINE R == {ss \in Nat \X Nat : ss[1] < ss[2]}
<1>1. IsWellFoundedOn(R, Nat)  BY NatLessThanWellFounded DEF OpToRel
<1> HIDE DEF R
<1>2. PICK k \in S : \A j \in S : ~(<<j, k>> \in R)  BY <1>1, WFMin
<1>3. ASSUME NEW j \in S PROVE k <= j
  <2>1. k \in Nat /\ j \in Nat /\ <<j, k>> \in Nat \X Nat  OBVIOUS
  <2>2. ~(j < k)  BY <1>2, <2>1 DEF R
  <2> QED  BY <2>1, <2>2
<1> QED  BY <1>3

LEMMA MinIsLeast ==
  ASSUME NEW S, S \subseteq Nat, S # {}
  PROVE  Min(S) \in S
BY LeastOne DEF Min

LEMMA InitInv == ASSUME Init PROVE IInv
<1>1. /\ cfg = InitialServers /\ todo = <<>> /\ locking = FALSE /\ updates = 0
      /\ upstreams = [a \in Addresses |-> SelectInSeq(cfg, LAMBDA x : x = a)]
      /\ object = [i \in 1..Len(cfg) |-> NewObject]
      /\ group = [g \in Groups |-> [at |-> "new", selected |-> <<>>, results |-> <<>>, best |-> "none"]]
      /\ ask = [c \in Callers |-> [a \in Addresses |-> NoAsk]]
      /\ status = [at |-> "new", left |-> {}, addr |-> "none", uc |-> 0,
                   report |-> [a \in Addresses |-> NoReport]]
  BY DEF Init
<1>2. cfg \in Seq(Addresses) /\ Len(cfg) \in Nat  BY <1>1, UpstreamsConstants, LenProperties
<1>3. NewObject \in Object /\ Sized(NewObject) /\ Sober(NewObject)  BY NewObjectIs
<1>4. object \in Seq(Object) /\ Len(object) = Len(cfg) /\ \A i \in 1..Len(cfg) : object[i] = NewObject
  BY <1>1, <1>2, <1>3
<1>5. ObjectsOK /\ Sobers  BY <1>3, <1>4 DEF ObjectsOK, Sobers
<1>6. ClientOK
  <2>1. \A a \in Addresses : upstreams[a] \in 0..Len(cfg)
    <3> SUFFICES ASSUME NEW a \in Addresses PROVE SelectInSeq(cfg, LAMBDA x : x = a) \in 0..Len(cfg)  BY <1>1
    <3> DEFINE I == {i \in 1..Len(cfg) : cfg[i] = a}
    <3>1. SelectInSeq(cfg, LAMBDA x : x = a) = IF I # {} THEN Min(I) ELSE 0  BY DEF SelectInSeq
    <3>2. I \subseteq Nat  BY <1>2
    <3>3. I # {} => Min(I) \in I  BY <3>2, MinIsLeast
    <3>4. I \subseteq 0..Len(cfg) /\ 0 \in 0..Len(cfg)  BY <1>2
    <3> HIDE DEF I
    <3> QED  BY <3>1, <3>3, <3>4
  <2>2. upstreams \in [Addresses -> 0..Len(object)]  BY <1>1, <1>4, <2>1
  <2>3. todo \in Seq(Addresses)  BY <1>1, EmptySeq
  <2>4. updates \in 0..MaxUpdates  BY <1>1, UpstreamsConstants
  <2> QED  BY <1>1, <2>2, <2>3, <2>4 DEF ClientOK
<1>7. GroupsOK
  <2> DEFINE e == <<>>
             y == [at |-> "new", selected |-> e, results |-> e, best |-> "none"]
  <2>1. e \in Seq(Addresses)  BY EmptySeq
  <2>2. DOMAIN group = Groups /\ \A g \in Groups : group[g] = y  BY <1>1
  <2> HIDE DEF e
  <2>3. GroupOK(y)  BY <2>1 DEF GroupOK
  <2> HIDE DEF y
  <2> QED  BY <2>2, <2>3 DEF GroupsOK
<1>8. NoAsk \in Call  BY <1>2, <1>4 DEF NoAsk, Call
<1>9. NoReport \in Report /\ Fine(NoReport)  BY DEF NoReport, Report, Fine
<1>10. AsksOK /\ \A c \in Callers, a \in Addresses : ask[c][a] = NoAsk  BY <1>1, <1>8 DEF AsksOK
<1>11. StatusOK
  <2> DEFINE m == [a \in Addresses |-> NoReport]
  <2>1. m \in [Addresses -> Report] /\ 0 \in 0..Len(object)  BY <1>2, <1>4, <1>9
  <2>2. status = [at |-> "new", left |-> {}, addr |-> "none", uc |-> 0, report |-> m]  BY <1>1
  <2> HIDE DEF m
  <2> QED  BY <2>1, <2>2 DEF StatusOK
<1>12. TypeOK  BY <1>5, <1>6, <1>7, <1>10, <1>11, TypeParts
<1>13. Standings  BY <1>10 DEF Standings, Standing, NoAsk
<1>14. "status" \in Callers /\ Groups \subseteq Callers  BY DEF Callers
<1>15. NotYet  BY <1>10, <1>14 DEF NotYet, NoAsk
<1>16. Counted
  <2> SUFFICES ASSUME NEW i \in 1..Len(object) PROVE Counts(object[i], i)  BY DEF Counted
  <2>1. ASSUME NEW ats, NEW whys PROVE CountAsks(i, ats, whys) = 0
    <3>1. \A d \in Callers, e \in Addresses : ask[d][e].i = 0  BY <1>10 DEF NoAsk
    <3>2. Chosen(i, ats, whys) = {}  BY <3>1 DEF Chosen, In
    <3> QED  BY <3>2, CountIs, FS_EmptySet
  <2>2. /\ CountAsks(i, {"outcome", "posted"}, Told) = 0 /\ CountAsks(i, {"posted"}, {"answer"}) = 0
        /\ CountAsks(i, {"posted"}, {"failed", "timeout"}) = 0 /\ CountAsks(i, {"posted"}, {"timeout"}) = 0
    BY <2>1
  <2>3. object[i] = NewObject  BY <1>4
  <2> QED  BY <2>2, <2>3, NewObjectIs DEF Counts
<1>17. Probing  BY <1>1, <1>10, <1>14 DEF Probing, NoAsk
<1>18. Reports  BY <1>1, <1>9 DEF Reports
<1> QED  BY <1>5, <1>12, <1>13, <1>15, <1>16, <1>17, <1>18 DEF IInv

LEMMA QueryInv == ASSUME IInv, NEW c \in Callers, Query(c) PROVE IInv'
<1> PICK a \in Addresses : \/ Find(c, a) \/ Record(c, a)
                           \/ \E l \in Latencies : Answer(c, a, l)
                           \/ \E why \in Failures : Fail(c, a, why)
  BY DEF Query
<1>1. CASE Find(c, a)  BY <1>1, FindInv
<1>2. CASE Record(c, a)  BY <1>2, RecordInv
<1>3. ASSUME NEW l \in Latencies, Answer(c, a, l) PROVE IInv'
  <2>1. "answer" \in Told /\ l \in Latencies \cup {0}  BY DEF Told
  <2> QED  BY <1>3, <2>1, EndsInv DEF Answer
<1>4. ASSUME NEW why \in Failures, Fail(c, a, why) PROVE IInv'
  <2>1. why \in Told /\ 0 \in Latencies \cup {0} /\ why # "answer"  BY UpstreamsConstants DEF Told
  <2> QED  BY <1>4, <2>1, EndsInv DEF Fail
<1> QED  BY <1>1, <1>2, <1>3, <1>4

LEMMA StutterInv == ASSUME IInv, UNCHANGED vars PROVE IInv'
<1>1. UNCHANGED <<client, object, group, ask, status>>  BY DEF vars
<1>2. StatusOK /\ NotYet /\ Probing /\ Reports  BY TypeParts DEF IInv
<1>3. StatusOK'  BY <1>1, <1>2 DEF StatusOK, Report
<1>4. Probing'  BY <1>1, <1>2 DEF Probing, client
<1>5. Reports'  BY <1>1, <1>2 DEF Reports, Fine
<1>6. \A a \in Addresses : status'.at = "new" \/ a \in status'.left => ask["status"][a].at = "off"
  BY <1>1, <1>2 DEF NotYet
<1> QED  BY <1>1, <1>3, <1>4, <1>5, <1>6, StatusKept

\* Every step keeps the inductive invariant.
LEMMA NextInv == ASSUME IInv, [Next]_vars PROVE IInv'
<1>1. ASSUME NEW g \in Groups, Group(g) PROVE IInv'
  <2>1. g \in Callers  BY DEF Callers
  <2> QED  BY <1>1, <2>1, QueryInv, ReturnInv DEF Group
<1>2. ASSUME NEW g \in Groups, NEW n \in Concurrencies, QueryGroup(g, n) PROVE IInv'  BY <1>2, QueryGroupInv
<1>3. CASE StatusBegin  BY <1>3, StatusBeginInv
<1>4. CASE Statuses
  <2>1. "status" \in Callers  BY DEF Callers
  <2>2. CASE Query("status")  BY <2>1, <2>2, QueryInv
  <2>3. CASE SnapshotRequests  BY <2>3, SnapshotRequestsInv
  <2>4. CASE SnapshotRest  BY <2>4, SnapshotRestInv
  <2>5. CASE StatusEnd  BY <2>5, StatusEndInv
  <2>6. ASSUME NEW a \in Addresses, Probe(a) PROVE IInv'  BY <2>6, ProbeInv
  <2> QED  BY <1>4, <2>2, <2>3, <2>4, <2>5, <2>6 DEF Statuses
<1>5. ASSUME NEW c \in Configs, UpdateConfig(c) PROVE IInv'  BY <1>5, UpdateConfigInv
<1>6. CASE AddUpstream  BY <1>6, AddUpstreamInv
<1>7. ASSUME NEW i \in 1..Len(object), Cool(i) PROVE IInv'  BY <1>7, CoolInv
<1>8. CASE UNCHANGED vars  BY <1>8, StutterInv
<1>9. CASE AddUpstreamLock  BY <1>9, AddUpstreamLockInv
<1> QED  BY <1>1, <1>2, <1>3, <1>4, <1>5, <1>6, <1>7, <1>8, <1>9 DEF Next

LEMMA Invariant == Spec => []IInv
<1>1. Init => IInv  BY InitInv
<1>2. IInv /\ [Next]_vars => IInv'  BY NextInv
<1> QED  BY <1>1, <1>2, PTL DEF Spec

\* client.go:52-63, stats.go:70-75: every object, call and report has its form in every reachable state; in particular
\* a call never refers to an object that does not exist, and no ring of latencies outgrows its buffer.
THEOREM UpstreamsTypeOK == Spec => []TypeOK
<1>1. IInv => TypeOK  BY DEF IInv
<1> QED  BY <1>1, Invariant, PTL

\* client.go:153, 196, 203: for any number of upstreams, concurrent queries and configuration changes,
\* an object's counters tell of exactly the requests that were sent through it, and its breaker opens
\* only for failures of its own.
THEOREM UpstreamsOwnRequests == Spec => []OwnRequests
<1>1. IInv => OwnRequests
  <2> SUFFICES ASSUME IInv, NEW i \in 1..Len(object)
               PROVE  Counts(object[i], i) /\ Sober(object[i])
    BY DEF OwnRequests, Counts, Sober, Told
  <2> QED  BY DEF IInv, Counted, Sobers
<1> QED  BY <1>1, Invariant, PTL

\* client.go:382-399: for any number of upstreams and concurrent queries, a report of GET /status
\* includes the probe it has made, and its numbers add up but for what was recorded while it read them.
THEOREM UpstreamsReportIncludesProbe == Spec => []ReportIncludesProbe
<1>1. IInv => ReportIncludesProbe  BY DEF IInv, Reports, Fine, ReportIncludesProbe
<1> QED  BY <1>1, Invariant, PTL
-----------------------------------------------------------------------------
\* What a call of QueryGroup has heard.  x is the call, q its calls of Query.
Ok(q, heard) == {a \in ToSet(heard) : q[a].why = "answer"}
Best(q, heard, best) == IF Ok(q, heard) = {} THEN best = "none"
                        ELSE best \in Ok(q, heard) /\ \A a \in Ok(q, heard) : q[best].latency <= q[a].latency
Hearing(x, q) ==
  /\ x.at # "done" => x.best = "none"
  /\ \A i, j \in 1..Len(x.results) : x.results[i] = x.results[j] => i = j
  /\ \A a \in Addresses : a \in ToSet(x.results) <=> q[a].at = "posted"
  /\ \A a \in Addresses : q[a].at # "off" => a \in ToSet(x.selected)
  /\ x.at = "done" => /\ Len(x.results) = Len(x.selected) /\ ToSet(x.results) = ToSet(x.selected)
                      /\ Best(q, x.results, x.best)
Heard == \A g \in Groups : Hearing(group[g], ask[g])
-----------------------------------------------------------------------------
\* Folds.  The function that MapThenFoldSet defines by recursion exists: the least size of a set for
\* which it did not would have a predecessor.
Folding(S, V, pick, G) == /\ \A s \in SUBSET S : s # {} => pick[s] \in s
                          /\ \A x \in S, v \in V : G[x][v] \in V
Folded(it, S, V, base, pick, G) ==
  /\ it \in [SUBSET S -> V]
  /\ \A s \in SUBSET S : it[s] = IF s = {} THEN base ELSE G[pick[s]][it[s \ {pick[s]}]]

LEMMA FoldExists ==
  ASSUME NEW S, IsFiniteSet(S), NEW V, NEW base \in V, NEW pick, NEW G, Folding(S, V, pick, G)
  PROVE  \E it : Folded(it, S, V, base, pick, G)
<1> DEFINE Sub(n) == {s \in SUBSET S : Cardinality(s) <= n}
           Step(it, s) == IF s = {} THEN base ELSE G[pick[s]][it[s \ {pick[s]}]]
           Good(n, it) == it \in [Sub(n) -> V] /\ \A s \in Sub(n) : it[s] = Step(it, s)
           Bad == {n \in Nat : ~\E it : Good(n, it)}
<1>1. \A s \in SUBSET S : IsFiniteSet(s) /\ Cardinality(s) \in Nat /\ (Cardinality(s) = 0 <=> s = {})
  BY FS_Subset, FS_CardinalityType, FS_EmptySet
<1>2. \A s \in SUBSET S : s # {} => s \ {pick[s]} \in SUBSET S /\ Cardinality(s \ {pick[s]}) = Cardinality(s) - 1
  BY <1>1, FS_RemoveElement DEF Folding
<1>3. ASSUME Bad # {} PROVE FALSE
  <2>1. Bad \subseteq Nat  OBVIOUS
  <2>2. PICK k \in Bad : \A j \in Bad : k <= j
    <3> HIDE DEF Bad
    <3> QED  BY <1>3, <2>1, LeastOne
  <2>3. CASE k = 0
    <3> DEFINE it == [s \in Sub(0) |-> base]
    <3>1. \A s \in Sub(0) : s = {}  BY <1>1
    <3>2. Good(0, it)  BY <3>1
    <3> QED  BY <2>3, <3>2
  <2>4. CASE k # 0
    <3>1. k \in Nat /\ k - 1 \in Nat /\ k - 1 < k  BY <2>4
    <3>2. k - 1 \notin Bad
      <4> HIDE DEF Bad
      <4> QED  BY <2>2, <3>1
    <3>3. PICK h : Good(k - 1, h)  BY <3>1, <3>2
    <3> DEFINE it == [s \in Sub(k) |-> Step(h, s)]
    <3>4. \A s \in Sub(k) : s # {} => s \ {pick[s]} \in Sub(k - 1)  BY <1>1, <1>2, <3>1
    <3>5. Sub(k - 1) \subseteq Sub(k)  BY <1>1, <3>1
    <3> HIDE DEF Sub
    <3>6. \A s \in Sub(k) : s # {} => pick[s] \in S /\ h[s \ {pick[s]}] \in V  BY <3>3, <3>4 DEF Sub, Folding
    <3>7. it \in [Sub(k) -> V]  BY <3>6 DEF Folding
    <3>8. \A t \in Sub(k - 1) : it[t] = h[t]  BY <3>3, <3>5
    <3>9. \A s \in Sub(k) : it[s] = Step(it, s)  BY <3>4, <3>8
    <3>10. Good(k, it)  BY <3>7, <3>9
    <3> QED  BY <3>10
  <2> QED  BY <2>3, <2>4
<1>4. Cardinality(S) \in Nat  BY <1>1
<1>5. PICK it : Good(Cardinality(S), it)  BY <1>3, <1>4
<1>6. Sub(Cardinality(S)) = SUBSET S  BY <1>1, FS_Subset
<1>7. Folded(it, S, V, base, pick, G)  BY <1>5, <1>6 DEF Folded
<1> QED  BY <1>7

\* Likewise, a nonempty set of indices has a largest one, and Max is it.
LEMMA MaxIs ==
  ASSUME NEW n \in Nat, NEW s \in SUBSET (1..n), s # {}
  PROVE  Max(s) \in s /\ \A j \in s : Max(s) >= j
<1> DEFINE T == {n - i : i \in s}
<1>1. T \subseteq Nat /\ T # {}
  <2>1. \A i \in s : i \in 1..n /\ n - i \in Nat  OBVIOUS
  <2> QED  BY <2>1
<1>2. PICK k \in T : \A j \in T : k <= j  
  <2> HIDE DEF T
  <2> QED BY <1>1, LeastOne
<1>3. PICK i \in s : k = n - i OBVIOUS
<1>4. ASSUME NEW j \in s PROVE i >= j
  <2>1. n - j \in T /\ i \in 1..n /\ j \in 1..n  OBVIOUS
  <2>2. n - i <= n - j  BY <1>2, <1>3, <2>1
  <2> QED  BY <2>1, <2>2
<1> QED  BY <1>4 DEF Max

\* FoldLeft over the results, as a table of what is the best of the first i of them.
LEMMA FoldIs ==
  ASSUME AsksOK, NEW g \in Groups, NEW heard \in Seq(Addresses)
  PROVE  \E it : /\ it[0] = "none"
                 /\ \A i \in 1..Len(heard) : it[i] = Better(g, it[i - 1], heard[i])
                 /\ FoldLeft(LAMBDA best, a : Better(g, best, a), "none", heard) = it[Len(heard)]
<1> DEFINE S == DOMAIN heard
           V == Addresses \cup {"none"}
           Step(it, s) == IF s = {} THEN "none" ELSE Better(g, it[s \ {Max(s)}], heard[Max(s)])
           iter == CHOOSE it : it = [s \in SUBSET S |-> Step(it, s)]
<1>1. FoldLeft(LAMBDA best, a : Better(g, best, a), "none", heard) = iter[S]  BY DEF FoldLeft, MapThenFoldSet
<1>2. Len(heard) \in Nat /\ S = 1..Len(heard) /\ \A i \in S : heard[i] \in Addresses  BY LenProperties, ElementOfSeq
<1>3. IsFiniteSet(S)  BY <1>2, FS_Interval
<1>4. \A s \in SUBSET S : s # {} => Max(s) \in s  BY <1>2, MaxIs
<1>5. \A i \in S, v \in V : Better(g, v, heard[i]) \in V  BY <1>2 DEF Better
<1>6. \E it : it = [s \in SUBSET S |-> Step(it, s)]
  <2> DEFINE pick == [s \in SUBSET S |-> Max(s)]
             G == [i \in S |-> [v \in V |-> Better(g, v, heard[i])]]
  <2>1. \A s \in SUBSET S : s # {} => pick[s] \in s  BY <1>4
  <2>2. \A i \in S, v \in V : G[i][v] \in V /\ G[i][v] = Better(g, v, heard[i])  BY <1>5
  <2>3. \A s \in SUBSET S : pick[s] = Max(s)  OBVIOUS
  <2> HIDE DEF pick, G, S, V
  <2>4. "none" \in V /\ \A i \in S, v \in V : G[i][v] \in V  BY <2>2 DEF V
  <2>5. PICK it : Folded(it, S, V, "none", pick, G)
    <3>1. "none" \in V /\ Folding(S, V, pick, G)  BY <2>1, <2>4 DEF Folding
    <3> QED  BY <1>3, <3>1, FoldExists
  <2>6. ASSUME NEW s \in SUBSET S PROVE it[s] = Step(it, s)
    <3>1. CASE s = {}  BY <2>5, <3>1 DEF Folded
    <3>2. CASE s # {}
      <4>1. Max(s) \in S /\ s \ {Max(s)} \in SUBSET S  BY <1>4, <3>2
      <4>2. it[s \ {Max(s)}] \in V  BY <2>5, <4>1 DEF Folded
      <4>3. it[s] = G[Max(s)][it[s \ {Max(s)}]]  BY <2>3, <2>5, <3>2 DEF Folded
      <4>4. it[s] = Better(g, it[s \ {Max(s)}], heard[Max(s)])  BY <2>2, <4>1, <4>2, <4>3
      <4> QED  BY <3>2, <4>4
    <3> QED  BY <3>1, <3>2
  <2> HIDE DEF Step
  <2>7. it = [s \in SUBSET S |-> Step(it, s)]  BY <2>5, <2>6 DEF Folded
  <2> QED  BY <2>7
<1>7. iter = [s \in SUBSET S |-> Step(iter, s)]
  <2> HIDE DEF Step, S
  <2> QED  BY <1>6
<1> HIDE DEF iter, S
<1>8. \A s \in SUBSET S : iter[s] = Step(iter, s)
  <2> HIDE DEF Step
  <2> QED  BY <1>7
<1> DEFINE it == [i \in 0..Len(heard) |-> iter[1..i]]
<1>9. it[0] = "none"
  <2>1. 1..0 = {} /\ {} \in SUBSET S /\ 0 \in 0..Len(heard)  BY <1>2
  <2> QED  BY <1>8, <2>1
<1>10. ASSUME NEW i \in 1..Len(heard) PROVE it[i] = Better(g, it[i - 1], heard[i])
  <2>1. 1..i \in SUBSET S /\ i \in 1..i /\ i - 1 \in 0..Len(heard) /\ i \in 0..Len(heard)  BY <1>2
  <2>2. Max(1..i) \in 1..i /\ \A j \in 1..i : Max(1..i) >= j  BY <1>2, <2>1, MaxIs
  <2>3. Max(1..i) = i  BY <2>1, <2>2
  <2>4. (1..i) \ {i} = 1..(i - 1)  OBVIOUS
  <2>5. iter[1..i] = Better(g, iter[1..(i - 1)], heard[i])
    <3>1. iter[1..i] = Step(iter, 1..i)  BY <1>8, <2>1
    <3> QED  BY <2>1, <2>3, <2>4, <3>1
  <2> QED  BY <2>1, <2>5
<1>11. it[Len(heard)] = iter[S]  BY <1>2
<1> HIDE DEF it
<1> QED  BY <1>1, <1>9, <1>10, <1>11

\* What QueryGroup takes from the results is an answer that none of them beats.
LEMMA BestIs ==
  ASSUME AsksOK, NEW g \in Groups, NEW heard \in Seq(Addresses)
  PROVE  Best(ask[g], heard, FoldLeft(LAMBDA best, a : Better(g, best, a), "none", heard))
<1> DEFINE First(i) == {heard[j] : j \in 1..i}
           Upto(i) == {a \in First(i) : ask[g][a].why = "answer"}
           P(i, best) == IF Upto(i) = {} THEN best = "none"
                         ELSE best \in Upto(i) /\ \A a \in Upto(i) : ask[g][best].latency <= ask[g][a].latency
<1>1. PICK it : /\ it[0] = "none"
                /\ \A i \in 1..Len(heard) : it[i] = Better(g, it[i - 1], heard[i])
                /\ FoldLeft(LAMBDA best, a : Better(g, best, a), "none", heard) = it[Len(heard)]
  BY FoldIs
<1>2. Len(heard) \in Nat /\ \A i \in 1..Len(heard) : heard[i] \in Addresses  BY LenProperties, ElementOfSeq
<1>3. \A a \in Addresses : ask[g][a].latency \in Nat /\ a # "none"
  <2>1. Latencies \cup {0} \subseteq Nat /\ "none" \notin Addresses  BY UpstreamsConstants
  <2>2. \A a \in Addresses : ask[g][a] \in Call  BY DEF AsksOK, Callers
  <2>3. \A a \in Addresses : ask[g][a].latency \in Latencies \cup {0}  BY <2>2 DEF Call
  <2> QED  BY <2>1, <2>3
<1> DEFINE Bad == {i \in 0..Len(heard) : ~P(i, it[i])}
<1>4. ASSUME Bad # {} PROVE FALSE
  <2>1. Bad \subseteq Nat  BY <1>2
  <2>2. PICK k \in Bad : \A j \in Bad : k <= j
    <3> HIDE DEF Bad
    <3> QED  BY <1>4, <2>1, LeastOne
  <2>3. k \in 0..Len(heard) /\ ~P(k, it[k])  OBVIOUS
  <2>4. CASE k = 0
    <3>1. Upto(0) = {}  OBVIOUS
    <3> QED  BY <1>1, <2>3, <2>4, <3>1
  <2>5. CASE k # 0
    <3>1. k \in 1..Len(heard) /\ k - 1 \in 0..Len(heard) /\ k - 1 < k  BY <1>2, <2>3, <2>5
    <3>2. k - 1 \notin Bad
      <4> HIDE DEF Bad
      <4> QED  BY <2>2, <3>1
    <3>3. P(k - 1, it[k - 1])  BY <3>1, <3>2
    <3> DEFINE a == heard[k]
               b == it[k - 1]
    <3>4. it[k] = Better(g, b, a) /\ a \in Addresses  BY <1>1, <1>2, <3>1
    <3>5. First(k) = First(k - 1) \cup {a} /\ First(k - 1) \subseteq Addresses
      <4>1. 1..k = (1..(k - 1)) \cup {k} /\ \A j \in 1..(k - 1) : j \in 1..Len(heard)  BY <1>2, <3>1
      <4> QED  BY <1>2, <4>1
    <3>6. Upto(k) = Upto(k - 1) \cup (IF ask[g][a].why = "answer" THEN {a} ELSE {}) /\ Upto(k - 1) \subseteq Addresses
      <4> HIDE DEF First
      <4> QED  BY <3>5
    <3> HIDE DEF Upto, a, b
    <3>7. Upto(k - 1) # {} => b \in Upto(k - 1) /\ \A e \in Upto(k - 1) : ask[g][b].latency <= ask[g][e].latency
      BY <3>3 DEF b
    <3>8. Upto(k - 1) = {} => b = "none"  BY <3>3 DEF b
    <3>9. P(k, it[k])
      <4>1. CASE ask[g][a].why # "answer"
        <5>1. it[k] = b /\ Upto(k) = Upto(k - 1)  BY <3>4, <3>6, <4>1 DEF Better
        <5> QED  BY <3>7, <3>8, <5>1
      <4>2. CASE ask[g][a].why = "answer" /\ Upto(k - 1) = {}
        <5>1. it[k] = a /\ Upto(k) = {a}  BY <3>4, <3>6, <3>8, <4>2 DEF Better
        <5> QED  BY <1>3, <3>4, <5>1
      <4>3. CASE ask[g][a].why = "answer" /\ Upto(k - 1) # {}
        <5>1. Upto(k) = Upto(k - 1) \cup {a}  BY <3>6, <4>3
        <5>2. b \in Addresses /\ b # "none"  BY <1>3, <3>6, <3>7, <4>3
        <5>3. it[k] = IF ask[g][a].latency < ask[g][b].latency THEN a ELSE b  BY <3>4, <4>3, <5>2 DEF Better
        <5>4. \A e \in Upto(k - 1) : e \in Addresses /\ ask[g][e].latency \in Nat  BY <1>3, <3>6
        <5>5. ask[g][a].latency \in Nat /\ ask[g][b].latency \in Nat  BY <1>3, <3>4, <5>2
        <5>6. it[k] \in Upto(k)  BY <3>7, <4>3, <5>1, <5>3
        <5>7. ASSUME NEW e \in Upto(k) PROVE ask[g][it[k]].latency <= ask[g][e].latency
          <6>1. CASE e = a  BY <5>3, <5>5, <6>1
          <6>2. CASE e \in Upto(k - 1)
            <7>1. ask[g][b].latency <= ask[g][e].latency  BY <3>7, <4>3, <6>2
            <7> QED  BY <5>3, <5>4, <5>5, <6>2, <7>1
          <6> QED  BY <5>1, <6>1, <6>2
        <5> QED  BY <5>6, <5>7
      <4> QED  BY <4>1, <4>2, <4>3
    <3> QED  BY <2>3, <3>9
  <2> QED  BY <2>4, <2>5
<1>5. P(Len(heard), it[Len(heard)])
  <2>1. Len(heard) \in 0..Len(heard)  BY <1>2
  <2> QED  BY <1>4, <2>1
<1>6. ToSet(heard) = First(Len(heard))  BY LenProperties DEF ToSet
<1>7. Ok(ask[g], heard) = Upto(Len(heard))  BY <1>6 DEF Ok
<1> QED  BY <1>1, <1>5, <1>7 DEF Best

\* As many different results as servers were asked: every server has been heard.
LEMMA AllHeard ==
  ASSUME NEW s \in Seq(Addresses), NEW r \in Seq(Addresses), Len(r) = Len(s), ToSet(r) \subseteq ToSet(s),
         \A i, j \in 1..Len(r) : r[i] = r[j] => i = j
  PROVE  ToSet(r) = ToSet(s)
<1>1. /\ Len(r) \in Nat /\ DOMAIN r = 1..Len(r) /\ DOMAIN s = 1..Len(r)
      /\ r \in [1..Len(r) -> ToSet(r)] /\ s \in [1..Len(r) -> ToSet(s)]
  BY LenProperties DEF ToSet
<1>2. IsFiniteSet(1..Len(r)) /\ Cardinality(1..Len(r)) = Len(r)
  <2>1. PICK n \in Nat : n = Len(r)  BY <1>1
  <2>2. 1 \in Int /\ n \in Int  OBVIOUS
  <2>3. IsFiniteSet(1..n) /\ Cardinality(1..n) = IF 1 > n THEN 0 ELSE n - 1 + 1  BY <2>2, FS_Interval
  <2> QED  BY <2>1, <2>3
<1>3. s \in Surjection(1..Len(r), ToSet(s))  BY <1>1 DEF ToSet, Surjection
<1>4. IsFiniteSet(ToSet(s)) /\ Cardinality(ToSet(s)) <= Len(r)  BY <1>2, <1>3, FS_Surjection
<1>5. r \in Injection(1..Len(r), ToSet(s))
  <2>1. r \in [1..Len(r) -> ToSet(s)]  BY <1>1
  <2> QED  BY <2>1 DEF Injection, IsInjective
<1>6. Len(r) <= Cardinality(ToSet(s)) /\ (Cardinality(ToSet(s)) = Len(r) => r \in Surjection(1..Len(r), ToSet(s)))
  BY <1>2, <1>4, <1>5, FS_Injection
<1>7. Cardinality(ToSet(s)) \in Nat  BY <1>4, FS_CardinalityType
<1>8. r \in Surjection(1..Len(r), ToSet(s))  BY <1>1, <1>4, <1>6, <1>7
<1>9. \A a \in ToSet(s) : \E i \in 1..Len(r) : r[i] = a  BY <1>8 DEF Surjection
<1>10. \A a \in ToSet(s) : a \in ToSet(r)  BY <1>1, <1>9
<1> QED  BY <1>10

\* Calls of Query that are not over yet say nothing; the ones of a call of QueryGroup that is over are.
LEMMA HearingOne ==
  ASSUME NEW x, GroupOK(x), NEW q, NEW r, Hearing(x, q), NEW a \in Addresses,
         q[a].at \in {"find", "sent", "outcome"}, r[a].at \notin {"off", "posted"},
         \A e \in Addresses : e # a => r[e] = q[e]
  PROVE  Hearing(x, r)
<1>1. a \in ToSet(x.selected) /\ a \notin ToSet(x.results)  BY DEF Hearing
<1>2. x.at # "done"  BY <1>1 DEF Hearing
<1> QED  BY <1>1, <1>2 DEF Hearing

LEMMA HearingPost ==
  ASSUME NEW x, GroupOK(x), NEW q, NEW r, Hearing(x, q), NEW a \in Addresses,
         q[a].at \in {"find", "sent", "outcome"}, r[a].at = "posted",
         \A e \in Addresses : e # a => r[e] = q[e], NEW y, y = [x EXCEPT !.results = Append(x.results, a)]
  PROVE  Hearing(y, r)
<1>1. a \in ToSet(x.selected) /\ a \notin ToSet(x.results)  BY DEF Hearing
<1>2. x.at # "done"  BY <1>1 DEF Hearing
<1>3. x.results \in Seq(Addresses) /\ Len(x.results) \in Nat  BY LenProperties DEF GroupOK
<1>4. /\ y.at = x.at /\ y.best = x.best /\ y.selected = x.selected /\ y.results = Append(x.results, a)  BY DEF GroupOK
<1>5. /\ Len(y.results) = Len(x.results) + 1 /\ y.results[Len(x.results) + 1] = a
      /\ \A i \in 1..Len(x.results) : y.results[i] = x.results[i]
      /\ DOMAIN y.results = 1..(Len(x.results) + 1)
  BY <1>3, <1>4, AppendProperties
<1>6. ToSet(y.results) = ToSet(x.results) \cup {a}
  <2>1. 1..(Len(x.results) + 1) = (1..Len(x.results)) \cup {Len(x.results) + 1}  BY <1>3
  <2> QED  BY <1>3, <1>5, <2>1 DEF ToSet
<1>7. \A i \in 1..Len(x.results) : x.results[i] # a  BY <1>1, <1>3 DEF ToSet
<1>8. \A i, j \in 1..Len(y.results) : y.results[i] = y.results[j] => i = j
  <2> SUFFICES ASSUME NEW i \in 1..Len(y.results), NEW j \in 1..Len(y.results), y.results[i] = y.results[j] PROVE i = j
    OBVIOUS
  <2>1. (i \in 1..Len(x.results) \/ i = Len(x.results) + 1) /\ (j \in 1..Len(x.results) \/ j = Len(x.results) + 1)
    BY <1>3, <1>5
  <2>2. CASE i \in 1..Len(x.results) /\ j \in 1..Len(x.results)  BY <1>5, <2>2 DEF Hearing
  <2> QED  BY <1>5, <1>7, <2>1, <2>2
<1>9. \A e \in Addresses : e \in ToSet(y.results) <=> r[e].at = "posted"  BY <1>6 DEF Hearing
<1>10. \A e \in Addresses : r[e].at # "off" => e \in ToSet(y.selected)  BY <1>1, <1>4 DEF Hearing
<1> QED  BY <1>2, <1>4, <1>8, <1>9, <1>10 DEF Hearing

\* Neither the calls of QueryGroup nor theirs of Query change.
LEMMA HeardSame ==
  ASSUME Heard, group' = group, \A g \in Groups : ask'[g] = ask[g] PROVE Heard'
<1>1. \A g \in Groups : Hearing(group'[g], ask'[g])  BY DEF Heard
<1> QED  BY <1>1 DEF Heard, Hearing, Best, Ok

\* A step of one call of Query.
LEMMA HeardCall ==
  ASSUME IInv, Heard, NEW c \in Callers, NEW a \in Addresses, Only(c, a), \A d \in Callers : d # c => ask'[d] = ask[d],
         ask[c][a].at \in {"find", "sent", "outcome"}, ask'[c][a].at # "off",
         IF ask'[c][a].at = "posted" /\ c \in Groups THEN group' = [group EXCEPT ![c].results = Append(@, a)]
         ELSE group' = group
  PROVE  Heard'
<1>1. GroupsOK  BY TypeParts DEF IInv
<1>2. \A g \in Groups : g \in Callers  BY DEF Callers
<1>3. CASE c \notin Groups  BY <1>2, <1>3, HeardSame
<1>4. CASE c \in Groups
  <2>1. GroupOK(group[c]) /\ Hearing(group[c], ask[c])  BY <1>1, <1>4 DEF GroupsOK, Heard
  <2>2. \A e \in Addresses : e # a => ask'[c][e] = ask[c][e]  BY DEF Only
  <2>3. Hearing(group'[c], ask'[c]) /\ \A g \in Groups : g # c => group'[g] = group[g]
    <3>1. CASE ask'[c][a].at = "posted"
      <4> DEFINE y == [group[c] EXCEPT !.results = Append(group[c].results, a)]
      <4>1. group' = [group EXCEPT ![c] = y]  BY <1>4, <3>1
      <4>2. Hearing(y, ask'[c])
        <5> HIDE DEF y
        <5>1. y = [group[c] EXCEPT !.results = Append(group[c].results, a)]  BY DEF y
        <5> QED  BY <2>1, <2>2, <3>1, <5>1, HearingPost
      <4> HIDE DEF y
      <4>3. group'[c] = y /\ \A g \in Groups : g # c => group'[g] = group[g]  BY <1>1, <1>4, <4>1 DEF GroupsOK
      <4> QED  BY <4>2, <4>3
    <3>2. CASE ask'[c][a].at # "posted"
      <4>1. group' = group /\ ask'[c][a].at \notin {"off", "posted"}  BY <3>2
      <4>2. Hearing(group[c], ask'[c])  BY <2>1, <2>2, <4>1, HearingOne
      <4> QED  BY <4>1, <4>2
    <3> QED  BY <3>1, <3>2
  <2>4. \A g \in Groups : Hearing(group'[g], ask'[g])  BY <1>2, <2>3 DEF Heard
  <2> QED  BY <2>4 DEF Heard, Hearing, Best, Ok
<1> QED  BY <1>3, <1>4

\* Writing one field or more of one call of Query.
LEMMA CallWrite ==
  ASSUME AsksOK, NEW c \in Callers, NEW a \in Addresses, NEW x, ask' = [ask EXCEPT ![c][a] = x]
  PROVE  /\ Only(c, a) /\ ask'[c][a] = x /\ \A d \in Callers : d # c => ask'[d] = ask[d]
<1>1. ask[c] \in [Addresses -> Call] /\ ask \in [Callers -> [Addresses -> Call]]  BY DEF AsksOK
<1>2. \A d \in Callers : ask'[d] = IF d = c THEN [ask[c] EXCEPT ![a] = x] ELSE ask[d]  BY <1>1
<1>3. Only(c, a)  BY <1>1, <1>2 DEF Only
<1> QED  BY <1>1, <1>2, <1>3

LEMMA FindHeard == ASSUME IInv, Heard, NEW c \in Callers, NEW a \in Addresses, Find(c, a) PROVE Heard'
<1>1. AsksOK /\ ask[c][a].at = "find" /\ ask[c][a] \in Call  BY TypeParts DEF IInv, Find, AsksOK
<1>2. ASSUME NEW why, ask' = [ask EXCEPT ![c][a].at = "posted", ![c][a].why = why], Post(c, a) PROVE Heard'
  <2> DEFINE x == [ask[c][a] EXCEPT !.at = "posted", !.why = why]
  <2>1. x.at = "posted"  BY <1>1 DEF Call
  <2>2. ask' = [ask EXCEPT ![c][a] = x]  BY <1>1, <1>2 DEF AsksOK
  <2> HIDE DEF x
  <2>3. /\ Only(c, a) /\ ask'[c][a].at = "posted"
        /\ \A d \in Callers : d # c => ask'[d] = ask[d]
    <3>1. Only(c, a) /\ ask'[c][a] = x /\ \A d \in Callers : d # c => ask'[d] = ask[d]
      BY <1>1, <2>2, CallWrite
    <3> QED  BY <2>1, <3>1
  <2>4. IF c \in Groups THEN group' = [group EXCEPT ![c].results = Append(@, a)] ELSE group' = group
    BY <1>2 DEF Post
  <2> QED  BY <1>1, <2>3, <2>4, HeardCall
<1>3. ASSUME NEW i, ask' = [ask EXCEPT ![c][a].at = "sent", ![c][a].i = i], group' = group PROVE Heard'
  <2> DEFINE x == [ask[c][a] EXCEPT !.at = "sent", !.i = i]
  <2>1. x.at = "sent"  BY <1>1 DEF Call
  <2>2. ask' = [ask EXCEPT ![c][a] = x]  BY <1>1, <1>3 DEF AsksOK
  <2> HIDE DEF x
  <2>3. /\ Only(c, a) /\ ask'[c][a].at = "sent"
        /\ \A d \in Callers : d # c => ask'[d] = ask[d]
    <3>1. Only(c, a) /\ ask'[c][a] = x /\ \A d \in Callers : d # c => ask'[d] = ask[d]
      BY <1>1, <2>2, CallWrite
    <3> QED  BY <2>1, <3>1
  <2> QED  BY <1>1, <1>3, <2>3, HeardCall
<1>4. \/ \E why : ask' = [ask EXCEPT ![c][a].at = "posted", ![c][a].why = why] /\ Post(c, a)
      \/ \E i : ask' = [ask EXCEPT ![c][a].at = "sent", ![c][a].i = i] /\ group' = group
  BY DEF Find
<1> QED  BY <1>2, <1>3, <1>4

LEMMA EndsHeard ==
  ASSUME IInv, Heard, NEW c \in Callers, NEW a \in Addresses, NEW why, NEW ns, Ends(c, a, why, ns) PROVE Heard'
<1> DEFINE x == [ask[c][a] EXCEPT !.at = "outcome", !.why = why, !.latency = ns]
<1>1. AsksOK /\ ask[c][a].at = "sent" /\ ask[c][a] \in Call /\ group' = group  BY TypeParts DEF IInv, Ends, AsksOK
<1>2. x.at = "outcome"  BY <1>1 DEF Call
<1>3. ask' = [ask EXCEPT ![c][a] = x]  BY <1>1 DEF AsksOK, Ends
<1> HIDE DEF x
<1>4. /\ Only(c, a) /\ ask'[c][a].at = "outcome"
        /\ \A d \in Callers : d # c => ask'[d] = ask[d]
  <2>1. Only(c, a) /\ ask'[c][a] = x /\ \A d \in Callers : d # c => ask'[d] = ask[d]
    BY <1>1, <1>3, CallWrite
  <2> QED  BY <1>2, <2>1
<1> QED  BY <1>1, <1>4, HeardCall

LEMMA RecordHeard == ASSUME IInv, Heard, NEW c \in Callers, NEW a \in Addresses, Record(c, a) PROVE Heard'
<1> DEFINE x == [ask[c][a] EXCEPT !.at = "posted"]
<1>1. AsksOK /\ ask[c][a].at = "outcome" /\ ask[c][a] \in Call  BY TypeParts DEF IInv, Record, AsksOK
<1>2. x.at = "posted"  BY <1>1 DEF Call
<1>3. ask' = [ask EXCEPT ![c][a] = x]  BY <1>1 DEF AsksOK, Record
<1> HIDE DEF x
<1>4. /\ Only(c, a) /\ ask'[c][a].at = "posted"
        /\ \A d \in Callers : d # c => ask'[d] = ask[d]
  <2>1. Only(c, a) /\ ask'[c][a] = x /\ \A d \in Callers : d # c => ask'[d] = ask[d]
    BY <1>1, <1>3, CallWrite
  <2> QED  BY <1>2, <2>1
<1>5. IF c \in Groups THEN group' = [group EXCEPT ![c].results = Append(@, a)] ELSE group' = group
  BY DEF Record, Post
<1> QED  BY <1>1, <1>4, <1>5, HeardCall

LEMMA QueryGroupHeard == ASSUME IInv, Heard, NEW g \in Groups, NEW n, QueryGroup(g, n) PROVE Heard'
<1> PICK s : s = SubSeq(cfg, 1, Min({n, Len(cfg)}))  OBVIOUS
<1> DEFINE y == [group[g] EXCEPT !.at = "waiting", !.selected = s]
           calls == [a \in Addresses |-> IF a \in ToSet(s) THEN [NoAsk EXCEPT !.at = "find"] ELSE NoAsk]
<1>1. GroupsOK /\ AsksOK /\ NotYet /\ GroupOK(group[g]) /\ Hearing(group[g], ask[g])
  BY TypeParts DEF IInv, GroupsOK, Heard
<1>2. /\ group[g].at = "new" /\ group' = [group EXCEPT ![g] = y] /\ ask' = [ask EXCEPT ![g] = calls]
  BY DEF QueryGroup
<1>3. \A a \in Addresses : ask[g][a].at = "off"  BY <1>1, <1>2 DEF NotYet
<1>4. \A a \in Addresses : calls[a].at = IF a \in ToSet(s) THEN "find" ELSE "off"  BY DEF NoAsk
<1>5. y.at = "waiting" /\ y.best = group[g].best /\ y.results = group[g].results /\ y.selected = s
  BY <1>1 DEF GroupOK
<1> HIDE DEF y, calls
<1>6. Hearing(y, calls)
  <2>1. /\ group[g].best = "none"
        /\ \A i, j \in 1..Len(y.results) : y.results[i] = y.results[j] => i = j
        /\ \A a \in Addresses : a \in ToSet(y.results) <=> ask[g][a].at = "posted"
    BY <1>1, <1>2, <1>5 DEF Hearing
  <2>2. \A a \in Addresses : a \in ToSet(y.results) <=> calls[a].at = "posted"  BY <1>3, <1>4, <2>1
  <2>3. \A a \in Addresses : calls[a].at # "off" => a \in ToSet(y.selected)  BY <1>4, <1>5
  <2> QED  BY <1>5, <2>1, <2>2, <2>3 DEF Hearing
<1>7. group'[g] = y /\ ask'[g] = calls /\ \A h \in Groups : h # g => group'[h] = group[h] /\ ask'[h] = ask[h]
  BY <1>1, <1>2 DEF GroupsOK, AsksOK, Callers
<1>8. \A h \in Groups : Hearing(group'[h], ask'[h])  BY <1>6, <1>7 DEF Heard
<1> QED  BY <1>8 DEF Heard, Hearing, Best, Ok

LEMMA ReturnHeard == ASSUME IInv, Heard, NEW g \in Groups, Return(g) PROVE Heard'
<1> PICK heard : heard = group[g].results  OBVIOUS
<1> PICK best : best = FoldLeft(LAMBDA b, a : Better(g, b, a), "none", heard)  OBVIOUS
<1> DEFINE y == [group[g] EXCEPT !.at = "done", !.best = best]
<1>1. GroupsOK /\ AsksOK /\ GroupOK(group[g]) /\ Hearing(group[g], ask[g])
  BY TypeParts DEF IInv, GroupsOK, Heard
<1>2. group[g].at = "waiting" /\ Len(heard) = Len(group[g].selected) /\ ask' = ask  BY DEF Return
<1>3. group[g].best = "none"  BY <1>1, <1>2 DEF Hearing
<1>4. group' = [group EXCEPT ![g] = y]  BY <1>1, <1>3 DEF Return, GroupsOK
<1>5. heard \in Seq(Addresses) /\ group[g].selected \in Seq(Addresses)  BY <1>1 DEF GroupOK
<1>6. Best(ask[g], heard, best)  BY <1>1, <1>5, BestIs
<1>7. ToSet(heard) = ToSet(group[g].selected)
  <2>1. \A a \in ToSet(heard) : a \in Addresses
    <3>1. heard \in [1..Len(heard) -> Addresses] /\ DOMAIN heard = 1..Len(heard)  BY <1>5, LenProperties
    <3> QED  BY <3>1 DEF ToSet
  <2>2. ToSet(heard) \subseteq ToSet(group[g].selected)  BY <1>1, <2>1 DEF Hearing
  <2>3. \A i, j \in 1..Len(heard) : heard[i] = heard[j] => i = j  BY <1>1 DEF Hearing
  <2> QED  BY <1>2, <1>5, <2>2, <2>3, AllHeard
<1>8. y.at = "done" /\ y.best = best /\ y.results = heard /\ y.selected = group[g].selected  BY <1>1 DEF GroupOK
<1> HIDE DEF y
<1>9. Hearing(y, ask[g])
  <2>1. /\ \A i, j \in 1..Len(heard) : heard[i] = heard[j] => i = j
        /\ \A a \in Addresses : a \in ToSet(heard) <=> ask[g][a].at = "posted"
        /\ \A a \in Addresses : ask[g][a].at # "off" => a \in ToSet(group[g].selected)
    BY <1>1 DEF Hearing
  <2>2. \A i, j \in 1..Len(y.results) : y.results[i] = y.results[j] => i = j  BY <1>8, <2>1
  <2>3. \A a \in Addresses : a \in ToSet(y.results) <=> ask[g][a].at = "posted"  BY <1>8, <2>1
  <2>4. \A a \in Addresses : ask[g][a].at # "off" => a \in ToSet(y.selected)  BY <1>8, <2>1
  <2>5. Len(y.results) = Len(y.selected)  BY <1>2, <1>8
  <2>6. ToSet(y.results) = ToSet(y.selected)  BY <1>7, <1>8
  <2>7. Best(ask[g], y.results, y.best)  BY <1>6, <1>8
  <2> QED  BY <1>8, <2>2, <2>3, <2>4, <2>5, <2>6, <2>7 DEF Hearing
<1>10. group'[g] = y /\ \A h \in Groups : h # g => group'[h] = group[h]  BY <1>1, <1>4 DEF GroupsOK
<1>11. \A h \in Groups : Hearing(group'[h], ask'[h])  BY <1>2, <1>9, <1>10 DEF Heard
<1> QED  BY <1>11 DEF Heard, Hearing, Best, Ok

LEMMA ProbeHeard == ASSUME IInv, Heard, NEW a \in Addresses, Probe(a) PROVE Heard'
<1>1. AsksOK  BY TypeParts DEF IInv
<1>2. group' = group /\ ask' = [ask EXCEPT !["status"][a].at = "find"]  BY DEF Probe
<1>3. \A g \in Groups : g # "status" /\ g \in Callers  BY UpstreamsConstants DEF Callers
<1>4. \A g \in Groups : ask'[g] = ask[g]  BY <1>1, <1>2, <1>3 DEF AsksOK
<1> QED  BY <1>2, <1>4, HeardSame

LEMMA QueryHeard == ASSUME IInv, Heard, NEW c \in Callers, Query(c) PROVE Heard'
<1> PICK a \in Addresses : \/ Find(c, a) \/ Record(c, a)
                           \/ \E l \in Latencies : Answer(c, a, l)
                           \/ \E why \in Failures : Fail(c, a, why)
  BY DEF Query
<1>1. ASSUME NEW l, Answer(c, a, l) PROVE Heard'  BY <1>1, EndsHeard DEF Answer
<1>2. ASSUME NEW why, Fail(c, a, why) PROVE Heard'  BY <1>2, EndsHeard DEF Fail
<1> QED  BY <1>1, <1>2, FindHeard, RecordHeard

LEMMA NextHeard == ASSUME IInv, Heard, [Next]_vars PROVE Heard'
<1>1. ASSUME NEW g \in Groups, Group(g) PROVE Heard'
  <2>1. g \in Callers  BY DEF Callers
  <2> QED  BY <1>1, <2>1, QueryHeard, ReturnHeard DEF Group
<1>2. ASSUME NEW g \in Groups, NEW n \in Concurrencies, QueryGroup(g, n) PROVE Heard'  BY <1>2, QueryGroupHeard
<1>3. CASE Query("status")
  <2>1. "status" \in Callers  BY DEF Callers
  <2> QED  BY <1>3, <2>1, QueryHeard
<1>4. ASSUME NEW a \in Addresses, Probe(a) PROVE Heard'  BY <1>4, ProbeHeard
<1>5. ASSUME UNCHANGED <<group, ask>> PROVE Heard'  BY <1>5, HeardSame
<1>6. \/ \E g \in Groups : Group(g) \/ \E n \in Concurrencies : QueryGroup(g, n)
      \/ Query("status") \/ (\E a \in Addresses : Probe(a)) \/ UNCHANGED <<group, ask>>
  <2>1. StatusBegin \/ SnapshotRequests \/ SnapshotRest \/ StatusEnd => UNCHANGED <<group, ask>>
    BY DEF StatusBegin, SnapshotRequests, SnapshotRest, StatusEnd
  <2>2. \/ (\E c \in Configs : UpdateConfig(c)) \/ AddUpstreamLock \/ AddUpstream
        \/ \E i \in 1..Len(object) : Cool(i)
        => UNCHANGED <<group, ask>>
    BY DEF UpdateConfig, AddUpstreamLock, AddUpstream, Cool
  <2>3. UNCHANGED vars => UNCHANGED <<group, ask>>  BY DEF vars
  <2> QED  BY <2>1, <2>2, <2>3 DEF Next, Statuses
<1> QED  BY <1>1, <1>2, <1>3, <1>4, <1>5, <1>6

LEMMA InitHeard == ASSUME Init PROVE Heard
<1> SUFFICES ASSUME NEW g \in Groups PROVE Hearing(group[g], ask[g])  BY DEF Heard
<1>1. group[g] = [at |-> "new", selected |-> <<>>, results |-> <<>>, best |-> "none"]  BY DEF Init
<1>2. \A a \in Addresses : ask[g][a].at = "off"  BY DEF Init, Callers, NoAsk
<1>3. group[g].at = "new" /\ group[g].best = "none" /\ group[g].results = <<>>  BY <1>1
<1>4. Len(group[g].results) = 0 /\ ToSet(group[g].results) = {}  BY <1>3 DEF ToSet
<1> QED  BY <1>2, <1>3, <1>4 DEF Hearing

\* client.go:247-264: for any number of upstreams, groups, configuration changes and interleavings of
\* the answers, QueryGroup has heard every server it asked exactly once when it returns, and what it
\* returns is an answer that none of them beats, or an error if and only if none of them answered.
THEOREM UpstreamsFastestAnswer == Spec => []FastestAnswer
<1>1. Heard => FastestAnswer  BY DEF Heard, Hearing, Best, Ok, FastestAnswer
<1>2. Init => Heard  BY InitHeard
<1>3. IInv /\ Heard /\ [Next]_vars => Heard'  BY NextHeard
<1> QED  BY <1>1, <1>2, <1>3, Invariant, PTL DEF Spec
-----------------------------------------------------------------------------
\* Counting.  How many of the values are not above x.
NotAboveIn(s, x) == {k \in 1..Len(s) : s[k] <= x}
Ascends(s) == \A i, j \in 1..Len(s) : i < j => s[i] <= s[j]

\* The same values, in any order.
SameBag(s, t) == /\ Len(s) = Len(t)
                 /\ \E f \in Bijection(1..Len(s), 1..Len(s)) : \A k \in 1..Len(s) : s[k] = t[f[k]]

LEMMA NotAboveFinite ==
  ASSUME NEW s \in Seq(Nat), NEW x
  PROVE  IsFiniteSet(NotAboveIn(s, x)) /\ Cardinality(NotAboveIn(s, x)) \in Nat
<1>1. Len(s) \in Nat  BY LenProperties
<1>2. IsFiniteSet(1..Len(s))  BY <1>1, FS_Interval
<1>3. NotAboveIn(s, x) \in SUBSET (1..Len(s))  BY DEF NotAboveIn
<1> QED  BY <1>2, <1>3, FS_Subset, FS_CardinalityType

\* A bijection takes the places of the one to the places of the other.
LEMMA SameCounts ==
  ASSUME NEW s \in Seq(Nat), NEW t \in Seq(Nat), SameBag(s, t), NEW x
  PROVE  Cardinality(NotAboveIn(s, x)) = Cardinality(NotAboveIn(t, x))
<1> DEFINE n == Len(s)
           A == NotAboveIn(s, x)
           B == NotAboveIn(t, x)
<1>1. PICK f \in Bijection(1..n, 1..n) : \A k \in 1..n : s[k] = t[f[k]]  BY DEF SameBag
<1>2. Len(t) = n  BY DEF SameBag
<1>3. f \in [1..n -> 1..n] /\ (\A i, j \in 1..n : f[i] = f[j] => i = j) /\ \A k \in 1..n : \E i \in 1..n : f[i] = k
  BY <1>1 DEF Bijection, Injection, Surjection, IsInjective
<1> DEFINE g == [k \in A |-> f[k]]
<1>4. A = {k \in 1..n : s[k] <= x} /\ B = {k \in 1..n : t[k] <= x}  BY <1>2 DEF NotAboveIn
<1>5. \A k \in 1..n : k \in A <=> f[k] \in B  BY <1>1, <1>3, <1>4
<1> HIDE DEF A, B
<1>6. g \in [A -> B]  BY <1>3, <1>4, <1>5
<1>7. \A i, j \in A : g[i] = g[j] => i = j  BY <1>3, <1>4
<1>8. \A k \in B : \E i \in A : g[i] = k
  <2> SUFFICES ASSUME NEW k \in B PROVE \E i \in A : g[i] = k  OBVIOUS
  <2>1. k \in 1..n  BY <1>4
  <2>2. PICK i \in 1..n : f[i] = k  BY <1>3, <2>1
  <2>3. i \in A  BY <1>5, <2>2
  <2> QED  BY <2>2, <2>3
<1>9. g \in Bijection(A, B)
  <2> HIDE DEF g
  <2>1. DOMAIN g = A  BY <1>6
  <2> QED  BY <1>6, <1>7, <1>8, <2>1 DEF Bijection, Injection, Surjection, IsInjective
<1>10. ExistsBijection(A, B)  BY <1>9 DEF ExistsBijection
<1>11. IsFiniteSet(A)  BY NotAboveFinite DEF A
<1> QED  BY <1>10, <1>11, FS_Bijection DEF A, B

\* In an ascending sequence the values not above x are the first ones.
LEMMA AscendingRank ==
  ASSUME NEW t \in Seq(Nat), Ascends(t), NEW x \in Nat, NEW k \in 1..Len(t)
  PROVE  t[k] <= x <=> k <= Cardinality(NotAboveIn(t, x))
<1> DEFINE A == NotAboveIn(t, x)
<1>1. Len(t) \in Nat /\ \A i \in 1..Len(t) : t[i] \in Nat  BY LenProperties, ElementOfSeq
<1>2. IsFiniteSet(A) /\ Cardinality(A) \in Nat  BY NotAboveFinite
<1>3. A = {i \in 1..Len(t) : t[i] <= x}  BY DEF NotAboveIn
<1> HIDE DEF A
<1>4. CASE t[k] <= x
  <2>1. \A i \in 1..k : i \in 1..Len(t) /\ t[i] <= x
    <3> SUFFICES ASSUME NEW i \in 1..k PROVE i \in 1..Len(t) /\ t[i] <= x  OBVIOUS
    <3>1. i \in 1..Len(t) /\ (i = k \/ i < k)  BY <1>1
    <3> QED  BY <1>1, <1>4, <3>1 DEF Ascends
  <2>2. 1..k \in SUBSET A  BY <1>3, <2>1
  <2>3. Cardinality(1..k) = k  BY FS_Interval
  <2>4. Cardinality(1..k) <= Cardinality(A)  BY <1>2, <2>2, FS_Subset
  <2> QED  BY <1>4, <2>3, <2>4 DEF A
<1>5. CASE ~(t[k] <= x)
  <2>1. \A i \in A : i \in 1..(k - 1)
    <3> SUFFICES ASSUME NEW i \in A PROVE i \in 1..(k - 1)  OBVIOUS
    <3>1. i \in 1..Len(t) /\ t[i] <= x  BY <1>3
    <3>2. CASE i = k  BY <1>5, <3>1, <3>2
    <3>3. CASE i > k  
      <4>1. t[k] <= t[i]  BY <3>1, <3>3 DEF Ascends
      <4> QED  BY <1>1, <1>5, <3>1, <4>1
    <3>4. CASE i < k  BY <1>1, <3>1, <3>4
    <3> QED  BY <1>1, <3>1, <3>2, <3>3, <3>4
  <2>2. A \in SUBSET (1..(k - 1))  BY <2>1
  <2>3. IsFiniteSet(1..(k - 1)) /\ Cardinality(1..(k - 1)) = k - 1
    <3>1. 1 \in Int /\ k - 1 \in Int /\ ((1 > k - 1) => k - 1 = 0)  BY <1>1
    <3> QED  BY <3>1, FS_Interval
  <2>4. Cardinality(A) <= k - 1
    <3>1. PICK b : b = 1..(k - 1)  OBVIOUS
    <3>2. IsFiniteSet(b) /\ A \in SUBSET b /\ Cardinality(b) = k - 1  BY <2>2, <2>3, <3>1
    <3>3. Cardinality(A) <= Cardinality(b)  BY <3>2, FS_Subset
    <3> QED  BY <3>2, <3>3
  <2> QED  BY <1>1, <1>2, <1>5, <2>4 DEF A
<1> QED  BY <1>4, <1>5

\* There is one way only to put the same values in ascending order.
LEMMA AscendingUnique ==
  ASSUME NEW s \in Seq(Nat), NEW t \in Seq(Nat), Ascends(s), Ascends(t), Len(s) = Len(t),
         \A x \in Nat : Cardinality(NotAboveIn(s, x)) = Cardinality(NotAboveIn(t, x))
  PROVE  s = t
<1>1. Len(s) \in Nat /\ \A k \in 1..Len(s) : s[k] \in Nat /\ t[k] \in Nat  BY LenProperties, ElementOfSeq
<1>2. ASSUME NEW k \in 1..Len(s) PROVE s[k] = t[k]
  <2>1. \A x \in Nat : s[k] <= x <=> t[k] <= x  BY AscendingRank
  <2>2. s[k] \in Nat /\ t[k] \in Nat  BY <1>1
  <2> QED  BY <2>1, <2>2
<1> QED  BY <1>2, SeqEqual

\* The place of a value in the order, equal values staying in theirs, is an order to sort them in.
LEMMA OrderExists ==
  ASSUME NEW s \in Seq(Nat)
  PROVE  \E p \in Bijection(1..Len(s), 1..Len(s)) : \A i, j \in 1..Len(s) : i < j => s[p[i]] <= s[p[j]]
<1> DEFINE n == Len(s)
           Before(i, k) == s[i] < s[k] \/ (s[i] = s[k] /\ i <= k)
           R(k) == {i \in 1..n : Before(i, k)}
           rank == [k \in 1..n |-> Cardinality(R(k))]
<1>1. n \in Nat /\ \A k \in 1..n : s[k] \in Nat  BY LenProperties, ElementOfSeq
<1>2. IsFiniteSet(1..n) /\ Cardinality(1..n) = n
  <2>1. 1 \in Int /\ n \in Int /\ (1 > n => n = 0)  BY <1>1
  <2> HIDE DEF n
  <2> QED  BY <2>1, FS_Interval
<1> HIDE DEF n
<1>3. ASSUME NEW k \in 1..n PROVE IsFiniteSet(R(k)) /\ Cardinality(R(k)) \in 1..n
  <2>1. R(k) \in SUBSET (1..n) /\ k \in R(k)  BY <1>1
  <2> HIDE DEF R
  <2>2. IsFiniteSet(R(k)) /\ Cardinality(R(k)) <= n  BY <1>2, <2>1, FS_Subset
  <2>3. Cardinality(R(k)) \in Nat /\ Cardinality(R(k)) # 0  BY <2>1, <2>2, FS_CardinalityType, FS_EmptySet
  <2> QED  BY <1>1, <2>2, <2>3
<1>4. ASSUME NEW k \in 1..n, NEW m \in 1..n, k # m, Before(k, m) PROVE Cardinality(R(k)) < Cardinality(R(m))
  <2>1. s[k] \in Nat /\ s[m] \in Nat  BY <1>1
  <2>2. R(k) \in SUBSET R(m)
    <3> SUFFICES ASSUME NEW i \in 1..n, Before(i, k) PROVE Before(i, m)  OBVIOUS
    <3>1. s[i] \in Nat  BY <1>1
    <3> QED  BY <1>1, <1>4, <2>1, <3>1
  <2>3. m \in R(m) /\ m \notin R(k)  BY <1>1, <1>4, <2>1
  <2> HIDE DEF R
  <2>4. R(k) # R(m)  BY <2>3
  <2>5. Cardinality(R(k)) <= Cardinality(R(m)) /\ Cardinality(R(k)) # Cardinality(R(m))
    BY <1>3, <2>2, <2>4, FS_Subset
  <2>6. Cardinality(R(k)) \in Nat /\ Cardinality(R(m)) \in Nat  BY <1>1, <1>3
  <2> QED  BY <2>5, <2>6
<1>5. \A k, m \in 1..n : k # m => Before(k, m) \/ Before(m, k)  BY <1>1
<1>6. rank \in [1..n -> 1..n] /\ \A k \in 1..n : rank[k] = Cardinality(R(k))  BY <1>3
<1> HIDE DEF R, rank
<1>7. \A k, m \in 1..n : k # m /\ Before(k, m) => rank[k] < rank[m]  BY <1>4, <1>6
<1>8. \A k, m \in 1..n : rank[k] = rank[m] => k = m
  <2> SUFFICES ASSUME NEW k \in 1..n, NEW m \in 1..n, k # m PROVE rank[k] # rank[m]  OBVIOUS
  <2>1. rank[k] < rank[m] \/ rank[m] < rank[k]
    <3> HIDE DEF Before
    <3> QED  BY <1>5, <1>7
  <2>2. rank[k] \in Nat /\ rank[m] \in Nat  BY <1>1, <1>6
  <2> QED  BY <2>1, <2>2
<1>9. rank \in Injection(1..n, 1..n)  BY <1>6, <1>8 DEF Injection, IsInjective
<1>10. \A v \in 1..n : \E k \in 1..n : rank[k] = v
  <2>1. rank \in Surjection(1..n, 1..n)  BY <1>2, <1>9, FS_Injection
  <2> QED  BY <2>1 DEF Surjection
<1> DEFINE p == [v \in 1..n |-> CHOOSE k \in 1..n : rank[k] = v]
<1>11. \A v \in 1..n : p[v] \in 1..n /\ rank[p[v]] = v  BY <1>10
<1>12. p \in [1..n -> 1..n]
  <2>1. \A v \in 1..n : (CHOOSE k \in 1..n : rank[k] = v) \in 1..n  BY <1>11
  <2> QED  BY <2>1
<1> HIDE DEF p
<1>13. \A k \in 1..n : p[rank[k]] = k  BY <1>6, <1>8, <1>11
<1>14. p \in Bijection(1..n, 1..n)
  <2>1. \A v, w \in 1..n : p[v] = p[w] => v = w  BY <1>11
  <2>2. \A k \in 1..n : \E v \in 1..n : p[v] = k  BY <1>6, <1>13
  <2> QED  BY <1>12, <2>1, <2>2 DEF Bijection, Injection, Surjection, IsInjective
<1>15. ASSUME NEW i \in 1..n, NEW j \in 1..n, i < j PROVE s[p[i]] <= s[p[j]]
  <2>1. p[i] \in 1..n /\ p[j] \in 1..n /\ rank[p[i]] = i /\ rank[p[j]] = j  BY <1>11
  <2>2. s[p[i]] \in Nat /\ s[p[j]] \in Nat /\ i \in Nat /\ j \in Nat /\ p[i] # p[j]  BY <1>1, <1>15, <2>1
  <2>3. CASE s[p[j]] < s[p[i]]
    <3>1. Before(p[j], p[i])  BY <2>3
    <3>2. j < i
      <4> HIDE DEF Before
      <4> QED  BY <1>7, <2>1, <2>2, <3>1
    <3> QED  BY <1>15, <2>2, <3>2
  <2> QED  BY <2>2, <2>3
<1> QED  BY <1>14, <1>15 DEF n

\* Sorted returns the values it is given, in ascending order.
LEMMA SortedIs ==
  ASSUME NEW s \in Seq(Nat)
  PROVE  /\ Sorted(s) \in Seq(Nat) /\ Len(Sorted(s)) = Len(s) /\ Ascends(Sorted(s))
         /\ SameBag(Sorted(s), s)
<1> DEFINE n == Len(s)
           Good(p) == p \in Bijection(1..n, 1..n) /\ \A i, j \in 1..n : i < j => s[p[i]] <= s[p[j]]
<1>1. n \in Nat /\ DOMAIN s = 1..n /\ \A k \in 1..n : s[k] \in Nat  BY LenProperties, ElementOfSeq
<1> PICK order : order = CHOOSE p \in Bijection(1..n, 1..n) : \A i, j \in 1..n : i < j => s[p[i]] <= s[p[j]]  OBVIOUS
<1>2. order \in Bijection(1..n, 1..n) /\ \A i, j \in 1..n : i < j => s[order[i]] <= s[order[j]]  BY OrderExists
<1>3. Sorted(s) = [k \in 1..n |-> s[order[k]]]  BY <1>1 DEF Sorted
<1>4. order \in [1..n -> 1..n]  BY <1>2 DEF Bijection, Injection
<1> HIDE DEF n
<1>5. Sorted(s) \in [1..n -> Nat] /\ \A k \in 1..n : Sorted(s)[k] = s[order[k]]  BY <1>1, <1>3, <1>4
<1>6. Sorted(s) \in Seq(Nat) /\ Len(Sorted(s)) = n
  <2>1. Sorted(s) \in Seq(Nat)  BY <1>1, <1>5, SeqDef
  <2> QED  BY <1>1, <1>5, <2>1, LenProperties
<1>7. Ascends(Sorted(s))  BY <1>2, <1>4, <1>5, <1>6 DEF Ascends
<1>8. SameBag(Sorted(s), s)  BY <1>2, <1>5, <1>6 DEF SameBag, n
<1> QED  BY <1>6, <1>7, <1>8 DEF n

LEMMA SortedSame ==
  ASSUME NEW s \in Seq(Nat), NEW t \in Seq(Nat), SameBag(s, t)
  PROVE  Sorted(s) = Sorted(t)
<1>1. /\ Sorted(s) \in Seq(Nat) /\ Ascends(Sorted(s)) /\ Sorted(t) \in Seq(Nat) /\ Ascends(Sorted(t))
      /\ Len(Sorted(s)) = Len(s) /\ Len(Sorted(t)) = Len(t) /\ SameBag(Sorted(s), s) /\ SameBag(Sorted(t), t)
  BY SortedIs
<1>2. Len(s) = Len(t)  BY DEF SameBag
<1>3. ASSUME NEW x \in Nat
      PROVE  Cardinality(NotAboveIn(Sorted(s), x)) = Cardinality(NotAboveIn(Sorted(t), x))
  BY <1>1, SameCounts
<1> QED  BY <1>1, <1>2, <1>3, AscendingUnique

\* The values that p percent of all do not exceed.
Reaching(t, p) == {x \in ToSet(t) : 100 * Cardinality(NotAboveIn(t, x)) >= p * Len(t)}

\* A percentile is the smallest of the values that enough of them do not exceed.
LEMMA PercentileIs ==
  ASSUME NEW s \in Seq(Nat), NEW t \in Seq(Nat), SameBag(s, t), Len(t) > 0, NEW p \in 0..100
  PROVE  percentileFromSorted(s, p) = Min(Reaching(t, p))
<1> DEFINE n == Len(t)
           w == p * n
           count(x) == Cardinality(NotAboveIn(t, x))
           X == {x \in ToSet(t) : 100 * count(x) >= w}
           c == (w + 99) \div 100
           r == Max({1, Min({n, c})})
           u == Sorted(s)
<1>1. /\ n \in Nat \ {0} /\ Len(s) = n /\ DOMAIN t = 1..n /\ \A k \in 1..n : t[k] \in Nat
  BY LenProperties, ElementOfSeq DEF SameBag
<1>2. w \in Nat /\ w <= 100 * n
  <2> DEFINE m == n
  <2>1. p \in Nat /\ p <= 100 /\ m \in Nat  BY <1>1
  <2> HIDE DEF m
  <2>2. p * m \in Nat /\ p * m <= 100 * m  BY <2>1
  <2> QED  BY <2>2 DEF m
<1>3. c \in 0..n /\ 100 * c >= w /\ \A m \in Nat : 100 * m >= w => m >= c
  <2> HIDE DEF w, n
  <2> QED  BY <1>1, <1>2
<1>4. percentileFromSorted(s, p) = u[r]
  <2>1. p * n + 100 - 1 = w + 99  BY <1>2
  <2> QED  BY <1>1, <2>1 DEF percentileFromSorted, Ceil
<1> HIDE DEF c, n, w
<1>5. Min({n, c}) = c
  <2>1. \A j \in {n, c} : c <= j  BY <1>1, <1>3
  <2>2. \A k \in {n, c} : (\A j \in {n, c} : k <= j) => k = c  BY <1>1, <1>3
  <2> QED  BY <2>1, <2>2 DEF Min
<1>6. r \in {1, c} /\ r >= 1 /\ r >= c
  <2>1. \E k \in {1, c} : \A j \in {1, c} : k >= j  BY <1>1, <1>3
  <2>2. Max({1, c}) \in {1, c} /\ \A j \in {1, c} : Max({1, c}) >= j  BY <2>1 DEF Max
  <2> QED  BY <1>5, <2>2
<1> HIDE DEF r
<1>7. r \in 1..n  BY <1>1, <1>3, <1>6
<1>8. /\ u \in Seq(Nat) /\ Len(u) = n /\ Ascends(u) /\ SameBag(u, s)
  BY <1>1, SortedIs
<1>9. ASSUME NEW x \in Nat PROVE count(x) \in Nat /\ (u[r] <= x <=> r <= count(x))
  <2>1. Cardinality(NotAboveIn(u, x)) = count(x)  BY <1>8, SameCounts
  <2> QED  BY <1>7, <1>8, <2>1, AscendingRank, NotAboveFinite
<1> HIDE DEF u
<1>10. u[r] \in ToSet(t) /\ u[r] \in Nat
  <2>1. PICK f \in Bijection(1..n, 1..n) : \A k \in 1..n : u[k] = s[f[k]]  BY <1>8 DEF SameBag
  <2>2. PICK g \in Bijection(1..n, 1..n) : \A k \in 1..n : s[k] = t[g[k]]  BY <1>1 DEF SameBag
  <2>3. f[r] \in 1..n  BY <1>7, <2>1 DEF Bijection, Injection
  <2>4. g[f[r]] \in 1..n  BY <2>2, <2>3 DEF Bijection, Injection
  <2>5. u[r] = t[g[f[r]]]  BY <1>7, <2>1, <2>2, <2>3
  <2>6. u[r] \in ToSet(t)  BY <1>1, <2>4, <2>5 DEF ToSet
  <2>7. t[g[f[r]]] \in Nat  BY <1>1, <2>4
  <2> QED  BY <2>5, <2>6, <2>7
<1>11. u[r] \in X
  <2>1. count(u[r]) \in Nat /\ r <= count(u[r])
    <3>1. PICK x \in Nat : x = u[r]  BY <1>10
    <3>2. u[r] <= x  BY <3>1
    <3> HIDE DEF count
    <3> QED  BY <1>9, <3>1, <3>2
  <2> HIDE DEF count
  <2>2. 100 * count(u[r]) >= w  BY <1>1, <1>2, <1>3, <1>6, <1>7, <2>1
  <2> QED  BY <1>10, <2>2
<1>12. ASSUME NEW x \in X PROVE u[r] <= x
  <2>1. PICK k \in 1..n : x = t[k]  BY <1>1 DEF ToSet
  <2>2. x \in Nat /\ 100 * count(x) >= w  BY <1>1, <2>1
  <2>3. k \in NotAboveIn(t, x)  BY <1>1, <2>1, <2>2 DEF NotAboveIn, n
  <2>4. count(x) \in Nat /\ count(x) # 0  BY <2>3, NotAboveFinite, FS_EmptySet
  <2>5. count(x) >= c  BY <1>3, <2>2, <2>4
  <2>6. r <= count(x)  BY <1>6, <2>4, <2>5
  <2> QED  BY <1>9, <2>2, <2>6
<1>13. \A x \in X : x \in Nat  BY <1>1 DEF ToSet
<1> HIDE DEF X
<1>14. \A x \in X : (\A y \in X : x <= y) => x = u[r]  BY <1>10, <1>11, <1>12, <1>13
<1>15. Min(X) = u[r]  BY <1>11, <1>12, <1>14 DEF Min
<1> QED  BY <1>4, <1>15 DEF Reaching, X, n, w, u, r
-----------------------------------------------------------------------------
\* The ring has all samples until it is full; from then on the newest ones are before latIdx, and the
\* oldest that are left from there on.
Window(o) ==
  IF Len(o.samples) < latencyBufferSize
  THEN o.latencies = o.samples /\ o.latIdx = Len(o.samples) + 1
  ELSE /\ Len(o.latencies) = latencyBufferSize
       /\ \A k \in 1..latencyBufferSize :
            o.latencies[k] = o.samples[IF k < o.latIdx THEN Len(o.samples) - o.latIdx + 1 + k
                                       ELSE Len(o.samples) - latencyBufferSize - o.latIdx + 1 + k]
Windows == \A i \in 1..Len(object) : Window(object[i])

\* The same samples, and the same ring.
SameRing(o, p) == p.latencies = o.latencies /\ p.latIdx = o.latIdx /\ p.samples = o.samples

LEMMA RingIs ==
  ASSUME NEW o \in Object
  PROVE  /\ o.latencies \in Seq(Latencies) /\ o.samples \in Seq(Latencies) /\ o.latIdx \in 1..latencyBufferSize
         /\ o.latencies \in Seq(Nat) /\ o.samples \in Seq(Nat) /\ Len(o.latencies) \in Nat /\ Len(o.samples) \in Nat
         /\ latencyBufferSize \in Nat \ {0}
<1>1. o.latencies \in Seq(Latencies) /\ o.samples \in Seq(Latencies) /\ o.latIdx \in 1..latencyBufferSize  BY DEF Object
<1>2. latencyBufferSize \in Nat \ {0} /\ Latencies \subseteq Nat  BY UpstreamsConstants
<1>3. ASSUME NEW q \in Seq(Latencies) PROVE q \in Seq(Nat)
  <2>1. Len(q) \in Nat /\ q \in [1..Len(q) -> Latencies]  BY LenProperties, SeqDef
  <2>2. q \in [1..Len(q) -> Nat]  BY <1>2, <2>1
  <2> QED  BY <2>1, <2>2, SeqDef
<1> QED  BY <1>1, <1>2, <1>3, LenProperties

LEMMA SameRingWindow == ASSUME NEW o, NEW p, SameRing(o, p), Window(o) PROVE Window(p)
BY DEF SameRing, Window

\* (s.latIdx + 1) % latencyBufferSize, counted from 1.
LEMMA NextIndex ==
  ASSUME NEW n \in Nat \ {0}, NEW x \in 1..n
  PROVE  (x % n) + 1 = IF x = n THEN 1 ELSE x + 1
<1>1. CASE x = n  BY <1>1
<1>2. CASE x < n  BY <1>2
<1> QED  BY <1>1, <1>2

LEMMA SampledWindow ==
  ASSUME NEW o \in Object, Sized(o), Window(o), NEW ns \in Latencies
  PROVE  Window(Sampled(o, ns))
<1> DEFINE size == latencyBufferSize
           lat == IF Len(o.latencies) < size THEN Append(o.latencies, ns) ELSE [o.latencies EXCEPT ![o.latIdx] = ns]
           x == (o.latIdx % size) + 1
           all == Append(o.samples, ns)
           n == Len(o.samples)
           p == Sampled(o, ns)
<1>1. /\ o.latencies \in Seq(Latencies) /\ o.samples \in Seq(Latencies) /\ o.latIdx \in 1..size
      /\ o.samples \in Seq(Nat) /\ Len(o.latencies) \in Nat /\ n \in Nat /\ size \in Nat \ {0} /\ ns \in Nat
  BY RingIs, UpstreamsConstants
<1>2. p.latencies = lat /\ p.latIdx = x /\ p.samples = all  BY DEF Sampled, Object
<1>3. /\ Len(all) = n + 1 /\ all[n + 1] = ns /\ \A k \in 1..n : all[k] = o.samples[k]
  BY <1>1, AppendProperties
<1>4. x = IF o.latIdx = size THEN 1 ELSE o.latIdx + 1
  <2> HIDE DEF size
  <2> QED  BY <1>1, NextIndex
<1> HIDE DEF x, p
<1>5. ASSUME n < size PROVE Window(p)
  <2>1. o.latencies = o.samples /\ o.latIdx = n + 1  BY <1>5 DEF Window
  <2>2. lat = all  BY <1>5, <2>1
  <2> HIDE DEF lat, all
  <2>3. CASE n + 1 < size
    <3>1. x = Len(all) + 1 /\ Len(all) < size  BY <1>1, <1>3, <1>4, <2>1, <2>3
    <3> QED  BY <1>2, <2>2, <3>1 DEF Window
  <2>4. CASE n + 1 = size
    <3>1. x = 1 /\ Len(all) = size  BY <1>1, <1>3, <1>4, <2>1, <2>4
    <3>2. \A k \in 1..size : ~(k < x) /\ Len(all) - size - x + 1 + k = k  BY <1>1, <3>1
    <3>3. Len(lat) = size /\ ~(Len(all) < size)  BY <1>1, <2>2, <3>1
    <3> QED  BY <1>2, <2>2, <3>2, <3>3 DEF Window
  <2> QED  BY <1>1, <1>5, <2>3, <2>4
<1>6. ASSUME ~(n < size) PROVE Window(p)
  <2> DEFINE At(k) == IF k < o.latIdx THEN n - o.latIdx + 1 + k ELSE n - size - o.latIdx + 1 + k
             AtNext(k) == IF k < x THEN Len(all) - x + 1 + k ELSE Len(all) - size - x + 1 + k
  <2>1. Len(o.latencies) = size /\ \A k \in 1..size : o.latencies[k] = o.samples[At(k)]  BY <1>6 DEF Window
  <2>2. lat = [o.latencies EXCEPT ![o.latIdx] = ns]  BY <1>1, <2>1
  <2>3. Len(lat) = size /\ \A k \in 1..size : lat[k] = IF k = o.latIdx THEN ns ELSE o.latencies[k]
    BY <1>1, <2>1, <2>2, ExceptSeq
  <2> HIDE DEF lat, all
  <2>4. ASSUME NEW k \in 1..size PROVE lat[k] = all[AtNext(k)]
    <3>1. CASE k = o.latIdx
      <4>1. AtNext(k) = n + 1  BY <1>1, <1>3, <1>4, <3>1
      <4> QED  BY <1>3, <2>3, <3>1, <4>1
    <3>2. CASE k # o.latIdx
      <4>1. AtNext(k) = At(k) /\ At(k) \in 1..n
        <5> DEFINE i == o.latIdx
                   s == size
                   l == Len(all)
        <5>1. n \in Nat /\ s \in Nat /\ i \in 1..s /\ k \in 1..s /\ l = n + 1 /\ s <= n /\ k # i  BY <1>1, <1>3, <1>6, <3>2
        <5>2. x = IF i = s THEN 1 ELSE i + 1  BY <1>4
        <5> HIDE DEF i, s, l, n
        <5>3. (IF k < i THEN n - i + 1 + k ELSE n - s - i + 1 + k) \in 1..n
          BY <5>1
        <5>4. (IF k < x THEN l - x + 1 + k ELSE l - s - x + 1 + k) = (IF k < i THEN n - i + 1 + k ELSE n - s - i + 1 + k)
          BY <5>1, <5>2
        <5> QED  BY <5>3, <5>4 DEF i, s, l
      <4> HIDE DEF At, AtNext
      <4> QED  BY <1>3, <2>1, <2>3, <3>2, <4>1
    <3> QED  BY <3>1, <3>2
  <2>5. ~(Len(all) < size)  BY <1>1, <1>3, <1>6
  <2> QED  BY <1>2, <2>3, <2>4, <2>5 DEF Window
<1> QED  BY <1>5, <1>6 DEF p

LEMMA RecordedWindow ==
  ASSUME NEW o \in Object, Sized(o), Window(o), NEW why \in Told, NEW ns, why = "answer" => ns \in Latencies
  PROVE  Window(Recorded(o, why, ns))
<1> DEFINE counted == Outcome(o, why)
<1>1. counted \in Object /\ SameRing(o, counted)
  <2>1. SameRing(o, counted)  BY DEF Outcome, Object, SameRing
  <2> QED  BY <2>1, OutcomeIs
<1>2. Sized(counted) /\ Window(counted)  BY <1>1, SameRingWindow DEF Sized, SameRing
<1> HIDE DEF counted
<1>3. CASE why = "answer"
  <2> DEFINE q == Sampled(counted, ns)
             b == Succeeded(q.b)
  <2>1. q \in Object /\ Window(q)  BY <1>1, <1>2, <1>3, SampledIs, SampledWindow
  <2>2. Recorded(o, why, ns) = [q EXCEPT !.b = b]  BY <1>3, <2>1 DEF Recorded, Object, counted
  <2> HIDE DEF q, b
  <2>3. SameRing(q, Recorded(o, why, ns))  BY <2>1, <2>2 DEF Object, SameRing
  <2> QED  BY <2>1, <2>3, SameRingWindow
<1>4. CASE why # "answer"
  <2> DEFINE b == Failed(counted.b)
  <2>1. Recorded(o, why, ns) = [counted EXCEPT !.b = b]  BY <1>1, <1>4 DEF Recorded, Object, counted
  <2> HIDE DEF b
  <2>2. SameRing(counted, Recorded(o, why, ns))  BY <1>1, <2>1 DEF Object, SameRing
  <2> QED  BY <1>2, <2>2, SameRingWindow
<1> QED  BY <1>3, <1>4
-----------------------------------------------------------------------------
LEMMA MinOf == ASSUME NEW a \in Nat, NEW b \in Nat PROVE Min({a, b}) = IF a <= b THEN a ELSE b
<1> DEFINE m == IF a <= b THEN a ELSE b
<1>1. m \in {a, b} /\ \A k \in {a, b} : (\A j \in {a, b} : k <= j) <=> k = m  OBVIOUS
<1> HIDE DEF m
<1>2. Min({a, b}) = m  BY <1>1 DEF Min
<1> QED  BY <1>2 DEF m

\* The last n numbers of a sequence.
LEMMA LastOf ==
  ASSUME NEW s \in Seq(Nat), NEW n \in 0..Len(s)
  PROVE  /\ SubSeq(s, Len(s) - n + 1, Len(s)) \in Seq(Nat) /\ Len(SubSeq(s, Len(s) - n + 1, Len(s))) = n
         /\ \A k \in 1..n : SubSeq(s, Len(s) - n + 1, Len(s))[k] = s[(Len(s) - n) + k]
<1>1. PICK l : l = Len(s)  OBVIOUS
<1>2. PICK m : m = l - n + 1  OBVIOUS
<1>3. l \in Nat /\ n \in Nat /\ n <= l /\ \A k \in 1..l : s[k] \in Nat  BY <1>1, LenProperties, ElementOfSeq
<1>4. m \in Int /\ l \in Int /\ m >= 1  BY <1>2, <1>3
<1>5. \A i \in m..l : s[i] \in Nat  BY <1>3, <1>4
<1>6. l - m + 1 = n /\ (IF m <= l THEN l - m + 1 ELSE 0) = n /\ \A k \in 1..n : m + k - 1 = (l - n) + k
  BY <1>2, <1>3
<1>7. /\ SubSeq(s, m, l) \in Seq(Nat) /\ Len(SubSeq(s, m, l)) = IF m <= l THEN l - m + 1 ELSE 0
      /\ \A i \in 1..(l - m + 1) : SubSeq(s, m, l)[i] = s[m + i - 1]
  BY <1>4, <1>5, SubSeqProperties
<1>8. SubSeq(s, m, l) \in Seq(Nat) /\ Len(SubSeq(s, m, l)) = n  BY <1>6, <1>7
<1>9. \A k \in 1..n : SubSeq(s, m, l)[k] = s[(l - n) + k]  BY <1>6, <1>7
<1> QED  BY <1>1, <1>2, <1>8, <1>9

\* Turning a ring of n places so that number x comes first is a bijection.
Turned(n, x, k) == IF k < x THEN n - x + 1 + k ELSE k - x + 1

LEMMA TurnedIs ==
  ASSUME NEW n \in Nat, NEW x \in 1..n
  PROVE  [k \in 1..n |-> Turned(n, x, k)] \in Bijection(1..n, 1..n)
<1> DEFINE f == [k \in 1..n |-> Turned(n, x, k)]
<1>1. f \in [1..n -> 1..n] /\ \A k \in 1..n : f[k] = IF k < x THEN n - x + 1 + k ELSE k - x + 1  BY DEF Turned
<1> HIDE DEF f
<1>2. \A i, j \in 1..n : f[i] = f[j] => i = j
  <2> SUFFICES ASSUME NEW i \in 1..n, NEW j \in 1..n, i # j PROVE f[i] # f[j]  OBVIOUS
  <2>1. f[i] = IF i < x THEN n - x + 1 + i ELSE i - x + 1  BY <1>1
  <2>2. f[j] = IF j < x THEN n - x + 1 + j ELSE j - x + 1  BY <1>1
  <2> QED  BY <2>1, <2>2
<1>3. \A k \in 1..n : \E i \in 1..n : f[i] = k
  <2> SUFFICES ASSUME NEW k \in 1..n PROVE \E i \in 1..n : f[i] = k  OBVIOUS
  <2>1. ASSUME k <= n - x + 1 PROVE \E i \in 1..n : f[i] = k
    <3> PICK i : i = k + x - 1  OBVIOUS
    <3>1. i \in 1..n /\ ~(i < x) /\ i - x + 1 = k  BY <2>1
    <3> QED  BY <1>1, <3>1
  <2>2. ASSUME ~(k <= n - x + 1) PROVE \E i \in 1..n : f[i] = k
    <3> PICK i : i = k - (n - x + 1)  OBVIOUS
    <3>1. i \in 1..n /\ i < x /\ n - x + 1 + i = k  BY <2>2
    <3> QED  BY <1>1, <3>1
  <2> QED  BY <2>1, <2>2
<1>4. f \in Bijection(1..n, 1..n)  BY <1>1, <1>2, <1>3 DEF Bijection, Injection, Surjection, IsInjective
<1> QED  BY <1>4 DEF f

\* Two sequences of which one is the other turned by some places.
LEMMA TurnedBag ==
  ASSUME NEW s \in Seq(Nat), NEW t \in Seq(Nat), NEW n \in Nat, Len(s) = n, Len(t) = n, NEW x \in 1..n,
         \A k \in 1..n : s[k] = t[Turned(n, x, k)]
  PROVE  SameBag(s, t)
<1> DEFINE f == [k \in 1..n |-> Turned(n, x, k)]
<1>1. f \in Bijection(1..n, 1..n)  BY TurnedIs
<1>2. \A k \in 1..n : s[k] = t[f[k]]  OBVIOUS
<1> HIDE DEF f
<1> QED  BY <1>1, <1>2 DEF SameBag

\* The newest samples are those in the ring, in the order they came in.
LEMMA NewestIs ==
  ASSUME NEW o \in Object, Window(o)
  PROVE  Newest(o) \in Seq(Nat) /\ SameBag(o.latencies, Newest(o))
<1>1. PICK s : s = o.samples  OBVIOUS
<1>2. PICK l : l = Len(s)  OBVIOUS
<1>3. PICK size : size = latencyBufferSize  OBVIOUS
<1>4. PICK x : x = o.latIdx  OBVIOUS
<1>5. PICK n : n = IF l <= size THEN l ELSE size  OBVIOUS
<1>6. PICK newest : newest = SubSeq(s, l - n + 1, l)  OBVIOUS
<1>7. s \in Seq(Nat) /\ o.latencies \in Seq(Nat) /\ l \in Nat /\ size \in Nat \ {0} /\ x \in 1..size
  BY <1>1, <1>2, <1>3, <1>4, RingIs
<1>8. n \in 0..l /\ n \in Nat /\ (l <= size => n = l) /\ (l >= size => n = size)  BY <1>5, <1>7
<1>9. newest \in Seq(Nat) /\ Len(newest) = n /\ \A k \in 1..n : newest[k] = s[(l - n) + k]
  BY <1>2, <1>6, <1>7, <1>8, LastOf
<1>10. SameBag(o.latencies, newest)
  <2>1. CASE l < size
    <3>1. o.latencies = s /\ n = l  BY <1>1, <1>2, <1>3, <1>7, <1>8, <2>1 DEF Window
    <3>2. \A k \in 1..n : (l - n) + k = k  BY <1>7, <3>1
    <3>3. o.latencies = newest  BY <1>2, <1>7, <1>9, <3>1, <3>2, SeqEqual
    <3> DEFINE f == [k \in 1..n |-> k]
    <3>4. f \in Bijection(1..n, 1..n)  BY DEF Bijection, Injection, Surjection, IsInjective
    <3>5. \A k \in 1..n : f[k] = k  OBVIOUS
    <3> HIDE DEF f
    <3> QED  BY <1>9, <3>3, <3>4, <3>5 DEF SameBag
  <2>2. CASE ~(l < size)
    <3>1. Len(o.latencies) = n /\ n = size /\ x \in 1..n  BY <1>1, <1>2, <1>3, <1>7, <1>8, <2>2 DEF Window
    <3>2. \A k \in 1..n : o.latencies[k] = s[IF k < x THEN l - x + 1 + k ELSE l - n - x + 1 + k]
      BY <1>1, <1>2, <1>3, <1>4, <2>2, <3>1 DEF Window
    <3>3. ASSUME NEW k \in 1..n PROVE o.latencies[k] = newest[Turned(n, x, k)]
      <4>1. PICK j : j = IF k < x THEN n - x + 1 + k ELSE k - x + 1  OBVIOUS
      <4>2. j \in 1..n /\ (l - n) + j = IF k < x THEN l - x + 1 + k ELSE l - n - x + 1 + k
        BY <1>7, <1>8, <3>1, <4>1
      <4>3. newest[j] = s[(l - n) + j]  BY <1>9, <4>2
      <4>4. j = Turned(n, x, k)  BY <4>1 DEF Turned
      <4> QED  BY <3>2, <4>2, <4>3, <4>4
    <3> QED  BY <1>7, <1>8, <1>9, <3>1, <3>3, TurnedBag
  <2> QED  BY <2>1, <2>2
<1>11. Min({Len(o.samples), latencyBufferSize}) = n  BY <1>1, <1>2, <1>3, <1>5, <1>7, MinOf
<1>12. Newest(o) = newest  BY <1>1, <1>2, <1>6, <1>11 DEF Newest
<1> QED  BY <1>9, <1>10, <1>12

\* What the property says of one object.
WindowTells(o) ==
  LET newest == Newest(o)
      NotAbove(x) == Cardinality({k \in DOMAIN newest : newest[k] <= x})
  IN  /\ Sorted(o.latencies) = Sorted(newest)
      /\ newest # <<>> => \A p \in Percentiles :
           percentileFromSorted(o.latencies, p)
             = Min({x \in ToSet(newest) : 100 * NotAbove(x) >= p * Len(newest)})

LEMMA WindowsGive == ASSUME TypeOK, Windows PROVE WindowStatistics
<1> SUFFICES ASSUME NEW o \in Object, Window(o)
             PROVE  WindowTells(o)
  <2>1. ASSUME NEW i \in 1..Len(object) PROVE WindowTells(object[i])
    BY <2>1, ElementOfSeq DEF TypeOK, Windows
  <2> QED  BY <2>1 DEF WindowTells, WindowStatistics
<1>1. PICK newest : newest = Newest(o)  OBVIOUS
<1>2. o.latencies \in Seq(Nat) /\ newest \in Seq(Nat) /\ SameBag(o.latencies, newest)  BY <1>1, RingIs, NewestIs
<1>3. Sorted(o.latencies) = Sorted(newest)  BY <1>2, SortedSame
<1>4. ASSUME newest # <<>>, NEW p \in Percentiles
      PROVE  percentileFromSorted(o.latencies, p)
               = Min({x \in ToSet(newest) : 100 * Cardinality({k \in DOMAIN newest : newest[k] <= x}) >= p * Len(newest)})
  <2>1. p \in 0..100  BY UpstreamsConstants
  <2>2. Len(newest) > 0 /\ DOMAIN newest = 1..Len(newest)  BY <1>2, <1>4, LenProperties, EmptySeq
  <2>3. percentileFromSorted(o.latencies, p) = Min(Reaching(newest, p))  BY <1>2, <2>1, <2>2, PercentileIs
  <2>4. Reaching(newest, p)
          = {x \in ToSet(newest) : 100 * Cardinality({k \in DOMAIN newest : newest[k] <= x}) >= p * Len(newest)}
    BY <2>2 DEF Reaching, NotAboveIn
  <2> QED  BY <2>3, <2>4
<1> QED  BY <1>1, <1>3, <1>4 DEF WindowTells

\* One object changes, and the others stay.
LEMMA WindowsStep ==
  ASSUME TypeOK, Windows, NEW i, NEW o, object' = [object EXCEPT ![i] = o], i \in 1..Len(object) => Window(o)
  PROVE  Windows'
<1>1. object \in Seq(Object) /\ Len(object) \in Nat /\ DOMAIN object = 1..Len(object)  BY LenProperties DEF TypeOK
<1>2. Len(object') = Len(object) /\ \A j \in 1..Len(object) : object'[j] = IF j = i THEN o ELSE object[j]
  <2>1. CASE i \in 1..Len(object)
    <3> DEFINE S == Object \cup {o}
    <3>1. object \in [1..Len(object) -> S]  BY <1>1, ElementOfSeq
    <3>2. o \in S  OBVIOUS
    <3> HIDE DEF S
    <3>3. object \in Seq(S)  BY <1>1, <3>1, SeqDef
    <3> QED  BY <2>1, <3>2, <3>3, ExceptSeq
  <2>2. CASE i \notin 1..Len(object)
    <3>1. object' = object  BY <1>1, <2>2
    <3> QED  BY <2>2, <3>1
  <2> QED  BY <2>1, <2>2
<1>3. ASSUME NEW j \in 1..Len(object) PROVE Window(object'[j])  BY <1>2 DEF Windows
<1> QED  BY <1>2, <1>3 DEF Windows, Window

LEMMA WindowsSame == ASSUME Windows, object' = object PROVE Windows'
BY DEF Windows, Window

\* The steps that change an object but for its ring.
LEMMA WindowsKept ==
  ASSUME TypeOK, Windows, NEW i, NEW o, object' = [object EXCEPT ![i] = o],
         i \in 1..Len(object) => SameRing(object[i], o)
  PROVE  Windows'
<1>1. i \in 1..Len(object) => Window(o)  BY SameRingWindow DEF Windows
<1> QED  BY <1>1, WindowsStep

LEMMA FindWindows == ASSUME TypeOK, Windows, NEW c, NEW a, Find(c, a) PROVE Windows'
<1>1. CASE object' = object  BY <1>1, WindowsSame
<1>2. CASE object' # object
  <2> PICK i : i = upstreams[a]  OBVIOUS
  <2> DEFINE b == HalfOpen(object[i].b)
  <2>1. object' = [object EXCEPT ![i].b = b]  BY <1>2 DEF Find
  <2> HIDE DEF b
  <2> DEFINE o == [object[i] EXCEPT !.b = b]
  <2>2. object' = [object EXCEPT ![i] = o]  BY <2>1
  <2>3. ASSUME i \in 1..Len(object) PROVE SameRing(object[i], o)
    <3>1. object[i] \in Object  BY <2>3, ElementOfSeq DEF TypeOK
    <3> QED  BY <3>1 DEF Object, SameRing
  <2> HIDE DEF o
  <2> QED  BY <2>2, <2>3, WindowsKept
<1> QED  BY <1>1, <1>2

LEMMA EndsWindows == ASSUME TypeOK, Windows, NEW c, NEW a, NEW why, NEW ns, Ends(c, a, why, ns) PROVE Windows'
<1> PICK i : i = ask[c][a].i  OBVIOUS
<1> DEFINE o == [object[i] EXCEPT !.requests = @ + 1]
<1>1. object' = [object EXCEPT ![i] = o]  BY DEF Ends
<1>2. ASSUME i \in 1..Len(object) PROVE SameRing(object[i], o)
  <2>1. object[i] \in Object  BY <1>2, ElementOfSeq DEF TypeOK
  <2> QED  BY <2>1 DEF Object, SameRing
<1> HIDE DEF o
<1> QED  BY <1>1, <1>2, WindowsKept

LEMMA CoolWindows == ASSUME TypeOK, Windows, NEW i \in 1..Len(object), Cool(i) PROVE Windows'
<1> DEFINE o == [object[i] EXCEPT !.b = [@ EXCEPT !.sinceOpen = cooldown]]
<1>1. object' = [object EXCEPT ![i] = o]  BY DEF Cool
<1>2. object[i] \in Object  BY ElementOfSeq DEF TypeOK
<1>3. SameRing(object[i], o)  BY <1>2 DEF Object, SameRing
<1> HIDE DEF o
<1> QED  BY <1>1, <1>3, WindowsKept

\* The answer goes into the ring of the object that was asked, whoever has its address by now.
LEMMA RecordWindows ==
  ASSUME IInv, Windows, NEW c \in Callers, NEW a \in Addresses, Record(c, a) PROVE Windows'
<1> PICK i : i = ask[c][a].i  OBVIOUS
<1> PICK why : why = ask[c][a].why  OBVIOUS
<1> PICK ns : ns = ask[c][a].latency  OBVIOUS
<1> DEFINE o == Recorded(object[i], why, ns)
<1>1. TypeOK /\ Standing(ask[c][a]) /\ ask[c][a].at = "outcome"  BY DEF IInv, Standings, Record
<1>2. why \in Told /\ (why = "answer" => ns \in Latencies)  BY <1>1 DEF Standing
<1>3. object' = [object EXCEPT ![i] = o]  BY DEF Record
<1>4. ASSUME i \in 1..Len(object) PROVE Window(o)
  <2>1. object[i] \in Object /\ Sized(object[i]) /\ Window(object[i])
    BY <1>1, <1>4, ElementOfSeq DEF TypeOK, Windows, Sized
  <2> QED  BY <1>2, <2>1, RecordedWindow
<1> HIDE DEF o
<1> QED  BY <1>1, <1>3, <1>4, WindowsStep

LEMMA NewObjectWindow == Window(NewObject)
<1> DEFINE e == <<>>
           b == NewBreaker
<1>1. e \in Seq(Nat) /\ Len(e) = 0 /\ 0 < latencyBufferSize  BY EmptySeq, UpstreamsConstants
<1>2. NewObject.latencies = e /\ NewObject.samples = e /\ NewObject.latIdx = 1  BY DEF NewObject
<1> HIDE DEF e
<1> QED  BY <1>1, <1>2 DEF Window

LEMMA AddUpstreamWindows == ASSUME TypeOK, Windows, AddUpstream PROVE Windows'
<1>1. object \in Seq(Object) /\ Len(object) \in Nat  BY LenProperties DEF TypeOK
<1>2. object' = Append(object, NewObject)  BY DEF AddUpstream
<1>3. NewObject \in Object /\ Window(NewObject)  BY NewObjectIs, NewObjectWindow
<1>4. /\ Len(object') = Len(object) + 1 /\ object'[Len(object) + 1] = NewObject
      /\ \A j \in 1..Len(object) : object'[j] = object[j]
  BY <1>1, <1>2, <1>3, AppendProperties
<1>5. ASSUME NEW j \in 1..(Len(object) + 1) PROVE Window(object'[j])
  <2>1. CASE j \in 1..Len(object)  BY <1>4, <2>1 DEF Windows
  <2>2. CASE j = Len(object) + 1  BY <1>3, <1>4, <2>2
  <2> QED  BY <1>1, <2>1, <2>2
<1> QED  BY <1>4, <1>5 DEF Windows, Window

LEMMA QueryWindows == ASSUME IInv, Windows, NEW c \in Callers, Query(c) PROVE Windows'
<1> PICK a \in Addresses : \/ Find(c, a) \/ Record(c, a)
                           \/ \E l \in Latencies : Answer(c, a, l)
                           \/ \E why \in Failures : Fail(c, a, why)
  BY DEF Query
<1>1. TypeOK  BY DEF IInv
<1>2. ASSUME NEW l, Answer(c, a, l) PROVE Windows'  BY <1>1, <1>2, EndsWindows DEF Answer
<1>3. ASSUME NEW why, Fail(c, a, why) PROVE Windows'  BY <1>1, <1>3, EndsWindows DEF Fail
<1> QED  BY <1>1, <1>2, <1>3, FindWindows, RecordWindows

LEMMA NextWindows == ASSUME IInv, Windows, [Next]_vars PROVE Windows'
<1>1. TypeOK  BY DEF IInv
<1>2. ASSUME NEW c \in Callers, Query(c) PROVE Windows'  BY <1>2, QueryWindows
<1>3. ASSUME AddUpstream PROVE Windows'  BY <1>1, <1>3, AddUpstreamWindows
<1>4. ASSUME NEW i \in 1..Len(object), Cool(i) PROVE Windows'  BY <1>1, <1>4, CoolWindows
<1>5. ASSUME object' = object PROVE Windows'  BY <1>5, WindowsSame
<1>6. \/ \E c \in Callers : Query(c)
      \/ AddUpstream \/ (\E i \in 1..Len(object) : Cool(i)) \/ object' = object
  <2>1. ASSUME NEW g \in Groups, NEW n \in Concurrencies, QueryGroup(g, n) PROVE object' = object  BY <2>1 DEF QueryGroup
  <2>2. ASSUME NEW g \in Groups, Group(g) PROVE (\E c \in Callers : Query(c)) \/ object' = object
    BY <2>2 DEF Group, Return, Callers
  <2>3. ASSUME NEW a \in Addresses, Probe(a) PROVE object' = object  BY <2>3 DEF Probe
  <2>4. ASSUME NEW c \in Configs, UpdateConfig(c) PROVE object' = object  BY <2>4 DEF UpdateConfig
  <2>5. AddUpstreamLock \/ StatusBegin \/ SnapshotRequests \/ SnapshotRest \/ StatusEnd => object' = object
    BY DEF AddUpstreamLock, StatusBegin, SnapshotRequests, SnapshotRest, StatusEnd
  <2>6. UNCHANGED vars => object' = object  BY DEF vars
  <2>7. "status" \in Callers  BY DEF Callers
  <2> QED  BY <2>1, <2>2, <2>3, <2>4, <2>5, <2>6, <2>7 DEF Next, Statuses
<1> QED  BY <1>2, <1>3, <1>4, <1>5, <1>6

LEMMA InitWindows == ASSUME Init PROVE Windows
<1>1. Len(cfg) \in Nat  BY UpstreamsConstants, LenProperties DEF Init
<1>2. object = [i \in 1..Len(cfg) |-> NewObject]  BY DEF Init
<1>3. object \in Seq({NewObject}) /\ Len(object) = Len(cfg)
  <2>1. object \in [1..Len(cfg) -> {NewObject}]  BY <1>2
  <2> QED  BY <1>1, <2>1, SeqDef, LenProperties
<1>4. ASSUME NEW i \in 1..Len(object) PROVE Window(object[i])
  <2>1. object[i] = NewObject  BY <1>2, <1>3
  <2> QED  BY <2>1, NewObjectWindow
<1> QED  BY <1>4 DEF Windows

\* stats.go:70-74, 119-149: for a ring of any size and any number of samples, answers that come in late
\* and upstreams that are replaced: the ring has the newest samples of its upstream, whatever their order
\* there, and each percentile is the nearest-rank one of these.
THEOREM UpstreamsWindowStatistics == Spec => []WindowStatistics
<1>1. IInv => TypeOK  BY DEF IInv
<1>2. IInv /\ Windows => WindowStatistics  BY <1>1, WindowsGive
<1>3. Init => Windows  BY InitWindows
<1>4. IInv /\ Windows /\ [Next]_vars => Windows'  BY NextWindows
<1> QED  BY <1>2, <1>3, <1>4, Invariant, PTL DEF Spec
=============================================================================
