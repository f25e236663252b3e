------------------------------ MODULE Upstreams ------------------------------
(***************************************************************************)
(* DNSClient over its upstreams: QueryGroup fans a query out and takes the *)
(* fastest answer, every Query reports to the statistics and the breaker   *)
(* of the upstream it was sent to, GET /status probes every upstream and   *)
(* reads what they report, and a configuration change replaces the         *)
(* upstreams under all of them.                                            *)
(*                                                                         *)
(* c.upstreams[addr] points to an object with statistics and a breaker;    *)
(* AddUpstream makes a new one, and whoever looked the old one up keeps    *)
(* it.  c.mu is a RWMutex: a writer that waits keeps new readers out, also *)
(* the Query of UpstreamStatuses, which has a read lock already.           *)
(* UpstreamBreaker has the steps inside AllowRequest; here looking an      *)
(* upstream up and asking its breaker is one step, and recording a result  *)
(* two: the counter of requests, and the rest.  A latency is a small       *)
(* number.                                                                 *)
(***************************************************************************)
EXTENDS Breaker, FiniteSets, FiniteSetsExt, Sequences, SequencesExt, Functions

CONSTANTS Addresses,          \* of upstreams
          InitialServers,     \* the servers of the group at the start, a sequence of different ones
          Configs,            \* the ones that may be configured later: such sequences
          Groups,             \* the goroutines in QueryGroup; each calls it once
          Concurrencies,      \* the values of advanced.concurrency
          Latencies,          \* how long an answer may take
          Failures,           \* how a request may fail: "failed", "timeout"
          latencyBufferSize,
          Percentiles,        \* in percent
          MaxUpdates,         \* bound: configuration changes
          MaxAsks             \* bound: calls of Query

ASSUME UpstreamsConstants ==
  /\ IsFiniteSet(Addresses) /\ IsFiniteSet(Groups) /\ "status" \notin Groups /\ "none" \notin Addresses
  /\ Configs \cup {InitialServers} \subseteq Seq(Addresses) /\ Failures \subseteq {"failed", "timeout"}
  /\ Concurrencies \subseteq Nat /\ Latencies \subseteq Nat
  /\ latencyBufferSize \in Nat \ {0} /\ Percentiles \subseteq 0..100 /\ {MaxUpdates, MaxAsks} \subseteq Nat

VARIABLES cfg,        \* the servers of the group
          todo,       \* the addresses initUpstreams still has to add
          locking,    \* whether AddUpstream is in c.mu.Lock
          updates,    \* how many configuration changes there were
          upstreams,  \* address -> number of its object, 0 if there is none
          object,     \* the upstreamClient objects: breaker and statistics
          group,      \* the calls of QueryGroup
          ask,        \* caller and address -> its call of Query
          status      \* the handler of GET /status

client == <<cfg, todo, locking, updates, upstreams>>
vars == <<client, object, group, ask, status>>

Callers == Groups \cup {"status"}

\* upstream.NewStats and NewBreaker.  samples is every latency ever recorded.
NewObject == [b |-> NewBreaker, requests |-> 0, successes |-> 0, failures |-> 0, timeouts |-> 0,
              latencies |-> <<>>, latIdx |-> 1, latSum |-> 0, samples |-> <<>>]

NoAsk == [at |-> "off", i |-> 0, why |-> "none", latency |-> 0]
NoReport == [up |-> FALSE, requests |-> 0, successes |-> 0, failures |-> 0, late |-> 0]

Init == /\ cfg = InitialServers /\ todo = <<>> /\ locking = FALSE /\ updates = 0
        /\ upstreams = [a \in Addresses |-> SelectInSeq(cfg, LAMBDA x : x = a)]
        /\ object = [i \in 1..Len(cfg) |-> NewObject]
        /\ group = [g \in Groups |-> [at |-> "new", selected |-> <<>>, results |-> <<>>, best |-> "none"]]
        /\ ask = [c \in Callers |-> [a \in Addresses |-> NoAsk]]
        /\ status = [at |-> "new", left |-> {}, addr |-> "none", uc |-> 0,
                     report |-> [a \in Addresses |-> NoReport]]
-----------------------------------------------------------------------------
\* UpdateConfig installs the configuration; initUpstreams follows.
UpdateConfig(c) ==
  /\ todo = <<>> /\ updates < MaxUpdates
  /\ cfg' = c /\ todo' = c /\ updates' = updates + 1
  /\ UNCHANGED <<locking, upstreams, object, group, ask, status>>

\* AddUpstream comes to c.mu.Lock: from now on c.mu has no new reader.
AddUpstreamLock ==
  /\ todo # <<>> /\ ~locking
  /\ locking' = TRUE
  /\ UNCHANGED <<cfg, todo, updates, upstreams, object, group, ask, status>>

\* Mutant: the map is written without its lock.
AddUpstreamUnlocked ==
  /\ todo # <<>> /\ locking
  /\ upstreams' = [upstreams EXCEPT ![Head(todo)] = Len(object) + 1]
  /\ object' = Append(object, NewObject)
  /\ todo' = Tail(todo) /\ locking' = FALSE
  /\ UNCHANGED <<cfg, updates, group, ask, status>>

\* Once UpstreamStatuses has left c.mu, a new object takes the place of the old
\* one.  An address that is not configured any more stays.
AddUpstream ==
  /\ todo # <<>> /\ locking /\ status.at \in {"new", "done"}
  /\ upstreams' = [upstreams EXCEPT ![Head(todo)] = Len(object) + 1]
  /\ object' = Append(object, NewObject)
  /\ todo' = Tail(todo) /\ locking' = FALSE
  /\ UNCHANGED <<cfg, updates, group, ask, status>>
-----------------------------------------------------------------------------
\* The calls of Query that were made or will be.
Asked == {ca \in Callers \X Addresses : ask[ca[1]][ca[2]].at # "off"}
Room(n) == Cardinality(Asked) + Cardinality(status.left) + n <= MaxAsks

\* QueryGroup: the first servers of the group, as many as concurrency says, are
\* asked at once.
QueryGroup(g, concurrency) ==
  /\ group[g].at = "new"
  /\ LET selected == SubSeq(cfg, 1, Min({concurrency, Len(cfg)}))
     IN  /\ Room(Len(selected))
         /\ group' = [group EXCEPT ![g].at = "waiting", ![g].selected = selected]
         /\ ask' = [ask EXCEPT ![g] = [a \in Addresses |-> IF a \in ToSet(selected)
                                                           THEN [NoAsk EXCEPT !.at = "find"]
                                                           ELSE NoAsk]]
  /\ UNCHANGED <<client, object, status>>

\* The result goes to the channel of QueryGroup, or back to UpstreamStatuses.
Post(c, a) ==
  IF c \in Groups THEN group' = [group EXCEPT ![c].results = Append(@, a)] /\ UNCHANGED status
  ELSE status' = [status EXCEPT !.at = "requests"] /\ UNCHANGED group

\* Mutant: a request that the breaker rejects is tried again until it passes.
FindRetrying(c, a) ==
  LET i == upstreams[a]
      b == HalfOpen(object[i].b)
  IN /\ ask[c][a].at = "find" /\ ~locking
     /\ IF i = 0 THEN /\ ask' = [ask EXCEPT ![c][a].at = "posted", ![c][a].why = "unknown"]
                      /\ Post(c, a) /\ UNCHANGED object
        ELSE /\ b.state # "open"
             /\ object' = [object EXCEPT ![i].b = b]
             /\ ask' = [ask EXCEPT ![c][a].at = "sent", ![c][a].i = i]
             /\ UNCHANGED <<group, status>>
     /\ UNCHANGED client

\* Query looks the upstream up, behind a writer of c.mu that waits, and asks its
\* breaker: an unknown upstream and an open breaker are errors, and nothing is
\* recorded of them.
Find(c, a) ==
  LET i == upstreams[a]
      b == HalfOpen(object[i].b)
      Fails(why) == /\ ask' = [ask EXCEPT ![c][a].at = "posted", ![c][a].why = why]
                    /\ Post(c, a)
  IN /\ ask[c][a].at = "find" /\ ~locking
     /\ IF i = 0 THEN Fails("unknown") /\ UNCHANGED object
        ELSE /\ object' = [object EXCEPT ![i].b = b]
             /\ IF b.state = "open" THEN Fails("rejected")
                ELSE /\ ask' = [ask EXCEPT ![c][a].at = "sent", ![c][a].i = i]
                     /\ UNCHANGED <<group, status>>
     /\ UNCHANGED client

\* queryDNS or queryDoH ends; the request is counted.
Ends(c, a, why, latency) ==
  /\ ask[c][a].at = "sent"
  /\ ask' = [ask EXCEPT ![c][a].at = "outcome", ![c][a].why = why, ![c][a].latency = latency]
  /\ object' = [object EXCEPT ![ask[c][a].i].requests = @ + 1]
  /\ UNCHANGED <<client, group, status>>

Answer(c, a, latency) == Ends(c, a, "answer", latency)
Fail(c, a, why) == Ends(c, a, why, 0)

\* The other counters of RecordSuccess and RecordFailure.
Outcome(o, why) ==
  [o EXCEPT !.successes = IF why = "answer" THEN @ + 1 ELSE @,
            !.failures = IF why = "answer" THEN @ ELSE @ + 1,
            !.timeouts = IF why = "timeout" THEN @ + 1 ELSE @]

\* Mutant: the write position is moved before the write.
SampledAhead(o, ns) ==
  LET k == (o.latIdx % latencyBufferSize) + 1
  IN  [o EXCEPT !.latencies = IF Len(@) < latencyBufferSize THEN Append(@, ns) ELSE [@ EXCEPT ![k] = ns],
                !.latIdx = k, !.latSum = @ + ns, !.samples = Append(@, ns)]

\* The ring buffer; latCount is its length.
Sampled(o, ns) ==
  [o EXCEPT !.latencies = IF Len(@) < latencyBufferSize THEN Append(@, ns)
                          ELSE [@ EXCEPT ![o.latIdx] = ns],
            !.latIdx = (@ % latencyBufferSize) + 1, !.latSum = @ + ns,
            !.samples = Append(@, ns)]

\* What an outcome does to the object it is recorded in.
Recorded(o, why, latency) ==
  LET counted == Outcome(o, why)
  IN  IF why = "answer" THEN [Sampled(counted, latency) EXCEPT !.b = Succeeded(@)]
      ELSE [counted EXCEPT !.b = Failed(@)]

\* A snapshot that is being read has seen the requests of this object already.
Overtakes(i) == IF status.at = "counters" /\ status.uc = i
                THEN [status EXCEPT !.report[status.addr].late = @ + 1] ELSE status

\* Mutant: the upstream is looked up again by its address.
RecordAgain(c, a) ==
  /\ ask[c][a].at = "outcome"
  /\ object' = [object EXCEPT ![upstreams[a]] = Recorded(@, ask[c][a].why, ask[c][a].latency)]
  /\ ask' = [ask EXCEPT ![c][a].at = "posted"]
  /\ Post(c, a)
  /\ UNCHANGED client

\* recordResult, into the object the request went through, and the end of Query.
Record(c, a) ==
  LET i == ask[c][a].i
  IN /\ ask[c][a].at = "outcome"
     /\ object' = [object EXCEPT ![i] = Recorded(@, ask[c][a].why, ask[c][a].latency)]
     /\ ask' = [ask EXCEPT ![c][a].at = "posted"]
     /\ IF c \in Groups THEN /\ group' = [group EXCEPT ![c].results = Append(@, a)]
                             /\ status' = Overtakes(i)
        ELSE Post(c, a)
     /\ UNCHANGED client

\* Mutant: the last answer wins.
BetterLast(g, best, a) == IF ask[g][a].why = "answer" THEN a ELSE best

\* A successful result replaces the best one if it is strictly faster.
Better(g, best, a) ==
  IF ask[g][a].why = "answer" /\ (best = "none" \/ ask[g][a].latency < ask[g][best].latency)
  THEN a ELSE best

\* QueryGroup takes one result after the other, as many as it asked for, and
\* returns the best one or an error.
Return(g) ==
  /\ group[g].at = "waiting" /\ Len(group[g].results) = Len(group[g].selected)
  /\ group' = [group EXCEPT ![g].at = "done",
                            ![g].best = FoldLeft(LAMBDA best, a : Better(g, best, a), @, group[g].results)]
  /\ UNCHANGED <<client, object, ask, status>>
-----------------------------------------------------------------------------
\* UpstreamStatuses read-locks c.mu and goes through the map.
StatusBegin ==
  /\ status.at = "new" /\ ~locking /\ Room(Cardinality({a \in Addresses : upstreams[a] # 0}))
  /\ status' = [status EXCEPT !.at = "next", !.left = {a \in Addresses : upstreams[a] # 0}]
  /\ UNCHANGED <<client, object, group, ask>>

\* It probes an upstream with a Query of its own, ...
Probe(a) ==
  /\ status.at = "next" /\ a \in status.left
  /\ status' = [status EXCEPT !.at = "probing", !.addr = a, !.uc = upstreams[a], !.left = @ \ {a}]
  /\ ask' = [ask EXCEPT !["status"][a].at = "find"]
  /\ UNCHANGED <<client, object, group>>

\* ... and reads its counters one after the other: the requests, ...
SnapshotRequests ==
  /\ status.at = "requests"
  /\ status' = [status EXCEPT !.at = "counters",
                  !.report[status.addr] = [@ EXCEPT !.up = ask["status"][status.addr].why = "answer",
                                                    !.requests = object[status.uc].requests]]
  /\ UNCHANGED <<client, object, group, ask>>

\* ... and the others.
SnapshotRest ==
  /\ status.at = "counters"
  /\ status' = [status EXCEPT !.at = "next",
                  !.report[status.addr] = [@ EXCEPT !.successes = object[status.uc].successes,
                                                    !.failures = object[status.uc].failures]]
  /\ UNCHANGED <<client, object, group, ask>>

StatusEnd ==
  /\ status.at = "next" /\ status.left = {}
  /\ status' = [status EXCEPT !.at = "done"]
  /\ UNCHANGED <<client, object, group, ask>>

\* The cooldown of a breaker passes.
Cool(i) ==
  /\ object[i].b.state = "open" /\ object[i].b.sinceOpen < cooldown
  /\ object' = [object EXCEPT ![i].b.sinceOpen = cooldown]
  /\ UNCHANGED <<client, group, ask, status>>
-----------------------------------------------------------------------------
Query(c) == \E a \in Addresses :
              \/ Find(c, a) \/ Record(c, a)
              \/ \E l \in Latencies : Answer(c, a, l)
              \/ \E why \in Failures : Fail(c, a, why)

Group(g) == Query(g) \/ Return(g)

Statuses == Query("status") \/ SnapshotRequests \/ SnapshotRest \/ StatusEnd
            \/ \E a \in Addresses : Probe(a)

\* Every call that has been made has returned.
Over == (\A g \in Groups : group[g].at # "waiting") /\ status.at \in {"new", "done"}

\* UpstreamStatuses waits in its Query for the writer of c.mu, and the writer for
\* UpstreamStatuses: this is the end of every call that needs c.mu.
Stuck == /\ locking /\ status.at = "probing"
         /\ ask["status"][status.addr].at = "find"

Next == \/ \E g \in Groups : Group(g) \/ \E n \in Concurrencies : QueryGroup(g, n)
        \/ StatusBegin \/ Statuses
        \/ (\E c \in Configs : UpdateConfig(c)) \/ AddUpstreamLock \/ AddUpstream
        \/ \E i \in 1..Len(object) : Cool(i)
        \/ (Over \/ Stuck) /\ UNCHANGED vars

Spec == Init /\ [][Next]_vars

\* Goroutines run; a Query that was sent ends, by its context if by nothing else.
FairSpec == Spec /\ WF_vars(Statuses) /\ WF_vars(AddUpstreamLock \/ AddUpstream)
            /\ \A g \in Groups : WF_vars(Group(g))
-----------------------------------------------------------------------------
Ceil(n, d) == (n + d - 1) \div d

\* sort.Slice: the values in ascending order.
Sorted(values) ==
  LET order == CHOOSE p \in Bijection(DOMAIN values, DOMAIN values) :
                 \A i, j \in DOMAIN values : i < j => values[p[i]] <= values[p[j]]
  IN  [k \in DOMAIN values |-> values[order[k]]]

\* The sample of the nearest rank; the code's ceil(p * n) of floating-point numbers
\* is this one for 0.95 and 0.99 and every n up to 1024.
percentileFromSorted(values, p) ==
  Sorted(values)[Max({1, Min({Len(values), Ceil(p * Len(values), 100)})})]

Asks(i) == {ca \in Callers \X Addresses : ask[ca[1]][ca[2]].i = i}
CountAsks(i, ats, whys) == Cardinality({ca \in Asks(i) : /\ ask[ca[1]][ca[2]].at \in ats
                                                         /\ ask[ca[1]][ca[2]].why \in whys})

Object == [b : BreakerType, requests : Nat, successes : Nat, failures : Nat, timeouts : Nat,
           latencies : Seq(Latencies), latIdx : 1..latencyBufferSize, latSum : Nat, samples : Seq(Latencies)]
Call == [at : {"off", "find", "sent", "outcome", "posted"}, i : 0..Len(object), latency : Latencies \cup {0},
         why : {"none", "unknown", "rejected", "answer", "failed", "timeout"}]
Report == [up : BOOLEAN, requests : Nat, successes : Nat, failures : Nat, late : Nat]
TypeOK ==
  /\ cfg \in Configs \cup {InitialServers} /\ todo \in Seq(Addresses) /\ updates \in 0..MaxUpdates
  /\ locking \in BOOLEAN /\ object \in Seq(Object) /\ upstreams \in [Addresses -> 0..Len(object)]
  /\ \A i \in 1..Len(object) : Len(object[i].latencies) <= latencyBufferSize
  /\ DOMAIN group = Groups
  /\ \A g \in Groups : /\ DOMAIN group[g] = {"at", "selected", "results", "best"}
                        /\ group[g].at \in {"new", "waiting", "done"}
                        /\ {group[g].selected, group[g].results} \subseteq Seq(Addresses)
  /\ ask \in [Callers -> [Addresses -> Call]]
  /\ status \in [at : {"new", "next", "probing", "requests", "counters", "done"}, left : SUBSET Addresses,
                 addr : Addresses \cup {"none"}, uc : 0..Len(object), report : [Addresses -> Report]]

\* client.go:247-264: QueryGroup returns an answer if and only if one of the servers it asked gave
\* one, it is a fastest one, and by then every server it asked has been heard exactly once.
FastestAnswer ==
  \A g \in Groups : group[g].at = "done" =>
    LET heard == group[g].results
        ok == {a \in ToSet(heard) : ask[g][a].why = "answer"}
    IN /\ Len(heard) = Len(group[g].selected) /\ ToSet(heard) = ToSet(group[g].selected)
       /\ IF ok = {} THEN group[g].best = "none"
          ELSE /\ group[g].best \in ok
               /\ \A a \in ok : ask[g][group[g].best].latency <= ask[g][a].latency

\* client.go:153, 196, 203: an object's counters tell of exactly the requests that were sent through
\* it: none that a breaker rejected, none that went through the object it replaced; and its breaker
\* opens only for its own failures, also when those of the replaced object arrive late.
OwnRequests ==
  \A i \in 1..Len(object) :
    /\ object[i].requests = CountAsks(i, {"outcome", "posted"}, {"answer", "failed", "timeout"})
    /\ object[i].successes = CountAsks(i, {"posted"}, {"answer"})
    /\ object[i].failures = CountAsks(i, {"posted"}, {"failed", "timeout"})
    /\ object[i].timeouts = CountAsks(i, {"posted"}, {"timeout"})
    /\ object[i].b.trips > 0 => object[i].failures >= failThreshold

\* The samples that the ring buffer has room for.
Newest(o) == SubSeq(o.samples, Len(o.samples) - Min({Len(o.samples), latencyBufferSize}) + 1, Len(o.samples))

\* stats.go:70-74, 119-149: the ring buffer has the newest samples, and a percentile is the
\* smallest one that enough of them do not exceed.
WindowStatistics ==
  \A i \in 1..Len(object) :
    LET newest == Newest(object[i])
        NotAbove(x) == Cardinality({k \in DOMAIN newest : newest[k] <= x})
    IN /\ Sorted(object[i].latencies) = Sorted(newest)
       /\ newest # <<>> => \A p \in Percentiles :
            percentileFromSorted(object[i].latencies, p)
              = Min({x \in ToSet(newest) : 100 * NotAbove(x) >= p * Len(newest)})

\* client.go:382-399: what GET /status reports of an upstream includes the probe it has just made,
\* and its numbers add up, but for what is recorded while it reads them.
ReportIncludesProbe ==
  \A a \in Addresses :
    LET r == status.report[a]
    IN  status.at \in {"next", "done"} =>
          /\ r.up => r.successes > 0
          /\ r.successes + r.failures <= r.requests + r.late

\* client.go:248, 166: every call of QueryGroup returns, whatever its upstreams do and however often
\* AddUpstream locks c.mu, unless GET /status and a configuration change wait for each other.
EveryGroupReturns == \A g \in Groups : group[g].at = "waiting" ~> group[g].at = "done" \/ Stuck
=============================================================================
