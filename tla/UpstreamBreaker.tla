--------------------------- MODULE UpstreamBreaker ---------------------------
(***************************************************************************)
(* client.Query against one upstream: concurrent requests ask the breaker, *)
(* are sent or rejected, and report their outcome whenever it arrives.     *)
(*                                                                         *)
(* AllowRequest loads the state without the lock and only takes b.mu when  *)
(* it saw open, so the decision falls in one or two steps; any number of   *)
(* other requests may record their results in between.  The cooldown is    *)
(* measured on the wall clock (time.Now().UnixNano() drops the monotonic   *)
(* reading), which an NTP step may set back.                               *)
(***************************************************************************)
EXTENDS Breaker, FiniteSets

CONSTANTS Requests,   \* the goroutines that query this upstream
          MaxTrips,   \* bound: how often the breaker opens
          MaxSteps    \* bound: how often the clock is set back

ASSUME UpstreamConstants == MaxTrips \in Nat /\ MaxSteps \in Nat

VARIABLES b,      \* the breaker
          pc,     \* idle; "open" between the load and the lock; "sent", or
                  \* "probe" if it was admitted while half-open
          up,     \* whether the upstream answers
          steps   \* how often the clock was set back

vars == <<b, pc, up, steps>>

Init == /\ b = NewBreaker
        /\ pc = [r \in Requests |-> "idle"]
        /\ up = TRUE
        /\ steps = 0

\* How a request that the breaker in this state lets through is sent.
Admitted(state) == IF state = "half_open" THEN "probe" ELSE "sent"

\* AllowRequest, the unlocked load: closed and half-open let the request pass.
AllowLoad(r) ==
  /\ pc[r] = "idle"
  /\ pc' = [pc EXCEPT ![r] = IF b.state = "open" THEN "open" ELSE Admitted(b.state)]
  /\ UNCHANGED <<b, up, steps>>

\* Mutant: a rejected request restarts the cooldown.
AllowLockedRestart(r) ==
  /\ pc[r] = "open"
  /\ b' = IF HalfOpen(b).state = "open" THEN [b EXCEPT !.sinceOpen = 0] ELSE HalfOpen(b)
  /\ pc' = [pc EXCEPT ![r] = IF b'.state = "open" THEN "idle" ELSE Admitted(b'.state)]
  /\ UNCHANGED <<up, steps>>

\* AllowRequest, the locked double check: whoever finds the cooldown over makes
\* the breaker half-open and passes; so does whoever finds it not open anymore.
\* Query returns ErrCircuitOpen to a rejected request and records nothing.
AllowLocked(r) ==
  /\ pc[r] = "open"
  /\ b' = HalfOpen(b)
  /\ pc' = [pc EXCEPT ![r] = IF b'.state = "open" THEN "idle" ELSE Admitted(b'.state)]
  /\ UNCHANGED <<up, steps>>

\* recordResult of an answer.
RecordSuccess(r) ==
  /\ pc[r] \in {"sent", "probe"} /\ up
  /\ b' = Succeeded(b)
  /\ pc' = [pc EXCEPT ![r] = "idle"]
  /\ UNCHANGED <<up, steps>>

\* recordResult of an error or a timeout.
RecordFailure(r) ==
  /\ pc[r] \in {"sent", "probe"} /\ ~up
  /\ TripsOn(b) => b.trips < MaxTrips
  /\ b' = Failed(b)
  /\ pc' = [pc EXCEPT ![r] = "idle"]
  /\ UNCHANGED <<up, steps>>

\* The upstream goes down or comes back.
Toggle == up' = ~up /\ UNCHANGED <<b, pc, steps>>

\* Time passes; past the cooldown nothing depends on how much.
Tick == /\ b.sinceOpen < cooldown
        /\ b' = [b EXCEPT !.sinceOpen = @ + 1]
        /\ UNCHANGED <<pc, up, steps>>

\* The wall clock is set back.
StepBack == /\ steps < MaxSteps
            /\ b' = [b EXCEPT !.sinceOpen = @ - cooldown]
            /\ steps' = steps + 1
            /\ UNCHANGED <<pc, up>>

Request(r) == AllowLoad(r) \/ AllowLocked(r) \/ RecordSuccess(r) \/ RecordFailure(r)

Next == (\E r \in Requests : Request(r)) \/ Toggle \/ Tick \/ StepBack

Spec == Init /\ [][Next]_vars

\* Time passes; admitted requests end (Query has a context deadline, and the
\* timeout itself is recorded); the upstream keeps being asked.
FairSpec == Spec /\ WF_vars(Tick) /\ \A r \in Requests : WF_vars(Request(r))
-----------------------------------------------------------------------------
TypeOK == /\ b \in BreakerType
          /\ pc \in [Requests -> {"idle", "open", "sent", "probe"}]
          /\ up \in BOOLEAN
          /\ steps \in 0..MaxSteps

\* breaker.go:117, :137: a closed breaker has fewer consecutive failures on
\* record than the threshold, so that after a recovery it takes a full run of
\* failures to trip it again, although requests admitted before the trip keep
\* adding to the run while the breaker is open.
ClosedBelowThreshold == b.state = "closed" => b.consecutiveFails < failThreshold

\* breaker.go:115, :146: trip_count and recover_count tell the same story as
\* current_state: no recovery without a trip before it, and a breaker that is
\* not closed has one it has not recovered from.
TripAccounting == /\ b.recovers <= b.trips
                  /\ b.state # "closed" => b.recovers < b.trips

\* breaker.go:63, :90: only a completed cooldown ends the open state; no success
\* or failure that arrives late does, and none restarts the cooldown.
OpenUntilCooled ==
  [][b.state = "open" =>
       \/ b'.state = "open" /\ b'.trips = b.trips
       \/ b'.state = "half_open" /\ b.sinceOpen >= cooldown]_vars

\* breaker.go:91: an open breaker gets to probe its upstream, even if rejected
\* requests keep coming in and the wall clock is set back on the way.
OpenIsProbed == (b.state = "open") ~> (b.state # "open")

\* breaker.go:112-117: once the upstream is back for good the breaker closes and
\* stays closed, whatever it and the requests in flight were doing.
Recovers == <>[]up => <>[](b.state = "closed")

=============================================================================
