------------------------------- MODULE Breaker -------------------------------
(***************************************************************************)
(* internal/upstream/breaker.go as operators on a breaker record, one per  *)
(* critical section of b.mu.  openedAt only ever enters as now - openedAt, *)
(* which sinceOpen counts in clock ticks up to the cooldown.               *)
(***************************************************************************)
EXTENDS Integers

CONSTANTS failThreshold,  \* consecutive failures that open the breaker
          cooldown        \* ticks until an open breaker admits a probe

ASSUME BreakerConstants == failThreshold \in Nat \ {0} /\ cooldown \in Nat \ {0}

BreakerType == [state : {"closed", "open", "half_open"}, consecutiveFails : Nat,
                trips : Nat, recovers : Nat, sinceOpen : Int]

NewBreaker == [state |-> "closed", consecutiveFails |-> 0, trips |-> 0, recovers |-> 0,
               sinceOpen |-> cooldown]

\* AllowRequest under the lock, once its unlocked load has seen open: half-open
\* when the cooldown is over.  The request is let through unless the breaker is
\* still open afterwards.
HalfOpen(b) ==
  IF b.state = "open" /\ b.sinceOpen >= cooldown THEN [b EXCEPT !.state = "half_open"] ELSE b

\* trip(): open, count it, start the cooldown.
Trip(b) == [b EXCEPT !.state = "open", !.trips = @ + 1, !.sinceOpen = 0]

\* Mutants: a recovery keeps the failure count; a success in the half-open state
\* does not close the breaker; a success closes it in any state.
SucceededUncleared(b) ==
  IF b.state = "half_open" THEN [b EXCEPT !.state = "closed", !.recovers = @ + 1]
  ELSE [b EXCEPT !.consecutiveFails = 0]
SucceededUnclosed(b) == [b EXCEPT !.consecutiveFails = 0]
SucceededAnyState(b) ==
  [b EXCEPT !.state = "closed", !.recovers = @ + 1, !.consecutiveFails = 0]

\* RecordSuccess(): a half-open breaker closes; the failure run is over.
Succeeded(b) ==
  IF b.state = "half_open"
  THEN [b EXCEPT !.state = "closed", !.recovers = @ + 1, !.consecutiveFails = 0]
  ELSE [b EXCEPT !.consecutiveFails = 0]

\* RecordFailure(): a half-open breaker opens again; otherwise the run grows,
\* also when the breaker is open already, and a closed breaker trips when the
\* run reaches the threshold.
TripsOn(b) == \/ b.state = "half_open"
              \/ b.state = "closed" /\ b.consecutiveFails + 1 >= failThreshold

\* Mutant: a late failure of a request admitted earlier trips an open breaker
\* again, and so restarts its cooldown.
FailedAgain(b) ==
  LET r == IF b.state = "half_open" THEN b ELSE [b EXCEPT !.consecutiveFails = @ + 1]
  IN  IF TripsOn(b) \/ b.state = "open" THEN Trip(r) ELSE r

Failed(b) ==
  LET r == IF b.state = "half_open" THEN b ELSE [b EXCEPT !.consecutiveFails = @ + 1]
  IN  IF TripsOn(b) THEN Trip(r) ELSE r
=============================================================================
