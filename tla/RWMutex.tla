------------------------------- MODULE RWMutex -------------------------------
(***************************************************************************)
(* Go's sync.RWMutex, as the repository uses it.  A Lock first announces   *)
(* itself, which keeps new readers out, and then waits for the readers it  *)
(* found.  Read locks are not reentrant: a goroutine that read-locks twice *)
(* is two readers, and the second one waits behind an announced writer.    *)
(***************************************************************************)
EXTENDS Integers

CONSTANTS Threads, NoThread

Mutex == [readers : [Threads -> Nat], announced : Threads \cup {NoThread}, held : BOOLEAN]

Unlocked == [readers |-> [t \in Threads |-> 0], announced |-> NoThread, held |-> FALSE]

CanRLock(m) == m.announced = NoThread
RLocked(m, t) == [m EXCEPT !.readers[t] = @ + 1]
RUnlocked(m, t) == [m EXCEPT !.readers[t] = @ - 1]

CanAnnounce(m) == m.announced = NoThread
Announced(m, t) == [m EXCEPT !.announced = t]
CanLock(m, t) == m.announced = t /\ ~m.held /\ \A u \in Threads : m.readers[u] = 0
Locked(m) == [m EXCEPT !.held = TRUE]
WUnlocked(m) == [m EXCEPT !.held = FALSE, !.announced = NoThread]
=============================================================================
