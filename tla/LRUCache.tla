------------------------------ MODULE LRUCache ------------------------------
(***************************************************************************)
(* What internal/cache promises: an LRU cache of at most maxSize keys, in  *)
(* one step per operation and with no pointers.  order lists the cached    *)
(* keys, most recently used first; a full cache gives up the last key.     *)
(* DNSCache is shown to implement this, and where it does not.             *)
(***************************************************************************)
EXTENDS Integers, Sequences

CONSTANTS Keys, maxSize

VARIABLE order

Cached == {order[i] : i \in 1..Len(order)}

\* order with position i moved to the front, and with position i left out.
ToFront(i) == [j \in 1..Len(order) |->
                 IF j = 1 THEN order[i] ELSE IF j <= i THEN order[j - 1] ELSE order[j]]
Without(i) == [j \in 1..Len(order) - 1 |-> IF j < i THEN order[j] ELSE order[j + 1]]

Init == order = <<>>

\* A hit, or a new answer for a key that is cached.
Use(i) == order' = ToFront(i)

\* A new key; the least recently used one goes if the cache is full.
Insert(k) ==
  /\ k \notin Cached
  /\ LET kept == IF Len(order) >= maxSize THEN maxSize - 1 ELSE Len(order)
     IN  order' = [j \in 1..kept + 1 |-> IF j = 1 THEN k ELSE order[j - 1]]

\* An expired entry is dropped, or an entry is deleted.
Remove(i) == order' = Without(i)

Next == \/ \E i \in 1..Len(order) : Use(i) \/ Remove(i)
        \/ \E k \in Keys : Insert(k)

Spec == Init /\ [][Next]_order
=============================================================================
