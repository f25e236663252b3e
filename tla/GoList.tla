------------------------------- MODULE GoList -------------------------------
(***************************************************************************)
(* Go's container/list, the intrusive doubly linked list behind the LRU    *)
(* order of internal/cache.  The package is not part of the repository, so *)
(* it is modelled from the calls cache.go makes: New, Init, PushFront,     *)
(* MoveToFront, Remove, Back and the Front/Next walk.                      *)
(*                                                                         *)
(* A list is a heap of pointers, not a sequence, because two facts of the  *)
(* package decide what a late call on a stale *Element does:               *)
(*   - Remove clears the element's own pointers and its owner, so a later  *)
(*     MoveToFront or Remove of it is a no-op;                             *)
(*   - Init only resets the sentinel and the length: the elements that     *)
(*     were in the list keep their pointers AND their owner.               *)
(***************************************************************************)
EXTENDS Integers

CONSTANTS Elements,  \* the *list.Element objects a run may allocate
          Root,      \* the sentinel &l.root; its Value is nil
          Nil        \* a nil pointer

ASSUME ListConstants == Root \notin Elements /\ Nil \notin Elements \cup {Root}

Nodes == Elements \cup {Root}

List == [next : [Nodes -> Nodes \cup {Nil}], prev : [Nodes -> Nodes \cup {Nil}],
         owned : SUBSET Elements, len : Int]

\* list.New(): an empty ring.
NewList == [next  |-> [n \in Nodes |-> IF n = Root THEN Root ELSE Nil],
            prev  |-> [n \in Nodes |-> IF n = Root THEN Root ELSE Nil],
            owned |-> {}, len |-> 0]

\* l.Init(): the sentinel points to itself and the length is 0; nothing else.
ListInit(l) == [next  |-> [l.next EXCEPT ![Root] = Root],
                prev  |-> [l.prev EXCEPT ![Root] = Root],
                owned |-> l.owned, len |-> 0]

\* l.PushFront(v): link a fresh element right after the sentinel.
PushFront(l, e) ==
  LET after == l.next[Root]
  IN  [next  |-> [l.next EXCEPT ![e] = after, ![Root] = e],
       prev  |-> [l.prev EXCEPT ![e] = Root, ![after] = e],
       owned |-> l.owned \cup {e}, len |-> l.len + 1]

\* l.MoveToFront(e): four pointer writes, in the order of (*List).move, unless
\* e belongs to no list or is the front already.
MoveToFront(l, e) ==
  IF e \notin l.owned \/ l.next[Root] = e THEN l
  ELSE LET n1 == [l.next EXCEPT ![l.prev[e]] = l.next[e]]
           p1 == [l.prev EXCEPT ![n1[e]] = l.prev[e]]
           after == n1[Root]
       IN  [l EXCEPT !.next = [n1 EXCEPT ![e] = after, ![Root] = e],
                     !.prev = [p1 EXCEPT ![e] = Root, ![after] = e]]

\* l.Remove(e): unlink e and forget its pointers, if e belongs to the list.
ListRemove(l, e) ==
  IF e \notin l.owned THEN l
  ELSE LET n1 == [l.next EXCEPT ![l.prev[e]] = l.next[e]]
           p1 == [l.prev EXCEPT ![n1[e]] = l.prev[e]]
       IN  [next  |-> [n1 EXCEPT ![e] = Nil], prev |-> [p1 EXCEPT ![e] = Nil],
            owned |-> l.owned \ {e}, len |-> l.len - 1]

\* l.Back(): decided by the length, then read off the sentinel; on a corrupted
\* list of positive length it can be the sentinel itself.
Back(l) == IF l.len = 0 THEN Nil ELSE l.prev[Root]

\* The nodes e.Next() visits from the sentinel, step by step.
Walk(l, steps) ==
  LET W[i \in 0..steps] == IF i = 0 THEN Root ELSE l.next[W[i - 1]]
  IN  W

\* The list is one ring of l.len elements, linked both ways.
WellLinked(l) ==
  LET W == Walk(l, l.len)
  IN  /\ l.len \in Nat
      /\ {W[i] : i \in 1..l.len} = l.owned
      /\ \A i, j \in 0..l.len : W[i] = W[j] => i = j
      /\ l.next[W[l.len]] = Root
      /\ \A i \in 1..l.len : l.prev[W[i]] = W[i - 1]
      /\ l.prev[Root] = W[l.len]
=============================================================================
