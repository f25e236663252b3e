--------------------------- MODULE DNSCacheProofs ---------------------------
(***************************************************************************)
(* What holds of the cache for every number of keys, clients, elements and *)
(* Clear calls.  Whatever races and corrupted lists do, it never answers   *)
(* with another key's entry or a cleared one, and its listing ends.  As    *)
(* long as nothing is deleted by key and Clear does not run, its list is a *)
(* proper ring of the elements of the map, and it implements LRUCache.     *)
(***************************************************************************)
EXTENDS DNSCache, FiniteSetTheorems, SequenceTheorems, TLAPS

\* RightAnswer and ClearIsEffective speak of the entry a client has read; to
\* carry them through a step we need what is true before the read, while the
\* client holds an element that others may replace, evict, drop or clear.
HeldElement(g) ==
  /\ g.from <= clears
  /\ g.pc # "idle" => g.key \in Keys
  /\ g.pc = "found" => /\ g.elem \in Elements
                       /\ value[g.elem] # Nil
                       /\ value[g.elem].key = g.key
                       /\ value[g.elem].epoch >= g.from
  /\ g.pc \in {"touch", "drop"} => /\ g.elem \in Elements
                                   /\ g.entry \in Entry
                                   /\ g.entry.key = g.key
                                   /\ g.entry.epoch >= g.from

\* The map only holds entries stored since the last Clear.
MappedIsCurrent == \A k \in Keys : entries[k] # Nil => value[entries[k]].epoch = clears

\* The inductive invariant.
IInv == /\ TypeOK
        /\ KeyIntegrity
        /\ MappedIsCurrent
        /\ \A c \in Clients : HeldElement(get[c])
-----------------------------------------------------------------------------
\* The operations of container/list map lists to lists, corrupted or not.
LEMMA ListOps ==
  ASSUME NEW l \in List, NEW e \in Elements
  PROVE  /\ ListInit(l) \in List
         /\ PushFront(l, e) \in List
         /\ MoveToFront(l, e) \in List
         /\ ListRemove(l, e) \in List
<1> DEFINE Ptr == [Nodes -> Nodes \cup {Nil}]
<1>1. Root \in Nodes /\ e \in Nodes  BY DEF Nodes
<1>2. l.next \in Ptr /\ l.prev \in Ptr /\ l.owned \in SUBSET Elements /\ l.len \in Int
  BY DEF List
<1>3. ASSUME NEW p \in Ptr, NEW n, NEW v \in Nodes \cup {Nil} PROVE [p EXCEPT ![n] = v] \in Ptr
  OBVIOUS
<1> HIDE DEF Ptr
<1>4. \A nx, pr \in Ptr, S \in SUBSET Elements, n \in Int :
         [next |-> nx, prev |-> pr, owned |-> S, len |-> n] \in List
  BY DEF List, Ptr
<1>5. \A p \in Ptr, n \in Nodes : p[n] \in Nodes \cup {Nil}  BY DEF Ptr
<1>6. ListInit(l) \in List
  <2>1. [l.next EXCEPT ![Root] = Root] \in Ptr /\ [l.prev EXCEPT ![Root] = Root] \in Ptr
    BY <1>1, <1>2, <1>3
  <2> QED  BY <1>2, <1>4, <2>1 DEF ListInit
<1>7. PushFront(l, e) \in List
  <2> DEFINE after == l.next[Root]
  <2>1. after \in Nodes \cup {Nil}  BY <1>1, <1>2, <1>5
  <2> HIDE DEF after
  <2>2. [l.next EXCEPT ![e] = after] \in Ptr /\ [l.prev EXCEPT ![e] = Root] \in Ptr
    BY <1>1, <1>2, <1>3, <2>1
  <2>3. [[l.next EXCEPT ![e] = after] EXCEPT ![Root] = e] \in Ptr
    BY <1>1, <1>3, <2>2
  <2>4. [[l.prev EXCEPT ![e] = Root] EXCEPT ![after] = e] \in Ptr
    BY <1>1, <1>3, <2>2
  <2> QED  BY <1>2, <1>4, <2>3, <2>4 DEF PushFront, after
<1>8. MoveToFront(l, e) \in List  BY <1>1 DEF MoveToFront, List
<1>9. ListRemove(l, e) \in List  BY <1>1 DEF ListRemove, List
<1> QED  BY <1>6, <1>7, <1>8, <1>9

\* A fresh element is neither mapped nor held by a client.
LEMMA FreeIsFresh ==
  ASSUME NEW e \in Elements, Free(e)
  PROVE  /\ \A k \in Keys : entries[k] # e
         /\ \A c \in Clients : get[c].elem # e
<1>1. e # Nil  BY ListConstants
<1> QED  BY <1>1 DEF Free, Mapped

\* The initial state satisfies the inductive invariant.
LEMMA InitInv == Init => IInv
<1> SUFFICES ASSUME Init PROVE IInv  OBVIOUS
<1>1. NewList \in List
  <2>1. Root \in Nodes  BY DEF Nodes
  <2>2. [n \in Nodes |-> IF n = Root THEN Root ELSE Nil] \in [Nodes -> Nodes \cup {Nil}]
    BY <2>1
  <2> QED  BY <2>2 DEF NewList, List
<1>2. Idle \in Get  BY CacheConstants DEF Get, Idle
<1>3. TypeOK
  <2>1. entries \in [Keys -> Elements \cup {Nil}] /\ value \in [Elements -> Entry \cup {Nil}]
    BY DEF Init
  <2>2. get \in [Clients -> Get]  BY <1>2 DEF Init
  <2>3. lru \in List  BY <1>1 DEF Init
  <2>4. clears \in 0..MaxClears  BY CacheConstants DEF Init
  <2>5. crashed \in BOOLEAN  BY DEF Init
  <2> QED  BY <2>1, <2>2, <2>3, <2>4, <2>5 DEF TypeOK
<1>4. KeyIntegrity /\ MappedIsCurrent  BY DEF Init, KeyIntegrity, MappedIsCurrent
<1>5. \A c \in Clients : HeldElement(get[c])  BY DEF Init, HeldElement, Idle
<1> QED  BY <1>3, <1>4, <1>5 DEF IInv

\* A step that leaves the map's entries as they are and moves one client on.
LEMMA ClientMoves ==
  ASSUME IInv, NEW c \in Clients, NEW g \in Get,
         get' = [get EXCEPT ![c] = g], HeldElement(g),
         lru' \in List, crashed' \in BOOLEAN,
         entries' \in [Keys -> Elements \cup {Nil}],
         \A k \in Keys : entries'[k] \in {entries[k], Nil},
         UNCHANGED <<value, clears>>
  PROVE  IInv'
<1>1. TypeOK'  BY DEF IInv, TypeOK
<1>2. KeyIntegrity' /\ MappedIsCurrent'
  BY DEF IInv, KeyIntegrity, MappedIsCurrent
<1>3. ASSUME NEW d \in Clients PROVE HeldElement(get[d])'
  BY <1>3 DEF IInv, TypeOK, HeldElement
<1> QED  BY <1>1, <1>2, <1>3 DEF IInv

\* Get, the lookup under the read lock, keeps the invariant: what it finds is current.
LEMMA GetLookupInv ==
  ASSUME IInv, NEW c \in Clients, NEW k \in Keys, GetLookup(c, k) PROVE IInv'
<1> DEFINE g == [pc |-> IF entries[k] = Nil THEN "miss" ELSE "found",
                 key |-> k, elem |-> entries[k], entry |-> Nil, from |-> clears]
<1>1. g \in Get  BY DEF IInv, TypeOK, Get
<1>2. HeldElement(g)
  BY CacheConstants DEF IInv, TypeOK, KeyIntegrity, MappedIsCurrent, HeldElement
<1> QED  BY <1>1, <1>2, ClientMoves DEF GetLookup, IInv, TypeOK

\* Get, the unlocked read of elem.Value, keeps it: the entry read is still one for the key asked.
LEMMA GetCheckInv ==
  ASSUME IInv, NEW c \in Clients, GetCheck(c) PROVE IInv'
<1> DEFINE entry == value[get[c].elem]
           g == [get[c] EXCEPT !.entry = entry,
                               !.pc = IF entry.expired /\ ~lazy THEN "drop" ELSE "touch"]
<1>1. get[c] \in Get /\ HeldElement(get[c]) /\ get[c].pc = "found"
  BY DEF GetCheck, At, IInv, TypeOK
<1>2. entry \in Entry /\ entry.key = get[c].key /\ entry.epoch >= get[c].from
  BY <1>1 DEF IInv, TypeOK, HeldElement
<1>3. g \in Get  BY <1>1, <1>2 DEF Get
<1>4. HeldElement(g)  BY <1>1, <1>2 DEF HeldElement, Get
<1>5. get' = [get EXCEPT ![c] = g]  BY <1>1 DEF GetCheck, IInv, TypeOK
<1> HIDE DEF g
<1> QED  BY <1>3, <1>4, <1>5, ClientMoves DEF GetCheck, IInv, TypeOK

\* Idle is a resting point whatever the client was doing.
LEMMA IdleOK == IInv => Idle \in Get /\ HeldElement(Idle)
BY CacheConstants DEF IInv, TypeOK, Get, Idle, HeldElement

\* Get, the second section of a hit.
LEMMA GetTouchInv ==
  ASSUME IInv, NEW c \in Clients, GetTouch(c) PROVE IInv'
<1>1. HeldElement(get[c]) /\ get[c].pc = "touch"  BY DEF GetTouch, At, IInv
<1>2. lru' \in List  BY <1>1, ListOps DEF GetTouch, IInv, TypeOK, HeldElement
<1> QED  BY <1>2, IdleOK, ClientMoves DEF GetTouch, IInv, TypeOK

\* Get, the second section of a hit on an expired entry, which deletes by key.
LEMMA GetDropInv ==
  ASSUME IInv, NEW c \in Clients, GetDrop(c) PROVE IInv'
<1> DEFINE g == [Idle EXCEPT !.pc = "miss", !.key = get[c].key]
<1>1. HeldElement(get[c]) /\ get[c].pc = "drop"  BY DEF GetDrop, At, IInv
<1>2. lru' \in List  BY <1>1, ListOps DEF GetDrop, IInv, TypeOK, HeldElement
<1>3. g \in Get
  <2>1. Idle \in Get  BY IdleOK
  <2> QED  BY <1>1, <2>1 DEF HeldElement, Get
<1>4. HeldElement(g)  BY <1>1, CacheConstants DEF HeldElement, Idle, IInv, TypeOK
<1>5. entries' \in [Keys -> Elements \cup {Nil}] /\ \A k \in Keys : entries'[k] \in {entries[k], Nil}
  BY DEF GetDrop, IInv, TypeOK
<1>6. get' = [get EXCEPT ![c] = g] /\ crashed' \in BOOLEAN /\ UNCHANGED <<value, clears>>
  BY DEF GetDrop, IInv, TypeOK
<1> HIDE DEF g
<1> QED  BY <1>2, <1>3, <1>4, <1>5, <1>6, ClientMoves

\* Set that stores nothing, or panics.
LEMMA SetWithoutStoringInv ==
  ASSUME IInv, NEW c \in Clients, SetPanic(c) \/ SetSkipped(c) PROVE IInv'
<1> USE IdleOK, ClientMoves
<1>1. CASE SetPanic(c)  BY <1>1 DEF SetPanic, IInv, TypeOK
<1>2. CASE SetSkipped(c)  BY <1>2 DEF SetSkipped, IInv, TypeOK
<1> QED  BY <1>1, <1>2

\* A new answer in a mapped element: others may hold the element, and then
\* they asked for the same key.
LEMMA SetReplaceInv ==
  ASSUME IInv, NEW c \in Clients, SetReplace(c) PROVE IInv'
<1> DEFINE k == get[c].key
           e == entries[k]
<1>1. k \in Keys  BY DEF SetReplace, At, IInv, HeldElement
<1>2. e \in Elements /\ value[e] # Nil /\ value[e].key = k
  BY <1>1 DEF SetReplace, IInv, TypeOK, KeyIntegrity
<1>3. NewEntry(k) \in Entry /\ NewEntry(k).key = k /\ NewEntry(k).epoch = clears
  BY <1>1 DEF NewEntry, Entry, IInv, TypeOK
<1>4. NewEntry(k) # Nil  BY <1>3, NilIsNoEntry
<1>5. value' = [value EXCEPT ![e] = NewEntry(k)]  BY DEF SetReplace
<1>6. entries' = entries /\ clears' = clears /\ crashed' = crashed
       /\ get' = [get EXCEPT ![c] = Idle] /\ lru' = MoveToFront(lru, e)
  BY DEF SetReplace
<1> HIDE DEF k, e
<1>7. TypeOK'
  <2>1. lru' \in List  BY <1>2, <1>6, ListOps DEF IInv, TypeOK
  <2> QED  BY <1>3, <1>5, <1>6, <2>1, IdleOK DEF IInv, TypeOK
<1>8. KeyIntegrity' /\ MappedIsCurrent'
  <2> SUFFICES ASSUME NEW j \in Keys, entries[j] # Nil
               PROVE  /\ value'[entries[j]] # Nil
                      /\ value'[entries[j]].key = j
                      /\ value'[entries[j]].epoch = clears
    BY <1>6 DEF KeyIntegrity, MappedIsCurrent
  <2>1. value[entries[j]].key = j /\ value[entries[j]] # Nil
         /\ value[entries[j]].epoch = clears /\ entries[j] \in Elements
    BY DEF IInv, TypeOK, KeyIntegrity, MappedIsCurrent
  <2>2. CASE entries[j] = e  BY <1>2, <1>3, <1>4, <1>5, <2>1, <2>2 DEF IInv, TypeOK
  <2>3. CASE entries[j] # e  BY <1>5, <2>1, <2>3 DEF IInv, TypeOK
  <2> QED  BY <2>2, <2>3
<1>9. ASSUME NEW d \in Clients PROVE HeldElement(get[d])'
  <2>1. CASE d = c  BY <1>6, <2>1, IdleOK DEF HeldElement, Idle, IInv, TypeOK
  <2>2. CASE d # c /\ get[d].pc = "found" /\ get[d].elem = e
    <3>1. get'[d] = get[d] /\ HeldElement(get[d])  BY <1>6, <2>2 DEF IInv, TypeOK
    <3> QED  BY <1>2, <1>3, <1>4, <1>5, <1>6, <2>2, <3>1 DEF IInv, TypeOK, HeldElement
  <2>3. CASE d # c /\ ~(get[d].pc = "found" /\ get[d].elem = e)
    <3>1. get'[d] = get[d] /\ HeldElement(get[d])  BY <1>6, <2>3 DEF IInv, TypeOK
    <3> QED  BY <1>5, <1>6, <2>3, <3>1 DEF IInv, TypeOK, HeldElement
  <2> QED  BY <2>1, <2>2, <2>3
<1> QED  BY <1>7, <1>8, <1>9 DEF IInv

\* A new element: nobody holds it, so the readers of other elements see nothing.
LEMMA SetInsertInv ==
  ASSUME IInv, NEW c \in Clients, NEW e \in Elements, SetInsert(c, e) PROVE IInv'
<1> DEFINE k == get[c].key
<1>1. k \in Keys  BY DEF SetInsert, At, IInv, HeldElement
<1>2. NewEntry(k) \in Entry /\ NewEntry(k).key = k /\ NewEntry(k).epoch = clears
  BY <1>1 DEF NewEntry, Entry, IInv, TypeOK
<1>3. NewEntry(k) # Nil  BY <1>2, NilIsNoEntry
<1>4. (\A j \in Keys : entries[j] # e) /\ \A d \in Clients : get[d].elem # e
  BY FreeIsFresh DEF SetInsert
<1>5. /\ value' = [value EXCEPT ![e] = NewEntry(k)]
      /\ get' = [get EXCEPT ![c] = Idle]
      /\ clears' = clears /\ crashed' = crashed
  BY DEF SetInsert
<1>6. EvictedEntries \in [Keys -> Elements \cup {Nil}]
       /\ \A j \in Keys : EvictedEntries[j] \in {entries[j], Nil}
  BY DEF EvictedEntries, IInv, TypeOK
<1>7. entries' = [EvictedEntries EXCEPT ![k] = e]  BY DEF SetInsert
<1>8. lru' \in List
  <2>1. lru \in List  BY DEF IInv, TypeOK
  <2>2. CASE Evicts
    <3>1. Oldest \in Elements
      <4>1. lru.prev[Root] \in Nodes \cup {Nil}  BY <2>1 DEF List, Nodes
      <4> QED  BY <2>2, <4>1 DEF SetInsert, Evicts, Oldest, Back, Nodes
    <3>2. EvictedList \in List  BY <2>1, <2>2, <3>1, ListOps DEF EvictedList
    <3> QED  BY <3>2, ListOps DEF SetInsert
  <2>3. CASE ~Evicts  BY <2>1, <2>3, ListOps DEF SetInsert, EvictedList
  <2> QED  BY <2>2, <2>3
<1> HIDE DEF k
<1>9. TypeOK'
  <2>1. entries' \in [Keys -> Elements \cup {Nil}]  BY <1>6, <1>7
  <2> QED  BY <1>2, <1>5, <1>8, <2>1, IdleOK DEF IInv, TypeOK
<1>10. KeyIntegrity' /\ MappedIsCurrent'
  <2> SUFFICES ASSUME NEW j \in Keys, entries'[j] # Nil
               PROVE  /\ value'[entries'[j]] # Nil
                      /\ value'[entries'[j]].key = j
                      /\ value'[entries'[j]].epoch = clears
    BY <1>5 DEF KeyIntegrity, MappedIsCurrent
  <2>1. CASE j = k
    BY <1>1, <1>2, <1>3, <1>5, <1>6, <1>7, <2>1 DEF IInv, TypeOK
  <2>2. CASE j # k
    <3>1. entries'[j] = entries[j] /\ entries[j] \in Elements /\ entries[j] # e
      BY <1>4, <1>6, <1>7, <2>2 DEF IInv, TypeOK
    <3> QED  BY <1>5, <3>1 DEF IInv, TypeOK, KeyIntegrity, MappedIsCurrent
  <2> QED  BY <2>1, <2>2
<1>11. ASSUME NEW d \in Clients PROVE HeldElement(get[d])'
  <2>1. CASE d = c  BY <1>5, <2>1, IdleOK DEF HeldElement, Idle, IInv, TypeOK
  <2>2. CASE d # c
    <3>1. get'[d] = get[d] /\ HeldElement(get[d])  BY <1>5, <2>2 DEF IInv, TypeOK
    <3> QED  BY <1>4, <1>5, <3>1 DEF IInv, TypeOK, HeldElement
  <2> QED  BY <2>1, <2>2
<1> QED  BY <1>9, <1>10, <1>11 DEF IInv

\* Delete.
LEMMA DeleteInv ==
  ASSUME IInv, NEW k \in Keys, Delete(k) PROVE IInv'
<1>1. entries[k] \in Elements  BY DEF Delete, IInv, TypeOK
<1>2. lru' \in List  BY <1>1, ListOps DEF Delete, IInv, TypeOK
<1>3. TypeOK'  BY <1>2 DEF Delete, IInv, TypeOK
<1>4. KeyIntegrity' /\ MappedIsCurrent'
  BY DEF Delete, IInv, TypeOK, KeyIntegrity, MappedIsCurrent
<1>5. ASSUME NEW d \in Clients PROVE HeldElement(get[d])'
  BY DEF Delete, IInv, HeldElement
<1> QED  BY <1>3, <1>4, <1>5 DEF IInv

\* Clear leaves every element and its entry alone; it empties the map.
LEMMA ClearInv ==
  ASSUME IInv, Clear PROVE IInv'
<1>1. lru' \in List
  <2>1. CASE Elements = {}  BY <2>1 DEF Clear, IInv, TypeOK, ListInit, List, Nodes
  <2>2. CASE Elements # {}
    <3>1. PICK e \in Elements : TRUE  BY <2>2
    <3> QED  BY <3>1, ListOps DEF Clear, IInv, TypeOK
  <2> QED  BY <2>1, <2>2
<1>2. clears' = clears + 1 /\ clears \in 0..MaxClears /\ clears' \in 0..MaxClears
  BY CacheConstants DEF Clear, IInv, TypeOK
<1>3. TypeOK'  BY <1>1, <1>2 DEF Clear, IInv, TypeOK
<1>4. KeyIntegrity' /\ MappedIsCurrent'  BY DEF Clear, KeyIntegrity, MappedIsCurrent
<1>5. ASSUME NEW d \in Clients PROVE HeldElement(get[d])'
  <2>1. get[d].from \in 0..MaxClears /\ HeldElement(get[d])  BY DEF IInv, TypeOK, Get
  <2> QED  BY <1>2, <2>1 DEF Clear, HeldElement
<1> QED  BY <1>3, <1>4, <1>5 DEF IInv

\* Expiry changes neither the key nor the epoch of an entry.
LEMMA ExpireInv ==
  ASSUME IInv, NEW e \in Elements, Expire(e) PROVE IInv'
<1>1. value[e] \in Entry
  <2>1. value[e] # Nil
    BY DEF Expire, Mapped, IInv, KeyIntegrity, HeldElement
  <2> QED  BY <2>1 DEF IInv, TypeOK
<1>2. PICK v \in Entry : v.key = value[e].key /\ v.epoch = value[e].epoch
                         /\ value' = [value EXCEPT ![e] = v]
  <2>1. [value[e] EXCEPT !.expired = TRUE] \in Entry  BY <1>1 DEF Entry
  <2>2. value' = [value EXCEPT ![e] = [value[e] EXCEPT !.expired = TRUE]]
    BY DEF Expire
  <2> QED  BY <1>1, <2>1, <2>2 DEF Entry
<1>3. v # Nil /\ UNCHANGED <<entries, lru, clears, get, crashed>>
  BY NilIsNoEntry DEF Expire
<1>4. TypeOK'  BY <1>2, <1>3 DEF IInv, TypeOK
<1>5. KeyIntegrity' /\ MappedIsCurrent'
  BY <1>2, <1>3 DEF IInv, TypeOK, KeyIntegrity, MappedIsCurrent
<1>6. ASSUME NEW d \in Clients PROVE HeldElement(get[d])'
  BY <1>2, <1>3 DEF IInv, TypeOK, HeldElement
<1> QED  BY <1>4, <1>5, <1>6 DEF IInv

\* Every step keeps the inductive invariant.
LEMMA NextInv == IInv /\ [Next]_vars => IInv'
<1> SUFFICES ASSUME IInv, [Next]_vars PROVE IInv'  OBVIOUS
<1>1. ASSUME NEW c \in Clients, Client(c) PROVE IInv'
  BY <1>1, GetLookupInv, GetCheckInv, GetTouchInv, GetDropInv, SetReplaceInv,
     SetWithoutStoringInv, SetInsertInv DEF Client
<1>2. CASE UNCHANGED vars
  BY <1>2 DEF vars, IInv, TypeOK, KeyIntegrity, MappedIsCurrent, HeldElement
<1> QED  BY <1>1, <1>2, ExpireInv, ClearInv, DeleteInv DEF Next, ProgramNext
-----------------------------------------------------------------------------
\* The invariant of the cache holds in every reachable state.
THEOREM CacheInvariant == Spec => []IInv
<1>1. Init => IInv  BY InitInv
<1>2. IInv /\ [Next]_vars => IInv'  BY NextInv
<1> QED  BY <1>1, <1>2, PTL DEF Spec

\* cache.go:113, :124, :246: no interleaving of Get, Set, Delete and Clear makes
\* two keys share an element or a key lead to another key's entry.
THEOREM CacheKeyIntegrity == Spec => [](TypeOK /\ KeyIntegrity)
<1>1. IInv => TypeOK /\ KeyIntegrity  BY DEF IInv
<1> QED  BY <1>1, CacheInvariant, PTL

\* cache.go:55-65: the entry Get reads without the lock is one for the key asked.
THEOREM CacheRightAnswer == Spec => []RightAnswer
<1>1. IInv => RightAnswer  BY NilIsNoEntry DEF IInv, RightAnswer, HeldElement
<1> QED  BY <1>1, CacheInvariant, PTL

\* cache.go:154: a Get that starts after a Clear serves no entry from before it.
THEOREM CacheClearIsEffective == Spec => []ClearIsEffective
<1>1. IInv => ClearIsEffective  BY DEF IInv, ClearIsEffective, HeldElement
<1> QED  BY <1>1, CacheInvariant, PTL
-----------------------------------------------------------------------------
\* The list as a ring: w names its nodes, the sentinel first.  It is what WellLinked says
\* of the walk, and can be given for the list that an operation makes.
Ring(l, w, n) ==
  /\ n \in Nat /\ w \in [0..n -> Nodes] /\ w[0] = Root
  /\ \A i, j \in 0..n : w[i] = w[j] => i = j
  /\ \A i \in 1..n : l.next[w[i - 1]] = w[i] /\ l.prev[w[i]] = w[i - 1]
  /\ l.next[w[n]] = Root /\ l.prev[Root] = w[n]
  /\ l.len = n
  /\ \A x : x \in l.owned <=> \E i \in 1..n : x = w[i]

\* The ring without its node i, with a new first node, and with its node i moved to the front.
Less(w, n, i) == [j \in 0..(n - 1) |-> IF j < i THEN w[j] ELSE w[j + 1]]
More(w, n, e) == [j \in 0..(n + 1) |-> IF j = 0 THEN Root ELSE IF j = 1 THEN e ELSE w[j - 1]]
Front(w, n, i) == [j \in 0..n |-> IF j = 0 THEN Root ELSE IF j = 1 THEN w[i] ELSE IF j <= i THEN w[j - 1] ELSE w[j]]

\* next leads from a node of the ring to the one after it, from the last to the sentinel.
LEMMA NextInRing ==
  ASSUME NEW l, NEW w, NEW n, Ring(l, w, n), NEW i \in 0..n
  PROVE  l.next[w[i]] = IF i = n THEN Root ELSE w[i + 1]
<1>1. CASE i = n  BY <1>1 DEF Ring
<1>2. CASE i # n
  <2>1. i + 1 \in 1..n /\ (i + 1) - 1 = i  BY <1>2 DEF Ring
  <2>2. l.next[w[(i + 1) - 1]] = w[i + 1]  BY <2>1 DEF Ring
  <2> QED  BY <1>2, <2>1, <2>2
<1> QED  BY <1>1, <1>2

\* list.Remove of a node of the ring takes it out and leaves the others in their order.
LEMMA RemoveRing ==
  ASSUME NEW l \in List, NEW w, NEW n, Ring(l, w, n), NEW i \in 1..n
  PROVE  Ring(ListRemove(l, w[i]), Less(w, n, i), n - 1)
<1> DEFINE e == w[i]
           v == Less(w, n, i)
           r == ListRemove(l, e)
           s == l.next[e]
           b == w[i - 1]
<1>1. /\ n \in Nat /\ \A j \in 0..n : w[j] \in Nodes
      /\ w[0] = Root
      /\ \A j, h \in 0..n : w[j] = w[h] => j = h
      /\ \A j \in 1..n : l.next[w[j - 1]] = w[j] /\ l.prev[w[j]] = w[j - 1]
      /\ l.next[w[n]] = Root /\ l.prev[Root] = w[n] /\ l.len = n
      /\ \A x : x \in l.owned <=> \E j \in 1..n : x = w[j]
  BY DEF Ring
<1>2. s = IF i = n THEN Root ELSE w[i + 1]  BY <1>1, NextInRing
<1>3. e \in l.owned /\ e \in Nodes /\ b \in Nodes /\ s \in Nodes /\ b # e /\ s # e /\ l.prev[e] = b
  <2>1. e \in l.owned /\ e \in Nodes /\ b \in Nodes /\ l.prev[e] = b /\ b # e  BY <1>1
  <2>2. s \in Nodes /\ s # e
    <3>1. CASE i = n  BY <1>1, <1>2, <3>1
    <3>2. CASE i # n  BY <1>1, <1>2, <3>2
    <3> QED  BY <3>1, <3>2
  <2> QED  BY <2>1, <2>2
<1>4. l.next \in [Nodes -> Nodes \cup {Nil}] /\ l.prev \in [Nodes -> Nodes \cup {Nil}]  BY DEF List
<1> HIDE DEF e, s, b
<1>5. r = [next |-> [[l.next EXCEPT ![b] = s] EXCEPT ![e] = Nil], prev |-> [[l.prev EXCEPT ![s] = b] EXCEPT ![e] = Nil],
           owned |-> l.owned \ {e}, len |-> l.len - 1]
  <2>1. [l.next EXCEPT ![l.prev[e]] = l.next[e]] = [l.next EXCEPT ![b] = s]  BY <1>3 DEF s
  <2>2. [l.next EXCEPT ![b] = s][e] = s  BY <1>3, <1>4 DEF s
  <2> QED  BY <1>3, <2>1, <2>2 DEF ListRemove
<1>6. /\ \A x \in Nodes : x # e /\ x # b => r.next[x] = l.next[x]
      /\ r.next[b] = s
      /\ \A x \in Nodes : x # e /\ x # s => r.prev[x] = l.prev[x]
      /\ r.prev[s] = b
      /\ r.owned = l.owned \ {e} /\ r.len = n - 1
  BY <1>1, <1>3, <1>4, <1>5
<1> HIDE DEF r
<1>7. v \in [0..(n - 1) -> Nodes] /\ v[0] = Root /\ \A j \in 0..(n - 1) : v[j] = IF j < i THEN w[j] ELSE w[j + 1]
  BY <1>1 DEF Less
<1> HIDE DEF v
<1>8. \A j, h \in 0..(n - 1) : v[j] = v[h] => j = h  BY <1>1, <1>7
<1>9. ASSUME NEW j \in 1..(n - 1) PROVE r.next[v[j - 1]] = v[j] /\ r.prev[v[j]] = v[j - 1]
  <2>1. CASE j < i
    <3>1. v[j - 1] = w[j - 1] /\ v[j] = w[j] /\ j \in 1..n  BY <1>1, <1>7, <2>1
    <3>2. w[j - 1] # e /\ w[j - 1] # b /\ w[j] # e /\ w[j] # s /\ w[j] \in Nodes /\ w[j - 1] \in Nodes
      BY <1>1, <1>2, <2>1 DEF e, b
    <3> QED  BY <1>1, <1>6, <3>1, <3>2
  <2>2. CASE j = i
    <3>1. v[j - 1] = b /\ v[j] = s  BY <1>1, <1>2, <1>7, <2>2 DEF b
    <3> QED  BY <1>6, <3>1
  <2>3. CASE j > i
    <3>1. v[j - 1] = w[j] /\ v[j] = w[j + 1] /\ j + 1 \in 1..n /\ (j + 1) - 1 = j  BY <1>1, <1>7, <2>3
    <3>2. w[j] # e /\ w[j] # b /\ w[j + 1] # e /\ w[j + 1] # s /\ w[j] \in Nodes /\ w[j + 1] \in Nodes
      BY <1>1, <1>2, <2>3, <3>1 DEF e, b
    <3>3. l.next[w[j]] = w[j + 1] /\ l.prev[w[j + 1]] = w[j]  BY <1>1, <3>1
    <3> QED  BY <1>6, <3>1, <3>2, <3>3
  <2> QED  BY <2>1, <2>2, <2>3
<1>10. r.next[v[n - 1]] = Root /\ r.prev[Root] = v[n - 1]
  <2>1. CASE i = n
    <3>1. v[n - 1] = b /\ s = Root  BY <1>1, <1>2, <1>7, <2>1 DEF b
    <3> QED  BY <1>6, <3>1
  <2>2. CASE i # n
    <3>1. v[n - 1] = w[n] /\ w[n] # e /\ w[n] # b  BY <1>1, <1>7, <2>2 DEF e, b
    <3>2. Root \in Nodes /\ Root # e /\ Root # s  BY <1>1, <1>2, <2>2 DEF e, Nodes
    <3> QED  BY <1>1, <1>6, <3>1, <3>2
  <2> QED  BY <2>1, <2>2
<1>11. \A x : x \in r.owned <=> \E j \in 1..(n - 1) : x = v[j]
  <2>1. ASSUME NEW x, x \in r.owned PROVE \E j \in 1..(n - 1) : x = v[j]
    <3>1. PICK h \in 1..n : x = w[h] /\ h # i  BY <1>1, <1>6, <2>1 DEF e
    <3>2. CASE h < i
      <4>1. h \in 1..(n - 1) /\ v[h] = w[h]  BY <1>1, <1>7, <3>1, <3>2
      <4> QED  BY <3>1, <4>1
    <3>3. CASE h > i
      <4>1. h - 1 \in 1..(n - 1) /\ (h - 1) + 1 = h /\ ~(h - 1 < i)  BY <1>1, <3>1, <3>3
      <4>2. v[h - 1] = w[h]  BY <1>7, <4>1
      <4> QED  BY <3>1, <4>1, <4>2
    <3> QED  BY <3>1, <3>2, <3>3
  <2>2. ASSUME NEW j \in 1..(n - 1) PROVE v[j] \in r.owned
    <3>1. PICK h \in 1..n : v[j] = w[h] /\ h # i
      <4>1. CASE j < i  BY <1>1, <1>7, <4>1
      <4>2. CASE ~(j < i)
        <5>1. j + 1 \in 1..n /\ j + 1 # i /\ v[j] = w[j + 1]  BY <1>1, <1>7, <4>2
        <5> QED  BY <5>1
      <4> QED  BY <4>1, <4>2
    <3> QED  BY <1>1, <1>6, <3>1 DEF e
  <2> QED  BY <2>1, <2>2
<1>12. n - 1 \in Nat  BY <1>1
<1> QED  BY <1>6, <1>7, <1>8, <1>9, <1>10, <1>11, <1>12 DEF Ring, r, v, e

\* list.PushFront of an element the list does not hold puts it before all others.
LEMMA PushRing ==
  ASSUME NEW l \in List, NEW w, NEW n, Ring(l, w, n), NEW e \in Elements \ l.owned
  PROVE  Ring(PushFront(l, e), More(w, n, e), n + 1)
<1> DEFINE v == More(w, n, e)
           r == PushFront(l, e)
           s == l.next[Root]
<1>1. /\ n \in Nat /\ \A j \in 0..n : w[j] \in Nodes
      /\ w[0] = Root
      /\ \A j, h \in 0..n : w[j] = w[h] => j = h
      /\ \A j \in 1..n : l.next[w[j - 1]] = w[j] /\ l.prev[w[j]] = w[j - 1]
      /\ l.next[w[n]] = Root /\ l.prev[Root] = w[n] /\ l.len = n
      /\ \A x : x \in l.owned <=> \E j \in 1..n : x = w[j]
  BY DEF Ring
<1>2. s = IF n = 0 THEN Root ELSE w[1]
  <2>1. 0 \in 0..n  BY <1>1
  <2> QED  BY <1>1, <2>1, NextInRing
<1>3. e \in Nodes /\ Root \in Nodes /\ s \in Nodes /\ e # Root /\ s # e /\ \A j \in 0..n : w[j] # e
  <2>1. e \in Nodes /\ Root \in Nodes /\ e # Root  BY ListConstants DEF Nodes
  <2>2. \A j \in 0..n : w[j] # e
    <3> SUFFICES ASSUME NEW j \in 0..n PROVE w[j] # e  OBVIOUS
    <3>1. CASE j = 0  BY <1>1, <2>1, <3>1
    <3>2. CASE j # 0  BY <1>1, <3>2
    <3> QED  BY <3>1, <3>2
  <2>3. s \in Nodes /\ s # e  BY <1>1, <1>2, <2>1, <2>2
  <2> QED  BY <2>1, <2>2, <2>3
<1>4. l.next \in [Nodes -> Nodes \cup {Nil}] /\ l.prev \in [Nodes -> Nodes \cup {Nil}]  BY DEF List
<1> HIDE DEF s
<1>5. r = [next |-> [[l.next EXCEPT ![e] = s] EXCEPT ![Root] = e], prev |-> [[l.prev EXCEPT ![e] = Root] EXCEPT ![s] = e],
           owned |-> l.owned \cup {e}, len |-> l.len + 1]
  BY DEF PushFront, s
<1>6. /\ \A x \in Nodes : x # e /\ x # Root => r.next[x] = l.next[x]
      /\ r.next[Root] = e /\ r.next[e] = s
      /\ \A x \in Nodes : x # e /\ x # s => r.prev[x] = l.prev[x]
      /\ r.prev[s] = e /\ r.prev[e] = Root
      /\ r.owned = l.owned \cup {e} /\ r.len = n + 1
  BY <1>1, <1>3, <1>4, <1>5
<1> HIDE DEF r
<1>7. /\ v \in [0..(n + 1) -> Nodes] /\ v[0] = Root /\ v[1] = e
      /\ \A j \in 2..(n + 1) : v[j] = w[j - 1]
  BY <1>1, <1>3 DEF More
<1> HIDE DEF v
<1>8. \A j, h \in 0..(n + 1) : v[j] = v[h] => j = h
  <2> SUFFICES ASSUME NEW j \in 0..(n + 1), NEW h \in 0..(n + 1), v[j] = v[h] PROVE j = h  OBVIOUS
  <2>1. \A i \in 0..(n + 1) : i # 0 /\ i # 1 => i - 1 \in 1..n /\ v[i] = w[i - 1] /\ v[i] # Root /\ v[i] # e
    <3> SUFFICES ASSUME NEW i \in 0..(n + 1), i # 0, i # 1
                 PROVE  i - 1 \in 1..n /\ v[i] = w[i - 1] /\ v[i] # Root /\ v[i] # e
      OBVIOUS
    <3>1. i - 1 \in 1..n /\ i - 1 \in 0..n /\ v[i] = w[i - 1] /\ 0 \in 0..n  BY <1>1, <1>7
    <3>2. w[i - 1] # w[0]  BY <1>1, <3>1
    <3> QED  BY <1>1, <1>3, <3>1, <3>2
  <2>2. CASE j \in {0, 1} \/ h \in {0, 1}  BY <1>3, <1>7, <2>1, <2>2
  <2>3. CASE j \notin {0, 1} /\ h \notin {0, 1}
    <3>1. w[j - 1] = w[h - 1] /\ j - 1 \in 0..n /\ h - 1 \in 0..n  BY <1>1, <2>1, <2>3
    <3> QED  BY <1>1, <3>1
  <2> QED  BY <2>2, <2>3
<1>9. ASSUME NEW j \in 1..(n + 1) PROVE r.next[v[j - 1]] = v[j] /\ r.prev[v[j]] = v[j - 1]
  <2>1. CASE j = 1  BY <1>3, <1>6, <1>7, <2>1
  <2>2. CASE j = 2
    <3>1. n # 0 /\ v[j - 1] = e /\ v[j] = w[1]  BY <1>1, <1>7, <2>2
    <3> QED  BY <1>2, <1>6, <3>1
  <2>3. CASE j > 2
    <3>1. v[j - 1] = w[j - 2] /\ v[j] = w[j - 1] /\ j - 1 \in 1..n /\ j - 2 \in 1..n /\ (j - 1) - 1 = j - 2
      BY <1>1, <1>7, <2>3
    <3>2. l.next[w[j - 2]] = w[j - 1] /\ l.prev[w[j - 1]] = w[j - 2]  BY <1>1, <3>1
    <3>3. w[j - 2] \in Nodes /\ w[j - 1] \in Nodes /\ w[j - 2] # e /\ w[j - 2] # Root /\ w[j - 1] # e /\ w[j - 1] # s
      <4>1. 0 \in 0..n /\ 1 \in 0..n /\ j - 1 \in 0..n /\ j - 2 \in 0..n /\ j - 1 # 1 /\ n # 0 /\ j - 2 # 0
        BY <1>1, <2>3, <3>1
      <4> QED  BY <1>1, <1>2, <1>3, <4>1
    <3> QED  BY <1>6, <3>1, <3>2, <3>3
  <2> QED  BY <2>1, <2>2, <2>3
<1>10. r.next[v[n + 1]] = Root /\ r.prev[Root] = v[n + 1]
  <2>1. CASE n = 0  BY <1>2, <1>6, <1>7, <2>1
  <2>2. CASE n # 0
    <3>1. v[n + 1] = w[n] /\ n \in 0..n /\ 1 \in 0..n /\ 0 \in 0..n  BY <1>1, <1>7, <2>2
    <3>2. w[n] # e /\ w[n] # Root /\ w[n] \in Nodes  BY <1>1, <1>3, <2>2, <3>1
    <3>3. Root # e /\ Root # s  BY <1>1, <1>2, <1>3, <2>2, <3>1
    <3> QED  BY <1>1, <1>3, <1>6, <3>1, <3>2, <3>3
  <2> QED  BY <2>1, <2>2
<1>11. \A x : x \in r.owned <=> \E j \in 1..(n + 1) : x = v[j]
  <2>1. ASSUME NEW x, x \in r.owned PROVE \E j \in 1..(n + 1) : x = v[j]
    <3>1. CASE x = e
      <4>1. 1 \in 1..(n + 1)  BY <1>1
      <4> QED  BY <1>7, <3>1, <4>1
    <3>2. CASE x \in l.owned
      <4>1. PICK h \in 1..n : x = w[h]  BY <1>1, <3>2
      <4>2. h + 1 \in 2..(n + 1) /\ h + 1 \in 1..(n + 1) /\ (h + 1) - 1 = h  BY <1>1
      <4>3. v[h + 1] = w[h]  BY <1>7, <4>2
      <4> QED  BY <4>1, <4>2, <4>3
    <3> QED  BY <1>6, <2>1, <3>1, <3>2
  <2>2. ASSUME NEW j \in 1..(n + 1) PROVE v[j] \in r.owned
    <3>1. CASE j = 1  BY <1>6, <1>7, <3>1
    <3>2. CASE j # 1
      <4>1. j - 1 \in 1..n /\ v[j] = w[j - 1]  BY <1>1, <1>7, <3>2
      <4> QED  BY <1>1, <1>6, <4>1
    <3> QED  BY <3>1, <3>2
  <2> QED  BY <2>1, <2>2
<1>12. n + 1 \in Nat  BY <1>1
<1> QED  BY <1>6, <1>7, <1>8, <1>9, <1>10, <1>11, <1>12 DEF Ring, r, v

\* A list with other pointers is the record one expects.
LEMMA Relinked ==
  ASSUME NEW l \in List, NEW x, NEW y
  PROVE  [l EXCEPT !.next = x, !.prev = y] = [next |-> x, prev |-> y, owned |-> l.owned, len |-> l.len]
<1>1. PICK f, g, o, c : l = [next |-> f, prev |-> g, owned |-> o, len |-> c]  BY DEF List
<1>2. PICK z : z = [l EXCEPT !.next = x]  OBVIOUS
<1>3. z = [next |-> x, prev |-> g, owned |-> o, len |-> c]  BY <1>1, <1>2
<1>4. [z EXCEPT !.prev = y] = [next |-> x, prev |-> y, owned |-> o, len |-> c]  BY <1>3
<1> QED  BY <1>1, <1>2, <1>4

\* list.MoveToFront is a removal and a push of the same node, unless it is the first already.
LEMMA MoveIsPush ==
  ASSUME NEW l \in List, NEW e \in l.owned, l.next[Root] # e
  PROVE  PushFront(ListRemove(l, e), e) = MoveToFront(l, e)
<1> DEFINE r == ListRemove(l, e)
           m == MoveToFront(l, e)
           b == l.prev[e]
           n1 == [l.next EXCEPT ![b] = l.next[e]]
           p1 == [l.prev EXCEPT ![n1[e]] = b]
           Ptr == [Nodes -> Nodes \cup {Nil}]
<1>1. e \in Nodes /\ Root \in Nodes /\ e # Root /\ l.len \in Int  BY ListConstants DEF Nodes, List
<1>2. n1 \in Ptr /\ p1 \in Ptr
  <2>1. l.next \in Ptr /\ l.prev \in Ptr  BY DEF List
  <2>2. l.next[e] \in Nodes \cup {Nil} /\ b \in Nodes \cup {Nil}  BY <1>1, <2>1
  <2> QED  BY <2>1, <2>2
<1>3. r = [next |-> [n1 EXCEPT ![e] = Nil], prev |-> [p1 EXCEPT ![e] = Nil],
           owned |-> l.owned \ {e}, len |-> l.len - 1]
  BY DEF ListRemove
<1>4. m = [l EXCEPT !.next = [n1 EXCEPT ![e] = n1[Root], ![Root] = e],
                    !.prev = [p1 EXCEPT ![e] = Root, ![n1[Root]] = e]]
  BY DEF MoveToFront
<1> HIDE DEF n1, p1, b, m, r
<1>5. [n1 EXCEPT ![e] = Nil][Root] = n1[Root]  BY <1>1, <1>2
<1> DEFINE a == n1[Root]
<1>6. [[[n1 EXCEPT ![e] = Nil] EXCEPT ![e] = a] EXCEPT ![Root] = e] = [[n1 EXCEPT ![e] = a] EXCEPT ![Root] = e]
  BY <1>1, <1>2
<1>7. [[[p1 EXCEPT ![e] = Nil] EXCEPT ![e] = Root] EXCEPT ![a] = e] = [[p1 EXCEPT ![e] = Root] EXCEPT ![a] = e]
  BY <1>1, <1>2
<1> DEFINE x == [[n1 EXCEPT ![e] = a] EXCEPT ![Root] = e]
           y == [[p1 EXCEPT ![e] = Root] EXCEPT ![a] = e]
<1>8. (l.owned \ {e}) \cup {e} = l.owned /\ (l.len - 1) + 1 = l.len  BY <1>1
<1>9. PushFront(r, e) = [next |-> x, prev |-> y, owned |-> l.owned, len |-> l.len]
  BY <1>3, <1>5, <1>6, <1>7, <1>8 DEF PushFront
<1>10. m = [l EXCEPT !.next = x, !.prev = y]  BY <1>4
<1> HIDE DEF x, y
<1>11. [l EXCEPT !.next = x, !.prev = y] = [next |-> x, prev |-> y, owned |-> l.owned, len |-> l.len]
  BY Relinked
<1>12. PushFront(r, e) = m  BY <1>9, <1>10, <1>11
<1> QED  BY <1>12 DEF r, m

\* list.MoveToFront of a node of the ring brings it to the front.
LEMMA MoveRing ==
  ASSUME NEW l \in List, NEW w, NEW n, Ring(l, w, n), NEW i \in 1..n
  PROVE  Ring(MoveToFront(l, w[i]), Front(w, n, i), n)
<1> DEFINE e == w[i]
           v == Less(w, n, i)
           r == ListRemove(l, e)
           m == MoveToFront(l, e)
<1>1. /\ n \in Nat /\ w \in [0..n -> Nodes] /\ w[0] = Root
      /\ \A j, h \in 0..n : w[j] = w[h] => j = h
      /\ e \in l.owned /\ e \in Elements /\ l.len = n /\ l.owned \subseteq Elements
  <2>1. /\ n \in Nat /\ w \in [0..n -> Nodes] /\ w[0] = Root
        /\ \A j, h \in 0..n : w[j] = w[h] => j = h
        /\ e \in l.owned /\ l.len = n
    BY DEF Ring
  <2>2. l.owned \subseteq Elements  BY DEF List
  <2> QED  BY <2>1, <2>2
<1>2. CASE i = 1
  <2>1. l.next[Root] = e
    <3>1. 0 \in 0..n /\ 0 # n /\ 0 + 1 = 1  BY <1>1, <1>2
    <3> QED  BY <1>1, <1>2, <3>1, NextInRing
  <2>2. m = l  BY <2>1 DEF MoveToFront
  <2>3. Front(w, n, i) = w
    <3>1. \A j \in 0..n : (IF j = 0 THEN Root ELSE IF j = 1 THEN w[i] ELSE IF j <= i THEN w[j - 1] ELSE w[j]) = w[j]
      BY <1>1, <1>2
    <3> QED  BY <1>1, <3>1 DEF Front
  <2> QED  BY <2>2, <2>3
<1>3. CASE i # 1
  <2>1. l.next[Root] # e
    <3>1. 0 \in 0..n /\ 0 # n /\ 0 + 1 = 1 /\ 1 \in 0..n /\ i \in 0..n  BY <1>1, <1>3
    <3>2. l.next[Root] = w[1]  BY <1>1, <3>1, NextInRing
    <3> QED  BY <1>1, <1>3, <3>1, <3>2
  <2>2. Ring(r, v, n - 1)  BY RemoveRing
  <2>3. r \in List /\ e \in Elements \ r.owned
    <3>1. r \in List  BY <1>1, ListOps
    <3>2. r.owned = l.owned \ {e}  BY <1>1 DEF ListRemove
    <3> QED  BY <1>1, <3>1, <3>2
  <2>4. PushFront(r, e) = m  BY <1>1, <2>1, MoveIsPush
  <2>5. More(v, n - 1, e) = Front(w, n, i)
    <3>1. (n - 1) + 1 = n  BY <1>1
    <3>2. ASSUME NEW j \in 0..n
          PROVE  (IF j = 0 THEN Root ELSE IF j = 1 THEN e ELSE v[j - 1])
                 = (IF j = 0 THEN Root ELSE IF j = 1 THEN w[i] ELSE IF j <= i THEN w[j - 1] ELSE w[j])
      <4>1. CASE j \in {0, 1}  BY <4>1
      <4>2. CASE j \notin {0, 1}
        <5>1. j - 1 \in 0..(n - 1) /\ (j - 1) + 1 = j /\ (j - 1 < i <=> j <= i)  BY <1>1, <4>2
        <5>2. v[j - 1] = IF j - 1 < i THEN w[j - 1] ELSE w[(j - 1) + 1]  BY <5>1 DEF Less
        <5> QED  BY <4>2, <5>1, <5>2
      <4> QED  BY <4>1, <4>2
    <3> HIDE DEF v, e
    <3> QED  BY <3>1, <3>2 DEF More, Front, e
  <2>6. Ring(PushFront(r, e), More(v, n - 1, e), (n - 1) + 1)
    <3> HIDE DEF r, v, e
    <3> QED  BY <2>2, <2>3, PushRing
  <2>7. (n - 1) + 1 = n  BY <1>1
  <2> QED  BY <2>4, <2>5, <2>6, <2>7
<1> QED  BY <1>2, <1>3
-----------------------------------------------------------------------------
\* A nonempty set of numbers has a smallest one.
LEMMA LeastOne ==
  ASSUME NEW S, S \subseteq Nat, S # {}
  PROVE  \E k \in S : \A j \in S : k <= j
<1> DEFINE R == {ss \in Nat \X Nat : ss[1] < ss[2]}
<1>1. IsWellFoundedOn(R, Nat)  BY NatLessThanWellFounded DEF OpToRel
<1> HIDE DEF R
<1>2. PICK k \in S : \A j \in S : ~(<<j, k>> \in R)  BY <1>1, WFMin
<1>3. ASSUME NEW j \in S PROVE k <= j
  <2>1. k \in Nat /\ j \in Nat /\ <<j, k>> \in Nat \X Nat  OBVIOUS
  <2>2. ~(j < k)  BY <1>2, <2>1 DEF R
  <2> QED  BY <2>1, <2>2
<1> QED  BY <1>3

\* The walk along a ring visits its nodes: the first step at which it did not would have
\* a predecessor at which it did.
LEMMA WalkIs ==
  ASSUME NEW l, NEW w, NEW n, Ring(l, w, n)
  PROVE  Walk(l, n) = w
<1> DEFINE Step(f, i) == IF i = 0 THEN Root ELSE l.next[f[i - 1]]
           f == CHOOSE g : g = [i \in 0..n |-> Step(g, i)]
<1>1. Walk(l, n) = f  BY DEF Walk
<1>2. n \in Nat /\ w \in [0..n -> Nodes] /\ \A i \in 0..n : w[i] = Step(w, i)
  <2>1. n \in Nat /\ w \in [0..n -> Nodes] /\ w[0] = Root  BY DEF Ring
  <2>2. ASSUME NEW i \in 0..n PROVE w[i] = Step(w, i)
    <3>1. CASE i = 0  BY <2>1, <3>1
    <3>2. CASE i # 0
      <4>1. i \in 1..n  BY <2>1, <3>2
      <4> QED  BY <3>2, <4>1 DEF Ring
    <3> QED  BY <3>1, <3>2
  <2> QED  BY <2>1, <2>2
<1>3. f = [i \in 0..n |-> Step(f, i)]
  <2> HIDE DEF Step
  <2>1. w = [i \in 0..n |-> Step(w, i)]  BY <1>2
  <2> QED  BY <2>1
<1> HIDE DEF f
<1>4. \A i \in 0..n : f[i] = w[i]
  <2> DEFINE Bad == {i \in 0..n : f[i] # w[i]}
  <2> SUFFICES ASSUME Bad # {} PROVE FALSE  OBVIOUS
  <2>1. Bad \subseteq Nat  BY <1>2
  <2>2. PICK i \in Bad : \A j \in Bad : i <= j
    <3> HIDE DEF Bad
    <3> QED  BY <2>1, LeastOne
  <2>3. i \in 0..n /\ f[i] = Step(f, i) /\ w[i] = Step(w, i)
    <3>1. i \in 0..n  OBVIOUS
    <3> HIDE DEF Step
    <3> QED  BY <1>2, <1>3, <3>1
  <2>4. i # 0  BY <2>3
  <2>5. i - 1 \in 0..n /\ i - 1 \notin Bad
    <3>1. i \in Nat /\ i - 1 \in 0..n /\ ~(i <= i - 1)  BY <1>2, <2>3, <2>4
    <3> HIDE DEF Bad
    <3> QED  BY <2>2, <3>1
  <2>6. f[i - 1] = w[i - 1]  BY <2>5
  <2> QED  BY <2>3, <2>6
<1>5. f \in [0..n -> Nodes]
  <2>1. f = [i \in 0..n |-> f[i]]
    <3> HIDE DEF Step
    <3> QED  BY <1>3
  <2> QED  BY <1>2, <1>4, <2>1
<1>6. f = w  BY <1>2, <1>4, <1>5
<1> QED  BY <1>1, <1>6

\* A list that is a ring is well linked.
LEMMA RingIsLinked ==
  ASSUME NEW l, NEW w, NEW n, Ring(l, w, n)
  PROVE  WellLinked(l)
<1>1. Walk(l, n) = w  BY WalkIs
<1>2. /\ n \in Nat /\ l.len = n
      /\ {w[i] : i \in 1..n} = l.owned
      /\ \A i, j \in 0..n : w[i] = w[j] => i = j
      /\ l.next[w[n]] = Root
      /\ \A i \in 1..n : l.prev[w[i]] = w[i - 1]
      /\ l.prev[Root] = w[n]
  BY DEF Ring
<1> QED  BY <1>1, <1>2 DEF WellLinked
-----------------------------------------------------------------------------
\* The keys along the list of the map ent, and the LRU order of the cache.
Present(ent) == {k \in Keys : ent[k] # Nil}
Along(val, w, n) == [i \in 1..n |-> val[w[i]].key]
OrderOf(l, ent, val) ==
  [i \in 1..Cardinality(Present(ent)) |-> val[Walk(l, Cardinality(Present(ent)))[i]].key]
Order == OrderOf(lru, entries, value)

\* The list is a ring of the elements of the map.
Proper(l, ent, w, n) == Ring(l, w, n) /\ \A x : x \in l.owned <=> \E k \in Keys : ent[k] = x /\ x # Nil
Keyed(ent, val) == \A k \in Keys : ent[k] # Nil => val[ent[k]].key = k

\* Along a proper ring every key of the map is found once: the ring is as long as the map has
\* keys, and the LRU order of the cache is the order of the ring.
LEMMA AlongIs ==
  ASSUME NEW l, NEW ent, NEW val, NEW w, NEW n, Proper(l, ent, w, n), Keyed(ent, val)
  PROVE  /\ n \in Nat
         /\ \A i \in 1..n : val[w[i]].key \in Present(ent) /\ ent[val[w[i]].key] = w[i] /\ w[i] \in l.owned
         /\ \A i, j \in 1..n : val[w[i]].key = val[w[j]].key => i = j
         /\ \A k \in Present(ent) : \E i \in 1..n : ent[k] = w[i]
         /\ Cardinality(Present(ent)) = n
         /\ OrderOf(l, ent, val) = Along(val, w, n)
<1>1. n \in Nat /\ (\A x : x \in l.owned <=> \E i \in 1..n : x = w[i]) /\ \A i, j \in 0..n : w[i] = w[j] => i = j
  BY DEF Ring, Proper
<1>2. ASSUME NEW k \in Present(ent) PROVE \E i \in 1..n : ent[k] = w[i] /\ val[w[i]].key = k
  <2>1. ent[k] \in l.owned /\ val[ent[k]].key = k  BY DEF Present, Proper, Keyed
  <2> QED  BY <1>1, <2>1
<1>3. ASSUME NEW i \in 1..n PROVE val[w[i]].key \in Present(ent) /\ ent[val[w[i]].key] = w[i] /\ w[i] \in l.owned
  <2>1. w[i] \in l.owned  BY <1>1
  <2>2. PICK k \in Keys : ent[k] = w[i] /\ ent[k] # Nil  BY <2>1 DEF Proper
  <2>3. val[w[i]].key = k  BY <2>2 DEF Keyed
  <2> QED  BY <2>1, <2>2, <2>3 DEF Present
<1>4. ASSUME NEW i \in 1..n, NEW j \in 1..n, val[w[i]].key = val[w[j]].key PROVE i = j
  <2>1. w[i] = w[j]  BY <1>3, <1>4
  <2> QED  BY <1>1, <2>1
<1>5. Cardinality(Present(ent)) = n
  <2> DEFINE f == [i \in 1..n |-> val[w[i]].key]
             P == Present(ent)
  <2>1. f \in [1..n -> P]  BY <1>3
  <2>2. \A i, j \in 1..n : f[i] = f[j] => i = j  BY <1>4
  <2>3. \A k \in P : \E i \in 1..n : f[i] = k  BY <1>2
  <2> HIDE DEF f, P
  <2>4. f \in Bijection(1..n, P)
    BY <2>1, <2>2, <2>3 DEF Bijection, Injection, Surjection, IsInjective
  <2>5. ExistsBijection(1..n, P)  BY <2>4 DEF ExistsBijection
  <2>6. IsFiniteSet(1..n) /\ Cardinality(1..n) = n  BY <1>1, FS_Interval
  <2>7. Cardinality(P) = n  BY <2>5, <2>6, FS_Bijection
  <2> QED  BY <2>7 DEF P
<1>6. Walk(l, n) = w  BY WalkIs DEF Proper
<1>7. OrderOf(l, ent, val) = Along(val, w, n)  BY <1>5, <1>6 DEF OrderOf, Along
<1> QED  BY <1>1, <1>2, <1>3, <1>4, <1>5, <1>7

\* The entry of a node of the ring has the key that the map knows the node by.
LEMMA KeyAt ==
  ASSUME NEW l, NEW ent, NEW val, NEW w, NEW n, NEW i \in 1..n, Proper(l, ent, w, n), Keyed(ent, val)
  PROVE  val[w[i]].key \in Keys /\ ent[val[w[i]].key] = w[i]
<1>1. w[i] \in l.owned  BY DEF Proper, Ring
<1>2. PICK k \in Keys : ent[k] = w[i] /\ ent[k] # Nil  BY <1>1 DEF Proper
<1>3. val[w[i]].key = k  BY <1>2 DEF Keyed
<1> QED  BY <1>2, <1>3

\* An order of n keys with its position i moved to the front and left out, and the first m
\* keys of it after a new one.
Fronted(o, n, i) == [j \in 1..n |-> IF j = 1 THEN o[i] ELSE IF j <= i THEN o[j - 1] ELSE o[j]]
Lessened(o, n, i) == [j \in 1..(n - 1) |-> IF j < i THEN o[j] ELSE o[j + 1]]
Headed(o, m, k) == [j \in 1..(m + 1) |-> IF j = 1 THEN k ELSE o[j - 1]]

\* A node that comes to the front of the ring brings its key to the front of the order.
LEMMA FrontAlong ==
  ASSUME NEW val, NEW val2, NEW w, NEW n \in Nat, NEW i \in 1..n, \A j \in 1..n : val2[w[j]].key = val[w[j]].key
  PROVE  Along(val2, Front(w, n, i), n) = Fronted(Along(val, w, n), n, i)
<1> DEFINE o == Along(val, w, n)
<1>1. \A j \in 1..n : o[j] = val[w[j]].key  BY DEF Along
<1> HIDE DEF o
<1>2. ASSUME NEW j \in 1..n
      PROVE  val2[Front(w, n, i)[j]].key = IF j = 1 THEN o[i] ELSE IF j <= i THEN o[j - 1] ELSE o[j]
  <2>1. Front(w, n, i)[j] = IF j = 1 THEN w[i] ELSE IF j <= i THEN w[j - 1] ELSE w[j]  BY DEF Front
  <2>2. j # 1 => j - 1 \in 1..n  OBVIOUS
  <2> QED  BY <1>1, <2>1, <2>2
<1>3. Along(val2, Front(w, n, i), n) = Fronted(o, n, i)  BY <1>2 DEF Along, Fronted
<1> QED  BY <1>3 DEF o

\* A node left out of the ring leaves its key out of the order.
LEMMA LessAlong ==
  ASSUME NEW val, NEW w, NEW n \in Nat, NEW i \in 1..n
  PROVE  Along(val, Less(w, n, i), n - 1) = Lessened(Along(val, w, n), n, i)
<1> DEFINE o == Along(val, w, n)
<1>1. \A j \in 1..n : o[j] = val[w[j]].key  BY DEF Along
<1> HIDE DEF o
<1>2. ASSUME NEW j \in 1..(n - 1) PROVE val[Less(w, n, i)[j]].key = IF j < i THEN o[j] ELSE o[j + 1]
  <2>1. Less(w, n, i)[j] = IF j < i THEN w[j] ELSE w[j + 1]  BY DEF Less
  <2>2. j \in 1..n /\ j + 1 \in 1..n  OBVIOUS
  <2> QED  BY <1>1, <2>1, <2>2
<1>3. Along(val, Less(w, n, i), n - 1) = Lessened(o, n, i)  BY <1>2 DEF Along, Lessened
<1> QED  BY <1>3 DEF o

\* Two rings agree on their first m nodes and on the keys of these.
Agree(v, w, m, val2, val) == \A j \in 1..m : v[j] = w[j] /\ val2[w[j]].key = val[w[j]].key

\* A node put before the first m others puts its key before theirs.
LEMMA MoreAlong ==
  ASSUME NEW val, NEW val2, NEW w, NEW v, NEW n \in Nat, NEW m \in 0..n, NEW e, NEW s, s = m + 1,
         Agree(v, w, m, val2, val)
  PROVE  Along(val2, More(v, m, e), s) = Headed(Along(val, w, n), m, val2[e].key)
<1> DEFINE o == Along(val, w, n)
<1>1. \A j \in 1..n : o[j] = val[w[j]].key  BY DEF Along
<1> HIDE DEF o
<1>2. ASSUME NEW j \in 1..(m + 1) PROVE val2[More(v, m, e)[j]].key = IF j = 1 THEN val2[e].key ELSE o[j - 1]
  <2>1. More(v, m, e)[j] = IF j = 1 THEN e ELSE v[j - 1]  BY DEF More
  <2>2. j # 1 => j - 1 \in 1..m /\ j - 1 \in 1..n  OBVIOUS
  <2> QED  BY <1>1, <2>1, <2>2 DEF Agree
<1>3. Along(val2, More(v, m, e), s) = Headed(o, m, val2[e].key)  BY <1>2 DEF Along, Headed
<1> QED  BY <1>3 DEF o
-----------------------------------------------------------------------------
\* What an order of n keys may become: what LRUCache allows, in the numbers of the ring.
Moves(o, n, o2, n2) ==
  \/ n2 = n /\ o2 = o
  \/ \E i \in 1..n : n2 = n /\ o2 = Fronted(o, n, i)
  \/ \E i \in 1..n : n2 = n - 1 /\ o2 = Lessened(o, n, i)
  \/ \E k \in Keys, m \in Nat :
        /\ ~ \E i \in 1..n : o[i] = k
        /\ m = IF n >= maxSize THEN maxSize - 1 ELSE n
        /\ n2 = m + 1 /\ o2 = Headed(o, m, k)

\* The list after MoveToFront of an element it may no longer hold; the entries may be
\* new, but not their keys.
LEMMA Touched ==
  ASSUME NEW l \in List, NEW ent, NEW val, NEW val2, NEW w, NEW n, NEW e,
         Proper(l, ent, w, n), \A x \in l.owned : val2[x].key = val[x].key
  PROVE  \E v : /\ Proper(MoveToFront(l, e), ent, v, n)
                /\ Moves(Along(val, w, n), n, Along(val2, v, n), n)
<1>1. n \in Nat /\ Ring(l, w, n) /\ \A x : x \in l.owned <=> \E i \in 1..n : x = w[i]  BY DEF Proper, Ring
<1>2. \A j \in 1..n : val2[w[j]].key = val[w[j]].key  BY <1>1
<1>3. CASE e \notin l.owned
  <2>1. MoveToFront(l, e) = l  BY <1>3 DEF MoveToFront
  <2>2. Along(val2, w, n) = Along(val, w, n)  BY <1>2 DEF Along
  <2>3. Moves(Along(val, w, n), n, Along(val2, w, n), n)  BY <2>2 DEF Moves
  <2> QED  BY <2>1, <2>3
<1>4. CASE e \in l.owned
  <2>1. PICK i \in 1..n : e = w[i]  BY <1>1, <1>4
  <2>2. Ring(MoveToFront(l, e), Front(w, n, i), n)  BY <1>1, <2>1, MoveRing
  <2>3. MoveToFront(l, e).owned = l.owned
    <3>1. \A x, y : [l EXCEPT !.next = x, !.prev = y].owned = l.owned  BY Relinked
    <3> QED  BY <3>1 DEF MoveToFront
  <2>4. Proper(MoveToFront(l, e), ent, Front(w, n, i), n)  BY <2>2, <2>3 DEF Proper
  <2>5. Moves(Along(val, w, n), n, Along(val2, Front(w, n, i), n), n)
    <3>1. Along(val2, Front(w, n, i), n) = Fronted(Along(val, w, n), n, i)  BY <1>1, <1>2, FrontAlong
    <3> QED  BY <3>1 DEF Moves
  <2> QED  BY <2>4, <2>5
<1> QED  BY <1>3, <1>4

\* The list after the removal of the element of a key, and the map without that key.
LEMMA Dropped ==
  ASSUME NEW l \in List, NEW ent \in [Keys -> Elements \cup {Nil}], NEW val, NEW w, NEW n, NEW i \in 1..n, NEW k \in Keys,
         Proper(l, ent, w, n), Keyed(ent, val), ent[k] = w[i]
  PROVE  Proper(ListRemove(l, w[i]), [ent EXCEPT ![k] = Nil], Less(w, n, i), n - 1)
<1> DEFINE e == w[i]
           ent2 == [ent EXCEPT ![k] = Nil]
<1>1. /\ Ring(l, w, n)
      /\ \A x : x \in l.owned <=> \E j \in 1..n : x = w[j]
      /\ \A x : x \in l.owned <=> \E j \in Keys : ent[j] = x /\ x # Nil
  BY DEF Proper, Ring
<1>2. e \in l.owned /\ e # Nil  BY <1>1
<1>3. ListRemove(l, e).owned = l.owned \ {e}  BY <1>2 DEF ListRemove
<1>4. Ring(ListRemove(l, e), Less(w, n, i), n - 1)  BY <1>1, RemoveRing
<1>5. \A j \in Keys : ent[j] = e => j = k
  <2>1. val[e].key = k  BY <1>2 DEF Keyed
  <2> QED  BY <1>2, <2>1 DEF Keyed
<1>6. ent[k] = e  OBVIOUS
<1> HIDE DEF e
<1>7. ASSUME NEW x PROVE x \in ListRemove(l, e).owned <=> \E j \in Keys : ent2[j] = x /\ x # Nil
  <2>1. x \in l.owned /\ x # e => \E j \in Keys : ent2[j] = x /\ x # Nil
    <3> SUFFICES ASSUME x \in l.owned, x # e PROVE \E j \in Keys : ent2[j] = x /\ x # Nil  OBVIOUS
    <3>1. PICK j \in Keys : ent[j] = x /\ x # Nil  BY <1>1
    <3>2. j # k  BY <1>6, <3>1
    <3> QED  BY <3>1, <3>2
  <2>2. ASSUME NEW j \in Keys, ent2[j] = x, x # Nil PROVE x \in l.owned /\ x # e
    <3>1. j # k /\ ent[j] = x  BY <2>2
    <3> QED  BY <1>1, <1>5, <2>2, <3>1
  <2> QED  BY <1>3, <2>1, <2>2
<1> HIDE DEF ent2
<1>8. Proper(ListRemove(l, e), ent2, Less(w, n, i), n - 1)  BY <1>4, <1>7 DEF Proper
<1> QED  BY <1>8 DEF e, ent2

\* The list after PushFront of a fresh element, and the map with it under a new key.
LEMMA Pushed ==
  ASSUME NEW l \in List, NEW ent \in [Keys -> Elements \cup {Nil}], NEW w, NEW n, NEW k \in Keys, NEW e \in Elements,
         Proper(l, ent, w, n), ent[k] = Nil, \A j \in Keys : ent[j] # e
  PROVE  Proper(PushFront(l, e), [ent EXCEPT ![k] = e], More(w, n, e), n + 1)
<1> DEFINE ent2 == [ent EXCEPT ![k] = e]
<1>1. Ring(l, w, n) /\ \A x : x \in l.owned <=> \E j \in Keys : ent[j] = x /\ x # Nil  BY DEF Proper
<1>2. e \notin l.owned /\ e # Nil  BY <1>1, ListConstants
<1>3. Ring(PushFront(l, e), More(w, n, e), n + 1)  BY <1>1, <1>2, PushRing
<1>4. PushFront(l, e).owned = l.owned \cup {e}  BY DEF PushFront
<1>5. ASSUME NEW x PROVE x \in l.owned \cup {e} <=> \E j \in Keys : ent2[j] = x /\ x # Nil
  <2>1. CASE x = e
    <3>1. ent2[k] = e  OBVIOUS
    <3> QED  BY <1>2, <2>1, <3>1
  <2>2. CASE x # e
    <3>1. \A j \in Keys : ent2[j] = x /\ x # Nil <=> ent[j] = x /\ x # Nil  BY <2>2
    <3> HIDE DEF ent2
    <3> QED  BY <1>1, <2>2, <3>1
  <2> QED  BY <2>1, <2>2
<1> HIDE DEF ent2
<1>6. Proper(PushFront(l, e), ent2, More(w, n, e), n + 1)  BY <1>3, <1>4, <1>5 DEF Proper
<1> QED  BY <1>6 DEF ent2
-----------------------------------------------------------------------------
\* Without Clear and with lazy caching: the list is a ring of the mapped elements, no
\* longer than the cache is large, and no client is about to delete by key.
Fits(n) == maxSize >= 1 => n <= maxSize
NoDrop == \A c \in Clients : get[c].pc # "drop"
Ringed == \E w, n : Proper(lru, entries, w, n) /\ Fits(n)

\* What a step makes of a proper ring: another one, in an order LRUCache allows.
Advances(w, n) ==
  \E w2, n2 : /\ Proper(lru, entries, w2, n2)' /\ Fits(n2)
              /\ maxSize >= 1 => Moves(Along(value, w, n), n, Along(value', w2, n2), n2)

\* What the proofs of the steps start from.
Steady(w, n) == IInv /\ lazy /\ NoDrop /\ Proper(lru, entries, w, n) /\ Fits(n)

\* What a steady state says of list, map and ring.
LEMMA SteadyFacts ==
  ASSUME NEW w, NEW n, Steady(w, n)
  PROVE  /\ lru \in List /\ entries \in [Keys -> Elements \cup {Nil}] /\ n \in Nat
         /\ value \in [Elements -> Entry \cup {Nil}] /\ get \in [Clients -> Get]
         /\ Proper(lru, entries, w, n) /\ Keyed(entries, value) /\ Fits(n) /\ lazy /\ NoDrop
         /\ lru.len = n
         /\ \A x : x \in lru.owned <=> \E i \in 1..n : x = w[i]
         /\ \A x : x \in lru.owned <=> \E k \in Keys : entries[k] = x /\ x # Nil
<1>1. Proper(lru, entries, w, n)  BY DEF Steady
<1>2. /\ n \in Nat /\ lru.len = n
      /\ \A x : x \in lru.owned <=> \E i \in 1..n : x = w[i]
      /\ \A x : x \in lru.owned <=> \E k \in Keys : entries[k] = x /\ x # Nil
  BY <1>1 DEF Proper, Ring
<1>3. Keyed(entries, value)  BY DEF Steady, IInv, KeyIntegrity, Keyed
<1> QED  BY <1>1, <1>2, <1>3 DEF Steady, IInv, TypeOK

\* A step that leaves list and map alone, and the keys of the entries.
LEMMA QuietAdvances ==
  ASSUME NEW w, NEW n, Steady(w, n), UNCHANGED <<lru, entries>>,
         \A x \in lru.owned : value'[x].key = value[x].key
  PROVE  Advances(w, n)
<1>1. Proper(lru, entries, w, n) /\ Fits(n) /\ \A i \in 1..n : value'[w[i]].key = value[w[i]].key
  BY SteadyFacts
<1>2. Along(value', w, n) = Along(value, w, n)  BY <1>1 DEF Along
<1>3. Moves(Along(value, w, n), n, Along(value', w, n), n)  BY <1>2 DEF Moves
<1>4. Proper(lru', entries', w, n)  BY <1>1
<1> QED  BY <1>1, <1>3, <1>4 DEF Advances

\* cache.go:72, :115: a hit, or a new answer for a cached key.
LEMMA TouchAdvances ==
  ASSUME NEW w, NEW n, Steady(w, n), NEW e, lru' = MoveToFront(lru, e), UNCHANGED entries,
         \A x \in lru.owned : value'[x].key = value[x].key
  PROVE  Advances(w, n)
<1>1. lru \in List /\ Proper(lru, entries, w, n) /\ Fits(n)  BY SteadyFacts
<1>2. PICK v : /\ Proper(MoveToFront(lru, e), entries, v, n)
               /\ Moves(Along(value, w, n), n, Along(value', v, n), n)
  BY <1>1, Touched
<1>3. Proper(lru', entries', v, n)  BY <1>2
<1> QED  BY <1>1, <1>2, <1>3 DEF Advances

\* cache.go:148: Delete of a cached key.
LEMMA DeleteAdvances ==
  ASSUME NEW w, NEW n, Steady(w, n), NEW k \in Keys, Delete(k)
  PROVE  Advances(w, n)
<1>1. /\ lru \in List /\ entries \in [Keys -> Elements \cup {Nil}] /\ n \in Nat
      /\ Proper(lru, entries, w, n) /\ Keyed(entries, value) /\ Fits(n)
  BY SteadyFacts
<1>2. entries[k] # Nil /\ lru' = ListRemove(lru, entries[k]) /\ entries' = [entries EXCEPT ![k] = Nil] /\ value' = value
  BY DEF Delete
<1>3. PICK i \in 1..n : entries[k] = w[i]  BY <1>2, SteadyFacts
<1>4. Proper(ListRemove(lru, w[i]), [entries EXCEPT ![k] = Nil], Less(w, n, i), n - 1)  BY <1>1, <1>3, Dropped
<1>5. Proper(lru', entries', Less(w, n, i), n - 1)  BY <1>2, <1>3, <1>4
<1>6. Moves(Along(value, w, n), n, Along(value, Less(w, n, i), n - 1), n - 1)
  <2>1. Along(value, Less(w, n, i), n - 1) = Lessened(Along(value, w, n), n, i)  BY <1>1, LessAlong
  <2> QED  BY <2>1 DEF Moves
<1>7. Fits(n - 1)  BY <1>1, CacheConstants DEF Fits
<1> QED  BY <1>2, <1>5, <1>6, <1>7 DEF Advances
-----------------------------------------------------------------------------
\* Set of a new key: at most the last element leaves, and the new one comes first.
LEMMA InsertAdvances ==
  ASSUME NEW w, NEW n, Steady(w, n), NEW c \in Clients, NEW e \in Elements, SetInsert(c, e)
  PROVE  Advances(w, n)
<1> DEFINE k == get[c].key
<1>1. /\ lru \in List /\ entries \in [Keys -> Elements \cup {Nil}] /\ n \in Nat
      /\ value \in [Elements -> Entry \cup {Nil}]
      /\ Proper(lru, entries, w, n) /\ Keyed(entries, value) /\ Fits(n)
      /\ lru.len = n
      /\ \A x : x \in lru.owned <=> \E i \in 1..n : x = w[i]
      /\ \A x : x \in lru.owned <=> \E j \in Keys : entries[j] = x /\ x # Nil
  BY SteadyFacts
<1>0. n \in Nat  BY <1>1
<1>2. k \in Keys  BY DEF SetInsert, At, Steady, IInv, HeldElement
<1>3. /\ entries[k] = Nil
      /\ lru' = PushFront(EvictedList, e)
      /\ entries' = [EvictedEntries EXCEPT ![k] = e]
      /\ value' = [value EXCEPT ![e] = NewEntry(k)]
  BY DEF SetInsert
<1>4. \A j \in Keys : entries[j] # e  BY FreeIsFresh DEF SetInsert
<1>5. \A i \in 1..n : w[i] \in Elements /\ w[i] # e /\ value'[w[i]].key = value[w[i]].key
  <2> SUFFICES ASSUME NEW i \in 1..n PROVE w[i] \in Elements /\ w[i] # e /\ value'[w[i]].key = value[w[i]].key
    OBVIOUS
  <2>1. w[i] \in lru.owned  BY <1>1
  <2>2. w[i] # e  BY <1>1, <1>4, <2>1
  <2>3. w[i] \in Elements  BY <1>1, <2>1 DEF List
  <2> QED  BY <1>1, <1>3, <2>2, <2>3
<1>6. value'[e].key = k  BY <1>1, <1>3 DEF NewEntry
<1>7. ~ \E i \in 1..n : Along(value, w, n)[i] = k
  <2> SUFFICES ASSUME NEW i \in 1..n, Along(value, w, n)[i] = k PROVE FALSE  OBVIOUS
  <2>1. value[w[i]].key = k  BY DEF Along
  <2>2. value[w[i]].key \in Present(entries)  BY <1>1, AlongIs
  <2> QED  BY <1>3, <2>1, <2>2 DEF Present
<1>8. Size = n
  <2>1. Proper(lru, entries, w, n) /\ Keyed(entries, value)  BY <1>1
  <2>2. Cardinality(Present(entries)) = n /\ OrderOf(lru, entries, value) = Along(value, w, n)  BY <2>1, AlongIs
  <2> QED  BY <2>2 DEF Size, Present
<1>9. Evicts <=> n >= maxSize /\ n >= 1
  <2>1. CASE n = 0  BY <1>1, <2>1 DEF Evicts, Back
  <2>2. CASE n # 0
    <3>1. n \in 1..n /\ lru.prev[Root] = w[n]  BY <1>1, <2>2 DEF Proper, Ring
    <3>2. Back(lru) = w[n] /\ w[n] # Nil  BY <1>1, <1>5, <2>2, <3>1, ListConstants DEF Back
    <3> QED  BY <1>1, <1>8, <2>2, <3>2 DEF Evicts
  <2> QED  BY <2>1, <2>2
<1> HIDE DEF k
<1>10. CASE Evicts
  <2>1. n \in 1..n /\ n >= maxSize  BY <1>1, <1>9, <1>10
  <2> DEFINE v == Less(w, n, n)
             k0 == value[w[n]].key
             l0 == ListRemove(lru, w[n])
             ent0 == [entries EXCEPT ![k0] = Nil]
  <2>2. Oldest = w[n]
    <3>1. lru.prev[Root] = w[n]  BY <1>1 DEF Proper, Ring
    <3> QED  BY <1>1, <2>1, <3>1 DEF Oldest, Back
  <2>3. EvictedList = l0 /\ EvictedEntries = ent0  BY <1>10, <2>2 DEF EvictedList, EvictedEntries
  <2>4. k0 \in Keys /\ entries[k0] = w[n]
    <3>1. Proper(lru, entries, w, n) /\ Keyed(entries, value)  BY <1>1
    <3> QED  BY <2>1, <3>1, KeyAt
  <2>5. Proper(l0, ent0, v, n - 1)
    <3> HIDE DEF k0
    <3> QED  BY <1>1, <2>1, <2>4, Dropped
  <2>6. l0 \in List  BY <1>1, <1>5, <2>1, ListOps
  <2>7. ent0 \in [Keys -> Elements \cup {Nil}] /\ ent0[k] = Nil /\ \A j \in Keys : ent0[j] # e
    <3>1. e # Nil  BY ListConstants
    <3> HIDE DEF k0
    <3> QED  BY <1>1, <1>2, <1>3, <1>4, <3>1
  <2> HIDE DEF l0, ent0, k0
  <2>8. Proper(PushFront(l0, e), [ent0 EXCEPT ![k] = e], More(v, n - 1, e), (n - 1) + 1)
    <3> HIDE DEF v
    <3> QED  BY <1>2, <2>5, <2>6, <2>7, Pushed
  <2>9. Proper(lru', entries', More(v, n - 1, e), n)
    <3>1. (n - 1) + 1 = n  BY <1>1
    <3> QED  BY <1>3, <2>3, <2>8, <3>1
  <2>10. Along(value', More(v, n - 1, e), n) = Headed(Along(value, w, n), n - 1, k)
    <3>1. n - 1 \in 0..n /\ (n - 1) + 1 = n  BY <1>1, <2>1
    <3>2. \A j \in 1..(n - 1) : v[j] = w[j] /\ value'[w[j]].key = value[w[j]].key
      <4> SUFFICES ASSUME NEW j \in 1..(n - 1) PROVE v[j] = w[j] /\ value'[w[j]].key = value[w[j]].key  OBVIOUS
      <4>1. j \in 1..n /\ j \in 0..(n - 1) /\ j < n  BY <1>1
      <4> QED  BY <1>5, <4>1 DEF Less
    <3> HIDE DEF v
    <3>3. PICK m : m = n - 1  OBVIOUS
    <3>4. m \in 0..n /\ n = m + 1 /\ Agree(v, w, m, value', value)  BY <3>1, <3>2, <3>3 DEF Agree
    <3>5. Along(value', More(v, m, e), n) = Headed(Along(value, w, n), m, value'[e].key)
      BY <1>0, <3>4, MoreAlong
    <3> QED  BY <1>6, <3>3, <3>5
  <2>11. maxSize >= 1 => Moves(Along(value, w, n), n, Along(value', More(v, n - 1, e), n), n)
    <3> HAVE maxSize >= 1
    <3>1. n - 1 \in Nat /\ n - 1 = (IF n >= maxSize THEN maxSize - 1 ELSE n) /\ n = (n - 1) + 1
      BY <1>1, <2>1, CacheConstants DEF Fits
    <3> HIDE DEF v
    <3> QED  BY <1>2, <1>7, <2>10, <3>1 DEF Moves
  <2> HIDE DEF v
  <2> QED  BY <1>1, <2>9, <2>11 DEF Advances
<1>11. CASE ~Evicts
  <2>1. EvictedList = lru /\ EvictedEntries = entries  BY <1>11 DEF EvictedList, EvictedEntries
  <2>2. Proper(lru', entries', More(w, n, e), n + 1)
    <3>1. Proper(PushFront(lru, e), [entries EXCEPT ![k] = e], More(w, n, e), n + 1)
      BY <1>1, <1>2, <1>3, <1>4, Pushed
    <3> QED  BY <1>3, <2>1, <3>1
  <2>3. Along(value', More(w, n, e), n + 1) = Headed(Along(value, w, n), n, k)
    <3>1. n \in 0..n  BY <1>1
    <3>2. Agree(w, w, n, value', value)  BY <1>5 DEF Agree
    <3>3. PICK s : s = n + 1  OBVIOUS
    <3>4. Along(value', More(w, n, e), s) = Headed(Along(value, w, n), n, value'[e].key)
      BY <1>0, <3>1, <3>2, <3>3, MoreAlong
    <3> QED  BY <1>6, <3>3, <3>4
  <2>4. maxSize >= 1 => n < maxSize  BY <1>1, <1>9, <1>11, CacheConstants
  <2>5. maxSize >= 1 => Moves(Along(value, w, n), n, Along(value', More(w, n, e), n + 1), n + 1)
    <3> HAVE maxSize >= 1
    <3>1. n \in Nat /\ n = (IF n >= maxSize THEN maxSize - 1 ELSE n)  BY <1>1, <2>4, CacheConstants
    <3> QED  BY <1>2, <1>7, <2>3, <3>1 DEF Moves
  <2>6. Fits(n + 1)  BY <1>1, <2>4, CacheConstants DEF Fits
  <2> QED  BY <2>2, <2>5, <2>6 DEF Advances
<1> QED  BY <1>10, <1>11

\* Every step that is no Clear: an expired entry is served, so no client deletes by key.
LEMMA StepAdvances ==
  ASSUME NEW w, NEW n, Steady(w, n), [Next]_vars, clears' = clears
  PROVE  Advances(w, n) /\ NoDrop'
<1>1. /\ get \in [Clients -> Get] /\ lazy /\ NoDrop /\ value \in [Elements -> Entry \cup {Nil}] /\ lru \in List
      /\ Keyed(entries, value)
      /\ \A x : x \in lru.owned <=> \E k \in Keys : entries[k] = x /\ x # Nil
  BY SteadyFacts
<1>2. ASSUME NEW c \in Clients, \E k \in Keys : GetLookup(c, k) PROVE Advances(w, n) /\ NoDrop'
  <2>1. PICK k \in Keys : GetLookup(c, k)  BY <1>2
  <2>2. UNCHANGED <<lru, entries, value>>  BY <2>1 DEF GetLookup
  <2>3. NoDrop'  BY <1>1, <2>1 DEF GetLookup, NoDrop
  <2> QED  BY <2>2, <2>3, QuietAdvances
<1>3. ASSUME NEW c \in Clients, GetCheck(c) PROVE Advances(w, n) /\ NoDrop'
  <2>1. UNCHANGED <<lru, entries, value>>  BY <1>3 DEF GetCheck
  <2>2. PICK g : get' = [get EXCEPT ![c] = g] /\ g.pc = "touch"
    <3> DEFINE g == [get[c] EXCEPT !.entry = value[get[c].elem],
                                   !.pc = IF value[get[c].elem].expired /\ ~lazy THEN "drop" ELSE "touch"]
    <3>1. get[c] \in Get /\ g.pc = "touch"  BY <1>1 DEF Get
    <3>2. get' = [get EXCEPT ![c] = g]  BY <1>1, <1>3 DEF GetCheck
    <3> HIDE DEF g
    <3> QED  BY <3>1, <3>2
  <2>3. NoDrop'  BY <1>1, <2>2 DEF NoDrop
  <2> QED  BY <2>1, <2>3, QuietAdvances
<1>4. ASSUME NEW c \in Clients, get' = [get EXCEPT ![c] = Idle] PROVE NoDrop'
  BY <1>1, <1>4 DEF NoDrop, Idle
<1>5. ASSUME NEW c \in Clients, GetTouch(c) PROVE Advances(w, n) /\ NoDrop'
  <2>1. lru' = MoveToFront(lru, get[c].elem) /\ UNCHANGED <<entries, value>>  BY <1>5 DEF GetTouch
  <2>2. NoDrop'  BY <1>4, <1>5 DEF GetTouch
  <2> QED  BY <2>1, <2>2, TouchAdvances
<1>6. ASSUME NEW c \in Clients PROVE ~GetDrop(c)  BY <1>1 DEF GetDrop, At, NoDrop
<1>7. ASSUME NEW c \in Clients, SetReplace(c) PROVE Advances(w, n) /\ NoDrop'
  <2> DEFINE k == get[c].key
  <2>1. k \in Keys /\ entries[k] # Nil /\ value' = [value EXCEPT ![entries[k]] = NewEntry(k)]
        /\ lru' = MoveToFront(lru, entries[k]) /\ entries' = entries
    BY <1>7 DEF SetReplace, At, Steady, IInv, HeldElement
  <2>2. NoDrop'  BY <1>4, <1>7 DEF SetReplace
  <2> HIDE DEF k
  <2>3. \A x \in lru.owned : value'[x].key = value[x].key
    <3> SUFFICES ASSUME NEW x \in lru.owned PROVE value'[x].key = value[x].key  OBVIOUS
    <3>1. x \in Elements  BY <1>1 DEF List
    <3>2. CASE x = entries[k]
      <4>1. value[x].key = k  BY <1>1, <2>1, <3>2 DEF Keyed
      <4>2. value'[x] = NewEntry(k)  BY <1>1, <2>1, <3>1, <3>2
      <4> QED  BY <4>1, <4>2 DEF NewEntry
    <3>3. CASE x # entries[k]  BY <1>1, <2>1, <3>1, <3>3
    <3> QED  BY <3>2, <3>3
  <2> QED  BY <2>1, <2>2, <2>3, TouchAdvances
<1>8. ASSUME NEW c \in Clients, SetPanic(c) \/ SetSkipped(c) PROVE Advances(w, n) /\ NoDrop'
  <2>1. UNCHANGED <<lru, entries, value>> /\ get' = [get EXCEPT ![c] = Idle]  BY <1>8 DEF SetPanic, SetSkipped
  <2> QED  BY <1>4, <2>1, QuietAdvances
<1>9. ASSUME NEW c \in Clients, \E e \in Elements : SetInsert(c, e) PROVE Advances(w, n) /\ NoDrop'
  <2>1. PICK e \in Elements : SetInsert(c, e)  BY <1>9
  <2>2. NoDrop'  BY <1>4, <2>1 DEF SetInsert
  <2> QED  BY <2>1, <2>2, InsertAdvances
<1>10. ASSUME NEW e \in Elements, Expire(e) PROVE Advances(w, n) /\ NoDrop'
  <2>1. UNCHANGED <<lru, entries, get>> /\ value' = [value EXCEPT ![e].expired = TRUE]  BY <1>10 DEF Expire
  <2>2. \A x \in lru.owned : value'[x].key = value[x].key
    <3> SUFFICES ASSUME NEW x \in lru.owned PROVE value'[x].key = value[x].key  OBVIOUS
    <3>1. x \in Elements  BY <1>1 DEF List
    <3>2. value[x] \in Entry
      <4>1. PICK k \in Keys : entries[k] = x /\ x # Nil  BY <1>1
      <4>2. value[x] # Nil  BY <4>1 DEF Steady, IInv, KeyIntegrity
      <4> QED  BY <1>1, <3>1, <4>2
    <3>3. PICK z : z = [value[e] EXCEPT !.expired = TRUE]  OBVIOUS
    <3>4. value' = [value EXCEPT ![e] = z]  BY <2>1, <3>3
    <3>5. CASE x = e
      <4>1. z.key = value[x].key  BY <3>2, <3>3, <3>5 DEF Entry
      <4> QED  BY <1>1, <3>1, <3>4, <3>5, <4>1
    <3>6. CASE x # e  BY <1>1, <3>1, <3>4, <3>6
    <3> QED  BY <3>5, <3>6
  <2>3. NoDrop'  BY <1>1, <2>1 DEF NoDrop
  <2> QED  BY <2>1, <2>2, <2>3, QuietAdvances
<1>11. ~Clear
  <2>1. clears \in Nat  BY CacheConstants DEF Steady, IInv, TypeOK
  <2> QED  BY <2>1 DEF Clear
<1>12. ASSUME NEW k \in Keys, Delete(k) PROVE Advances(w, n) /\ NoDrop'
  <2>1. NoDrop'  BY <1>1, <1>12 DEF Delete, NoDrop
  <2> QED  BY <1>12, <2>1, DeleteAdvances
<1>13. CASE UNCHANGED vars
  <2>1. UNCHANGED <<lru, entries, value, get>>  BY <1>13 DEF vars
  <2>2. NoDrop'  BY <1>1, <2>1 DEF NoDrop
  <2> QED  BY <2>1, <2>2, QuietAdvances
<1> QED  BY <1>2, <1>3, <1>5, <1>6, <1>7, <1>8, <1>9, <1>10, <1>11, <1>12, <1>13 DEF Next, ProgramNext, Client
-----------------------------------------------------------------------------
\* As long as expired entries are served (lazy) and Clear has not run, the list is a ring of
\* the elements of the map, which fits, and no client is about to delete by key.
InOrder == lazy /\ clears = 0 => Ringed /\ NoDrop

\* A new cache is in order: its ring is the sentinel alone.
LEMMA InitInOrder == Init => InOrder
<1> SUFFICES ASSUME Init PROVE Ringed /\ NoDrop  BY DEF InOrder
<1>1. NoDrop  BY DEF Init, NoDrop, Idle
<1>2. Ringed
  <2> DEFINE w == [i \in 0..0 |-> Root]
  <2>1. Root \in Nodes  BY DEF Nodes
  <2>2. lru.next[Root] = Root /\ lru.prev[Root] = Root /\ lru.len = 0 /\ lru.owned = {}
    BY <2>1 DEF Init, NewList
  <2>3. w \in [0..0 -> Nodes] /\ w[0] = Root  BY <2>1
  <2> HIDE DEF w
  <2>4. Ring(lru, w, 0)  BY <2>2, <2>3 DEF Ring
  <2>5. \A x : x \in lru.owned <=> \E k \in Keys : entries[k] = x /\ x # Nil  BY <2>2 DEF Init
  <2>6. Fits(0)  BY CacheConstants DEF Fits
  <2>7. Proper(lru, entries, w, 0)  BY <2>4, <2>5 DEF Proper
  <2> QED  BY <2>6, <2>7 DEF Ringed
<1> QED  BY <1>1, <1>2

\* Every step keeps the cache in order.
LEMMA NextInOrder == IInv /\ InOrder /\ [Next]_vars => InOrder'
<1> SUFFICES ASSUME IInv, InOrder, [Next]_vars, lazy, clears' = 0 PROVE Ringed' /\ NoDrop'  BY DEF InOrder
<1>1. clears = 0 /\ clears' = clears
  <2>1. clears \in Nat  BY CacheConstants DEF IInv, TypeOK
  <2>2. clears' = clears \/ clears' = clears + 1
    BY DEF Next, ProgramNext, Client, vars, GetLookup, GetCheck, GetTouch, GetDrop, SetReplace, SetPanic, SetSkipped,
           SetInsert, Expire, Clear, Delete
  <2> QED  BY <2>1, <2>2
<1>2. Ringed /\ NoDrop  BY <1>1 DEF InOrder
<1>3. PICK w, n : Proper(lru, entries, w, n) /\ Fits(n)  BY <1>2 DEF Ringed
<1>4. Advances(w, n) /\ NoDrop'  BY <1>1, <1>2, <1>3, StepAdvances DEF Steady
<1>5. Ringed'
  <2>1. PICK w2, n2 : Proper(lru', entries', w2, n2) /\ Fits(n2)  BY <1>4 DEF Advances
  <2> QED  BY <2>1 DEF Ringed
<1> QED  BY <1>4, <1>5

\* The strengthened invariant of the cache holds in every reachable state.
THEOREM CacheInOrder == Spec => [](IInv /\ InOrder)
<1>1. Init => IInv /\ InOrder  BY InitInv, InitInOrder
<1>2. IInv /\ InOrder /\ [Next]_vars => (IInv /\ InOrder)'  BY NextInv, NextInOrder
<1> QED  BY <1>1, <1>2, PTL DEF Spec

\* cache.go:119-124: until Clear runs, and with lazy caching, the list is one proper ring of
\* exactly the elements of the map, for any number of keys, clients and elements and for
\* every size of the cache, 0 included.
THEOREM CacheListMatchesMap == Spec => [](lazy /\ clears = 0 => ListMatchesMap)
<1>1. ASSUME IInv, InOrder, lazy, clears = 0 PROVE ListMatchesMap
  <2>1. PICK w, n : Proper(lru, entries, w, n)  BY <1>1 DEF InOrder, Ringed
  <2>2. Keyed(entries, value)  BY <1>1 DEF IInv, KeyIntegrity, Keyed
  <2>3. Ring(lru, w, n) /\ lru.len = n /\ \A x : x \in lru.owned <=> \E k \in Keys : entries[k] = x /\ x # Nil
    BY <2>1 DEF Proper, Ring
  <2>4. WellLinked(lru)  BY <2>3, RingIsLinked
  <2>5. lru.owned = Mapped  BY <2>3 DEF Mapped
  <2>6. Cardinality(Present(entries)) = n /\ OrderOf(lru, entries, value) = Along(value, w, n)
    BY <2>1, <2>2, AlongIs
  <2>7. lru.len = Size  BY <2>3, <2>6 DEF Size, Present
  <2> QED  BY <2>4, <2>5, <2>7 DEF ListMatchesMap
<1>2. IInv /\ InOrder => (lazy /\ clears = 0 => ListMatchesMap)  BY <1>1
<1> QED  BY <1>2, CacheInOrder, PTL
-----------------------------------------------------------------------------
\* MoveToFront of an element of a ring leaves it next to the sentinel.
LEMMA MovedIsFirst ==
  ASSUME NEW l \in List, NEW w, NEW n, Ring(l, w, n), NEW e \in l.owned
  PROVE  MoveToFront(l, e).next[Root] = e
<1>1. n \in Nat /\ \A x : x \in l.owned <=> \E i \in 1..n : x = w[i]  BY DEF Ring
<1>2. PICK i \in 1..n : e = w[i]  BY <1>1
<1> DEFINE m == MoveToFront(l, e)
           v == Front(w, n, i)
<1>3. Ring(m, v, n)  BY <1>2, MoveRing
<1>4. v[0] = Root /\ v[1] = e /\ 1 \in 1..n /\ 1 - 1 = 0  BY <1>1, <1>2 DEF Front
<1> HIDE DEF m, v
<1>5. m.next[v[1 - 1]] = v[1]  BY <1>3, <1>4 DEF Ring
<1> QED  BY <1>4, <1>5 DEF m

\* Only GetTouch ends a hit.
LEMMA HitIsTouch ==
  ASSUME IInv, [Next]_vars, NEW c \in Clients, get[c].pc = "touch", get'[c].pc = "idle"
  PROVE  GetTouch(c)
<1>1. get \in [Clients -> Get]  BY DEF IInv, TypeOK
<1>2. ASSUME NEW d \in Clients, Client(d) PROVE d = c
  <2>1. \E g : get' = [get EXCEPT ![d] = g]
    <3>1. ASSUME GetCheck(d) PROVE \E g : get' = [get EXCEPT ![d] = g]
      BY <1>1, <3>1 DEF GetCheck
    <3> QED
      BY <1>2, <3>1 DEF Client, GetLookup, GetTouch, GetDrop, SetReplace, SetPanic, SetSkipped, SetInsert
  <2> QED  BY <1>1, <2>1
<1>3. get' # get  OBVIOUS
<1>4. PICK d \in Clients : Client(d)
  BY <1>3 DEF Next, ProgramNext, vars, Expire, Clear, Delete
<1>5. Client(c)  BY <1>2, <1>4
<1> QED
  BY <1>5 DEF Client, At, GetLookup, GetCheck, GetDrop, SetReplace, SetPanic, SetSkipped, SetInsert

\* cache.go:72, :86: with lazy caching and without Clear, a hit leaves its element at the
\* front of the list unless the key was evicted between the two sections of Get.
THEOREM CacheHitIsMostRecent ==
  ASSUME lazy, MaxClears = 0
  PROVE  Spec => HitIsMostRecent
<1> DEFINE A == \A c \in Clients :
                   get[c].pc = "touch" /\ get'[c].pc = "idle" /\ get[c].elem \in Mapped
                     => lru'.next[Root] = get[c].elem
<1>1. ASSUME IInv, InOrder, [Next]_vars PROVE A
  <2> SUFFICES ASSUME NEW c \in Clients, get[c].pc = "touch", get'[c].pc = "idle", get[c].elem \in Mapped
               PROVE  lru'.next[Root] = get[c].elem
    OBVIOUS
  <2>1. clears = 0  BY <1>1 DEF IInv, TypeOK
  <2>2. PICK w, n : Proper(lru, entries, w, n)  BY <1>1, <2>1 DEF InOrder, Ringed
  <2>3. GetTouch(c)  BY <1>1, HitIsTouch
  <2>4. lru \in List /\ Ring(lru, w, n) /\ get[c].elem \in lru.owned
    BY <1>1, <2>2 DEF IInv, TypeOK, Proper, Mapped
  <2>5. MoveToFront(lru, get[c].elem).next[Root] = get[c].elem  BY <2>4, MovedIsFirst
  <2> QED  BY <2>3, <2>5 DEF GetTouch
<1>2. IInv /\ InOrder /\ [Next]_vars => [A]_vars  BY <1>1
<1> QED  BY <1>2, CacheInOrder, PTL DEF Spec, HitIsMostRecent
-----------------------------------------------------------------------------
\* LRUCache's step, on two orders.
LRUStep(o, o2) ==
  \/ \E i \in 1..Len(o) :
        \/ o2 = [j \in 1..Len(o) |-> IF j = 1 THEN o[i] ELSE IF j <= i THEN o[j - 1] ELSE o[j]]
        \/ o2 = [j \in 1..Len(o) - 1 |-> IF j < i THEN o[j] ELSE o[j + 1]]
  \/ \E k \in Keys :
        /\ k \notin {o[i] : i \in 1..Len(o)}
        /\ LET kept == IF Len(o) >= maxSize THEN maxSize - 1 ELSE Len(o)
           IN  o2 = [j \in 1..kept + 1 |-> IF j = 1 THEN k ELSE o[j - 1]]

\* What the ring allows an order to become is what LRUCache allows.
LEMMA MovesAreLRU ==
  ASSUME NEW n \in Nat, NEW n2, NEW o2, NEW o \in [1..n -> Keys], Moves(o, n, o2, n2)
  PROVE  o2 = o \/ LRUStep(o, o2)
<1>1. Len(o) = n
  <2>1. o \in Seq(Keys)  BY SeqDef
  <2>2. Len(o) \in Nat /\ DOMAIN o = 1..Len(o) /\ DOMAIN o = 1..n  BY <2>1, LenProperties
  <2> QED  BY <2>2
<1>2. CASE o2 = o  BY <1>2
<1>3. CASE \E i \in 1..n : n2 = n /\ o2 = Fronted(o, n, i)  BY <1>1, <1>3 DEF LRUStep, Fronted
<1>4. CASE \E i \in 1..n : n2 = n - 1 /\ o2 = Lessened(o, n, i)  BY <1>1, <1>4 DEF LRUStep, Lessened
<1>5. CASE \E k \in Keys, m \in Nat :
              /\ ~ \E i \in 1..n : o[i] = k
              /\ m = IF n >= maxSize THEN maxSize - 1 ELSE n
              /\ n2 = m + 1 /\ o2 = Headed(o, m, k)
  <2>1. PICK k \in Keys, m \in Nat :
              /\ ~ \E i \in 1..n : o[i] = k
              /\ m = IF n >= maxSize THEN maxSize - 1 ELSE n
              /\ o2 = Headed(o, m, k)
    BY <1>5
  <2>2. k \notin {o[i] : i \in 1..Len(o)}  BY <1>1, <2>1
  <2>3. o2 = [j \in 1..m + 1 |-> IF j = 1 THEN k ELSE o[j - 1]]  BY <2>1 DEF Headed
  <2>4. m = IF Len(o) >= maxSize THEN maxSize - 1 ELSE Len(o)  BY <1>1, <2>1
  <2> QED  BY <2>2, <2>3, <2>4 DEF LRUStep
<1> QED  BY <1>2, <1>3, <1>4, <1>5 DEF Moves

\* cache.go:72, :86, :115, :119-124: with lazy caching, without Clear and with room for a
\* key, every step of the cache is a step of LRUCache or leaves its order alone: the pointers
\* and the map implement an LRU cache of maxSize keys.
THEOREM CacheImplementsLRU ==
  ASSUME lazy, MaxClears = 0, maxSize >= 1
  PROVE  Spec => ImplementsLRU
<1>1. Init => LRU!Init
  <2> SUFFICES ASSUME Init PROVE LRU!Init  OBVIOUS
  <2>1. Size = 0
    <3>1. {k \in Keys : entries[k] # Nil} = {}  BY DEF Init
    <3> QED  BY <3>1, FS_EmptySet DEF Size
  <2> QED  BY <2>1 DEF LRU!Init
<1>2. ASSUME IInv, InOrder, [Next]_vars PROVE Order' = Order \/ LRUStep(Order, Order')
  <2>1. IInv' /\ InOrder'  BY <1>2, NextInv, NextInOrder
  <2>2. clears = 0 /\ clears' = 0  BY <1>2, <2>1 DEF IInv, TypeOK
  <2>3. PICK w, n : Proper(lru, entries, w, n) /\ Fits(n)  BY <1>2, <2>2 DEF InOrder, Ringed
  <2>4. Steady(w, n)  BY <1>2, <2>2, <2>3 DEF InOrder, Steady
  <2>5. Advances(w, n)  BY <1>2, <2>2, <2>4, StepAdvances
  <2>6. PICK w2, n2 : Proper(lru', entries', w2, n2) /\ Moves(Along(value, w, n), n, Along(value', w2, n2), n2)
    BY <2>5 DEF Advances
  <2>7. Keyed(entries, value) /\ Keyed(entries', value')  BY <1>2, <2>1 DEF IInv, KeyIntegrity, Keyed
  <2>8. Order = Along(value, w, n)
    <3>1. OrderOf(lru, entries, value) = Along(value, w, n)  BY <2>3, <2>7, AlongIs
    <3> QED  BY <3>1 DEF Order
  <2>9. Order' = Along(value', w2, n2)
    <3>1. OrderOf(lru', entries', value') = Along(value', w2, n2)  BY <2>6, <2>7, AlongIs
    <3> QED  BY <3>1 DEF Order
  <2>10. n \in Nat /\ Along(value, w, n) \in [1..n -> Keys]
    <3>1. n \in Nat  BY <2>3 DEF Proper, Ring
    <3>2. ASSUME NEW i \in 1..n PROVE value[w[i]].key \in Keys  BY <2>3, <2>7, KeyAt
    <3> QED  BY <3>1, <3>2 DEF Along
  <2>11. Along(value', w2, n2) = Along(value, w, n) \/ LRUStep(Along(value, w, n), Along(value', w2, n2))
    BY <2>6, <2>10, MovesAreLRU
  <2> QED  BY <2>8, <2>9, <2>11
<1>3. IInv /\ InOrder /\ [Next]_vars => [LRU!Next]_([i \in 1..Size |-> value[Walk(lru, Size)[i]].key])
  BY <1>2 DEF LRUStep, Order, OrderOf, Present, Size, LRU!Next, LRU!Use, LRU!Remove, LRU!Insert, LRU!ToFront, LRU!Without, LRU!Cached
<1> QED  BY <1>1, <1>3, CacheInOrder, PTL DEF Spec, ImplementsLRU, LRU!Spec
-----------------------------------------------------------------------------
\* What stays true of the pointers of a list even after Init has cut it.  L are the elements
\* that may still be reached: their pointers stay among them and the sentinel and are each
\* other's inverse, except that the sentinel may have let go of them.  rk is when an element
\* last came to the front; along next it falls.
Live(l, L, rk, m) ==
  /\ L \subseteq l.owned /\ rk \in [Elements -> Nat] /\ m \in Nat
  /\ \A x \in L \cup {Root} : l.next[x] \in L \cup {Root} /\ l.prev[x] \in L \cup {Root}
  /\ \A x, y \in L : l.next[x] = y <=> l.prev[y] = x
  /\ l.next[Root] \in L => l.prev[l.next[Root]] = Root
  /\ l.prev[Root] \in L => l.next[l.prev[Root]] = Root
  /\ \A x \in L : rk[x] < m /\ (l.next[x] \in L => rk[l.next[x]] < rk[x])

\* list.Remove of a live element leaves the others live.
LEMMA LiveRemove ==
  ASSUME NEW l \in List, NEW L, NEW rk, NEW m, Live(l, L, rk, m), NEW e \in L
  PROVE  Live(ListRemove(l, e), L \ {e}, rk, m)
<1> DEFINE r == ListRemove(l, e)
           s == l.next[e]
           b == l.prev[e]
           K == L \ {e}
<1>1. /\ L \subseteq l.owned /\ rk \in [Elements -> Nat] /\ m \in Nat
      /\ \A x \in L \cup {Root} : l.next[x] \in L \cup {Root} /\ l.prev[x] \in L \cup {Root}
      /\ \A x, y \in L : l.next[x] = y <=> l.prev[y] = x
      /\ l.next[Root] \in L => l.prev[l.next[Root]] = Root
      /\ l.prev[Root] \in L => l.next[l.prev[Root]] = Root
      /\ \A x \in L : rk[x] < m /\ (l.next[x] \in L => rk[l.next[x]] < rk[x])
  BY DEF Live
<1>2. /\ l.next \in [Nodes -> Nodes \cup {Nil}] /\ l.prev \in [Nodes -> Nodes \cup {Nil}]
      /\ L \subseteq Elements /\ L \subseteq Nodes /\ Root \in Nodes /\ Root \notin L
  BY <1>1, ListConstants DEF List, Nodes
<1>3. s \in L \cup {Root} /\ b \in L \cup {Root} /\ s # e /\ b # e
  BY <1>1, <1>2
<1> HIDE DEF s, b
<1>4. r = [next |-> [[l.next EXCEPT ![b] = s] EXCEPT ![e] = Nil], prev |-> [[l.prev EXCEPT ![s] = b] EXCEPT ![e] = Nil],
           owned |-> l.owned \ {e}, len |-> l.len - 1]
  <2>1. [l.next EXCEPT ![l.prev[e]] = l.next[e]] = [l.next EXCEPT ![b] = s]  BY DEF s, b
  <2>2. [l.next EXCEPT ![b] = s][e] = s  BY <1>2, <1>3 DEF s
  <2>3. e \in l.owned  BY <1>1
  <2> QED  BY <2>1, <2>2, <2>3 DEF ListRemove, b
<1>5. /\ \A x \in Nodes : x # e /\ x # b => r.next[x] = l.next[x]
      /\ r.next[b] = s
      /\ \A x \in Nodes : x # e /\ x # s => r.prev[x] = l.prev[x]
      /\ r.prev[s] = b
      /\ r.owned = l.owned \ {e}
  BY <1>2, <1>3, <1>4
<1> HIDE DEF r
<1>6. K \subseteq L /\ e \notin K /\ \A x \in L : x # e => x \in K  OBVIOUS
<1>7. s \in K \cup {Root} /\ b \in K \cup {Root}  BY <1>3
<1> HIDE DEF K
<1>8. \A x \in L \cup {Root} : (l.next[x] = e => x = b) /\ (l.prev[x] = e => x = s)
  <2>1. ASSUME NEW x \in L \cup {Root}, l.next[x] = e PROVE x = b  BY <1>1, <2>1 DEF b
  <2>2. ASSUME NEW x \in L \cup {Root}, l.prev[x] = e PROVE x = s  BY <1>1, <2>2 DEF s
  <2> QED  BY <2>1, <2>2
<1>9. ASSUME NEW x \in K \cup {Root} PROVE r.next[x] \in K \cup {Root} /\ r.prev[x] \in K \cup {Root}
  <2>1. x \in L \cup {Root} /\ x # e /\ x \in Nodes  BY <1>2, <1>6
  <2>2. r.next[x] \in K \cup {Root}
    <3>1. CASE x = b  BY <1>5, <1>7, <3>1
    <3>2. CASE x # b
      <4>1. r.next[x] = l.next[x] /\ l.next[x] \in L \cup {Root} /\ l.next[x] # e  BY <1>1, <1>5, <1>8, <2>1, <3>2
      <4> QED  BY <1>6, <4>1
    <3> QED  BY <3>1, <3>2
  <2>3. r.prev[x] \in K \cup {Root}
    <3>1. CASE x = s  BY <1>5, <1>7, <3>1
    <3>2. CASE x # s
      <4>1. r.prev[x] = l.prev[x] /\ l.prev[x] \in L \cup {Root} /\ l.prev[x] # e  BY <1>1, <1>5, <1>8, <2>1, <3>2
      <4> QED  BY <1>6, <4>1
    <3> QED  BY <3>1, <3>2
  <2> QED  BY <2>2, <2>3
<1>10. ASSUME NEW x \in K, NEW y \in K PROVE r.next[x] = y <=> r.prev[y] = x
  <2>1. x \in L /\ y \in L /\ x # e /\ y # e /\ x # Root /\ y # Root /\ x \in Nodes /\ y \in Nodes  BY <1>2, <1>6
  <2>2. CASE x = b
    <3>1. l.next[x] = e  BY <1>1, <2>1, <2>2 DEF b
    <3>2. l.prev[y] # x  BY <1>1, <2>1, <3>1
    <3> QED  BY <1>5, <2>1, <2>2, <3>2
  <2>3. CASE x # b /\ y = s
    <3>1. l.prev[y] = e  BY <1>1, <2>1, <2>3 DEF s
    <3>2. l.next[x] # y  BY <1>1, <2>1, <3>1
    <3> QED  BY <1>5, <2>1, <2>3, <3>2
  <2>4. CASE x # b /\ y # s  BY <1>1, <1>5, <2>1, <2>4
  <2> QED  BY <2>2, <2>3, <2>4
<1>11. r.next[Root] \in K => r.prev[r.next[Root]] = Root
  <2>1. CASE b = Root  BY <1>5, <2>1
  <2>2. CASE b # Root
    <3>1. r.next[Root] = l.next[Root]
      <4>1. Root # e  BY <1>2
      <4> QED  BY <1>2, <1>5, <2>2, <4>1
    <3>2. SUFFICES ASSUME l.next[Root] \in K PROVE r.prev[l.next[Root]] = Root  BY <3>1
    <3>3. l.next[Root] \in L /\ l.next[Root] # e /\ l.prev[l.next[Root]] = Root /\ l.next[Root] \in Nodes
      BY <1>1, <1>2, <1>6, <3>2
    <3>4. l.next[Root] # s
      <4>1. SUFFICES ASSUME s \in L, l.prev[s] = Root PROVE FALSE  BY <3>3
      <4>2. l.prev[s] = e  BY <1>1, <4>1 DEF s
      <4> QED  BY <1>2, <4>1, <4>2
    <3> QED  BY <1>5, <3>3, <3>4
  <2> QED  BY <2>1, <2>2
<1>12. r.prev[Root] \in K => r.next[r.prev[Root]] = Root
  <2>1. CASE s = Root  BY <1>5, <2>1
  <2>2. CASE s # Root
    <3>1. r.prev[Root] = l.prev[Root]
      <4>1. Root # e  BY <1>2
      <4> QED  BY <1>2, <1>5, <2>2, <4>1
    <3>2. SUFFICES ASSUME l.prev[Root] \in K PROVE r.next[l.prev[Root]] = Root  BY <3>1
    <3>3. l.prev[Root] \in L /\ l.prev[Root] # e /\ l.next[l.prev[Root]] = Root /\ l.prev[Root] \in Nodes
      BY <1>1, <1>2, <1>6, <3>2
    <3>4. l.prev[Root] # b
      <4>1. SUFFICES ASSUME b \in L, l.next[b] = Root PROVE FALSE  BY <3>3
      <4>2. l.next[b] = e  BY <1>1, <4>1 DEF b
      <4> QED  BY <1>2, <4>1, <4>2
    <3> QED  BY <1>5, <3>3, <3>4
  <2> QED  BY <2>1, <2>2
<1>13. ASSUME NEW x \in K, r.next[x] \in K PROVE rk[r.next[x]] < rk[x]
  <2>1. x \in L /\ x # e /\ x \in Nodes /\ x # Root  BY <1>2, <1>6
  <2>2. CASE x = b
    <3>1. l.next[x] = e /\ r.next[x] = s /\ s \in L  BY <1>1, <1>5, <1>6, <1>13, <2>1, <2>2 DEF b
    <3>2. rk[e] < rk[x] /\ rk[s] < rk[e]  BY <1>1, <2>1, <3>1 DEF s
    <3>3. rk[x] \in Nat /\ rk[e] \in Nat /\ rk[s] \in Nat  BY <1>1, <1>2, <2>1, <3>1
    <3> QED  BY <3>1, <3>2, <3>3
  <2>3. CASE x # b
    <3>1. r.next[x] = l.next[x] /\ l.next[x] \in L  BY <1>5, <1>6, <1>13, <2>1, <2>3
    <3> QED  BY <1>1, <2>1, <3>1
  <2> QED  BY <2>2, <2>3
<1>14. K \subseteq r.owned /\ \A x \in K : rk[x] < m  BY <1>1, <1>5, <1>6
<1>15. Live(r, K, rk, m)  BY <1>1, <1>9, <1>10, <1>11, <1>12, <1>13, <1>14 DEF Live
<1> QED  BY <1>15 DEF r, K

\* list.PushFront of an element that is not live makes it the youngest.
LEMMA LivePush ==
  ASSUME NEW l \in List, NEW L, NEW rk, NEW m, Live(l, L, rk, m), NEW e \in Elements \ L
  PROVE  Live(PushFront(l, e), L \cup {e}, [rk EXCEPT ![e] = m], m + 1)
<1> DEFINE r == PushFront(l, e)
           a == l.next[Root]
           K == L \cup {e}
           q == [rk EXCEPT ![e] = m]
<1>1. /\ L \subseteq l.owned /\ rk \in [Elements -> Nat] /\ m \in Nat
      /\ \A x \in L \cup {Root} : l.next[x] \in L \cup {Root} /\ l.prev[x] \in L \cup {Root}
      /\ \A x, y \in L : l.next[x] = y <=> l.prev[y] = x
      /\ l.next[Root] \in L => l.prev[l.next[Root]] = Root
      /\ l.prev[Root] \in L => l.next[l.prev[Root]] = Root
      /\ \A x \in L : rk[x] < m /\ (l.next[x] \in L => rk[l.next[x]] < rk[x])
  BY DEF Live
<1>2. /\ l.next \in [Nodes -> Nodes \cup {Nil}] /\ l.prev \in [Nodes -> Nodes \cup {Nil}]
      /\ L \subseteq Elements /\ L \subseteq Nodes /\ Root \in Nodes /\ Root \notin L
      /\ e \in Nodes /\ e # Root
  BY <1>1, ListConstants DEF List, Nodes
<1>3. a \in L \cup {Root} /\ a # e /\ (a \in L => l.prev[a] = Root)  BY <1>1, <1>2
<1>4. r = [next |-> [[l.next EXCEPT ![e] = a] EXCEPT ![Root] = e], prev |-> [[l.prev EXCEPT ![e] = Root] EXCEPT ![a] = e],
           owned |-> l.owned \cup {e}, len |-> l.len + 1]
  BY DEF PushFront
<1> HIDE DEF a
<1>5. /\ \A x \in Nodes : x # e /\ x # Root => r.next[x] = l.next[x]
      /\ r.next[Root] = e /\ r.next[e] = a
      /\ \A x \in Nodes : x # e /\ x # a => r.prev[x] = l.prev[x]
      /\ r.prev[a] = e /\ r.prev[e] = Root
      /\ r.owned = l.owned \cup {e}
  BY <1>2, <1>3, <1>4
<1> HIDE DEF r
<1>6. q \in [Elements -> Nat] /\ q[e] = m /\ \A x \in L : q[x] = rk[x]  BY <1>1, <1>2
<1> HIDE DEF q
<1>7. L \subseteq K /\ e \in K /\ \A x \in K : x \in L \/ x = e  OBVIOUS
<1> HIDE DEF K
<1>8. ASSUME NEW x \in K \cup {Root} PROVE r.next[x] \in K \cup {Root} /\ r.prev[x] \in K \cup {Root}
  <2>1. CASE x = e  BY <1>3, <1>5, <1>7, <2>1
  <2>2. CASE x = Root
    <3>1. r.next[x] = e  BY <1>5, <2>2
    <3>2. r.prev[x] = e \/ r.prev[x] = l.prev[Root]  BY <1>2, <1>5, <2>2
    <3> QED  BY <1>1, <1>7, <3>1, <3>2
  <2>3. CASE x \in L
    <3>1. r.next[x] = l.next[x] /\ (r.prev[x] = e \/ r.prev[x] = l.prev[x])  BY <1>2, <1>5, <2>3
    <3> QED  BY <1>1, <1>7, <2>3, <3>1
  <2> QED  BY <1>7, <2>1, <2>2, <2>3
<1>9. ASSUME NEW x \in K, NEW y \in K PROVE r.next[x] = y <=> r.prev[y] = x
  <2>1. CASE x = e /\ y = e  BY <1>2, <1>3, <1>5, <2>1
  <2>2. CASE x = e /\ y \in L /\ y # e
    <3>1. y # Root /\ y \in Nodes  BY <1>2, <2>2
    <3>2. CASE y = a  BY <1>5, <2>2, <3>2
    <3>3. CASE y # a
      <4>1. r.prev[y] = l.prev[y] /\ l.prev[y] \in L \cup {Root}  BY <1>1, <1>5, <2>2, <3>1, <3>3
      <4>2. r.prev[y] # e  BY <1>2, <4>1
      <4> QED  BY <1>5, <2>2, <3>3, <4>2
    <3> QED  BY <3>2, <3>3
  <2>3. CASE x \in L /\ y = e
    <3>1. x # Root /\ x # e /\ x \in Nodes  BY <1>2, <2>3
    <3>2. r.next[x] = l.next[x] /\ l.next[x] \in L \cup {Root}  BY <1>1, <1>5, <2>3, <3>1
    <3>3. r.next[x] # e  BY <1>2, <3>2
    <3> QED  BY <1>5, <2>3, <3>1, <3>3
  <2>4. CASE x \in L /\ y \in L
    <3>1. x # Root /\ x # e /\ x \in Nodes /\ y # Root /\ y # e /\ y \in Nodes  BY <1>2, <2>4
    <3>2. CASE y = a
      <4>1. l.prev[y] = Root  BY <1>3, <2>4, <3>2
      <4>2. l.next[x] # y  BY <1>1, <2>4, <3>1, <4>1
      <4> QED  BY <1>5, <3>1, <3>2, <4>2
    <3>3. CASE y # a  BY <1>1, <1>5, <2>4, <3>1, <3>3
    <3> QED  BY <3>2, <3>3
  <2> QED  BY <1>2, <1>7, <2>1, <2>2, <2>3, <2>4
<1>10. r.prev[r.next[Root]] = Root  BY <1>5
<1>11. r.prev[Root] \in K => r.next[r.prev[Root]] = Root
  <2>1. CASE a = Root  BY <1>5, <2>1
  <2>2. CASE a # Root
    <3>1. r.prev[Root] = l.prev[Root] /\ l.prev[Root] \in L \cup {Root}  BY <1>1, <1>2, <1>5, <2>2
    <3>2. SUFFICES ASSUME l.prev[Root] \in L PROVE r.next[l.prev[Root]] = Root  BY <1>2, <1>7, <3>1
    <3>3. l.next[l.prev[Root]] = Root /\ l.prev[Root] # Root /\ l.prev[Root] # e /\ l.prev[Root] \in Nodes
      BY <1>1, <1>2, <3>2
    <3> QED  BY <1>5, <3>3
  <2> QED  BY <2>1, <2>2
<1>12. ASSUME NEW x \in K PROVE q[x] < m + 1 /\ (r.next[x] \in K => q[r.next[x]] < q[x])
  <2>1. CASE x = e
    <3>1. r.next[x] = a /\ q[x] = m /\ m < m + 1  BY <1>1, <1>5, <1>6, <2>1
    <3>2. a \in K => a \in L  BY <1>3, <1>7
    <3>3. a \in L => rk[a] < m /\ q[a] = rk[a]  BY <1>1, <1>6
    <3> QED  BY <3>1, <3>2, <3>3
  <2>2. CASE x \in L
    <3>1. x # Root /\ x # e /\ x \in Nodes  BY <1>2, <2>2
    <3>2. r.next[x] = l.next[x] /\ l.next[x] \in L \cup {Root}  BY <1>1, <1>5, <2>2, <3>1
    <3>3. rk[x] < m /\ rk[x] \in Nat /\ q[x] = rk[x]  BY <1>1, <1>2, <1>6, <2>2
    <3>4. r.next[x] \in K => r.next[x] \in L
      <4>1. l.next[x] # e  BY <1>2, <3>2
      <4> QED  BY <1>7, <3>2, <4>1
    <3>5. r.next[x] \in L => rk[r.next[x]] < rk[x] /\ q[r.next[x]] = rk[r.next[x]]  BY <1>1, <1>6, <2>2, <3>2
    <3>6. q[x] < m + 1  BY <1>1, <3>3
    <3> QED  BY <3>3, <3>4, <3>5, <3>6
  <2> QED  BY <1>7, <2>1, <2>2
<1>13. K \subseteq r.owned /\ m + 1 \in Nat
  <2>1. m + 1 \in Nat  BY <1>1
  <2> QED  BY <1>1, <1>5, <1>7, <2>1
<1>14. Live(r, K, q, m + 1)  BY <1>6, <1>8, <1>9, <1>10, <1>11, <1>12, <1>13 DEF Live
<1> QED  BY <1>14 DEF r, K, q

\* list.MoveToFront of a live element makes it the youngest.
LEMMA LiveMove ==
  ASSUME NEW l \in List, NEW L, NEW rk, NEW m, Live(l, L, rk, m), NEW e \in L
  PROVE  \E q, n : Live(MoveToFront(l, e), L, q, n)
<1>1. e \in l.owned /\ e \in Elements /\ L \subseteq Elements  BY DEF Live, List
<1>2. CASE l.next[Root] = e  BY <1>2 DEF MoveToFront
<1>3. CASE l.next[Root] # e
  <2> DEFINE r == ListRemove(l, e)
  <2>1. Live(r, L \ {e}, rk, m)  BY LiveRemove
  <2>2. r \in List /\ e \in Elements \ (L \ {e})  BY <1>1, ListOps
  <2>3. PushFront(r, e) = MoveToFront(l, e)  BY <1>1, <1>3, MoveIsPush
  <2> HIDE DEF r
  <2>4. Live(PushFront(r, e), (L \ {e}) \cup {e}, [rk EXCEPT ![e] = m], m + 1)  BY <2>1, <2>2, LivePush
  <2>5. (L \ {e}) \cup {e} = L  OBVIOUS
  <2> QED  BY <2>3, <2>4, <2>5
<1> QED  BY <1>2, <1>3

\* list.Init only lets the sentinel go of the elements.
LEMMA LiveInit ==
  ASSUME NEW l \in List, NEW L, NEW rk, NEW m, Live(l, L, rk, m)
  PROVE  Live(ListInit(l), L, rk, m)
<1> DEFINE r == ListInit(l)
<1>1. /\ L \subseteq l.owned /\ rk \in [Elements -> Nat] /\ m \in Nat
      /\ \A x \in L \cup {Root} : l.next[x] \in L \cup {Root} /\ l.prev[x] \in L \cup {Root}
      /\ \A x, y \in L : l.next[x] = y <=> l.prev[y] = x
      /\ \A x \in L : rk[x] < m /\ (l.next[x] \in L => rk[l.next[x]] < rk[x])
  BY DEF Live
<1>2. /\ l.next \in [Nodes -> Nodes \cup {Nil}] /\ l.prev \in [Nodes -> Nodes \cup {Nil}]
      /\ L \subseteq Nodes /\ Root \in Nodes /\ Root \notin L
  BY <1>1, ListConstants DEF List, Nodes
<1>3. /\ \A x \in L : r.next[x] = l.next[x] /\ r.prev[x] = l.prev[x]
      /\ r.next[Root] = Root /\ r.prev[Root] = Root /\ r.owned = l.owned
  BY <1>2 DEF ListInit
<1> HIDE DEF r
<1>4. Live(r, L, rk, m)  BY <1>1, <1>2, <1>3 DEF Live
<1> QED  BY <1>4 DEF r

\* What is not in a set that the pointers do not leave can be forgotten.
LEMMA LiveWithin ==
  ASSUME NEW l \in List, NEW L, NEW rk, NEW m, Live(l, L, rk, m), NEW S \in SUBSET Nodes, Root \in S,
         \A n \in S : {l.next[n], l.prev[n]} \subseteq S \cup {Nil}
  PROVE  Live(l, L \cap S, rk, m)
<1>1. L \subseteq Elements /\ Nil \notin L \cup {Root}  BY ListConstants DEF Live, List
<1>2. \A x \in (L \cap S) \cup {Root} : l.next[x] \in (L \cap S) \cup {Root} /\ l.prev[x] \in (L \cap S) \cup {Root}
  <2> SUFFICES ASSUME NEW x \in (L \cap S) \cup {Root}
               PROVE  l.next[x] \in (L \cap S) \cup {Root} /\ l.prev[x] \in (L \cap S) \cup {Root}
    OBVIOUS
  <2>1. l.next[x] \in L \cup {Root} /\ l.prev[x] \in L \cup {Root}  BY DEF Live
  <2>2. l.next[x] \in S \cup {Nil} /\ l.prev[x] \in S \cup {Nil}  OBVIOUS
  <2> QED  BY <1>1, <2>1, <2>2
<1> QED  BY <1>2 DEF Live
-----------------------------------------------------------------------------
\* The map or a client refers to this element.
Refers(x) == (\E k \in Keys : entries[k] = x) \/ \E c \in Clients : get[c].elem = x

\* Whatever is referred to and belongs to the list is live.
Tracked(L) == \A x \in lru.owned : Refers(x) => x \in L
Traced == \E L, rk, m : Live(lru, L, rk, m) /\ Tracked(L)

\* A new list has no live elements.
LEMMA InitTraced == Init => Traced
<1> SUFFICES ASSUME Init PROVE Traced  OBVIOUS
<1> DEFINE rk == [e \in Elements |-> 0]
<1>1. Root \in Nodes  BY DEF Nodes
<1>2. lru.next[Root] = Root /\ lru.prev[Root] = Root /\ lru.owned = {}  BY <1>1 DEF Init, NewList
<1>3. rk \in [Elements -> Nat] /\ 0 \in Nat  OBVIOUS
<1> HIDE DEF rk
<1>4. Live(lru, {}, rk, 0)  BY <1>2, <1>3 DEF Live
<1>5. Tracked({})  BY <1>2 DEF Tracked
<1> QED  BY <1>4, <1>5 DEF Traced

\* A step that gives nobody a new element, and calls the list at most once.
LEMMA FewerReferred ==
  ASSUME IInv, Traced, \A x : x # Nil /\ Refers(x)' => Refers(x), NEW e, e \in lru.owned => Refers(e),
         lru' \in {lru, MoveToFront(lru, e), ListRemove(lru, e), ListInit(lru)}
  PROVE  Traced'
<1>1. lru \in List  BY DEF IInv, TypeOK
<1>2. PICK L, rk, m : Live(lru, L, rk, m) /\ Tracked(L)  BY DEF Traced
<1>3. ASSUME NEW K, NEW q, NEW n, Live(lru', K, q, n), \A x \in lru'.owned : x \in lru.owned /\ (x \in L => x \in K)
      PROVE  Traced'
  <2>1. \A x \in lru'.owned : Refers(x)' => x \in K
    <3>1. \A x \in lru'.owned : x # Nil  BY <1>1, <1>3, ListConstants DEF List
    <3> QED  BY <1>2, <1>3, <3>1 DEF Tracked
  <2> QED  BY <1>3, <2>1 DEF Traced, Tracked
<1>4. CASE lru' = lru  BY <1>2, <1>3, <1>4
<1>5. CASE lru' = ListInit(lru)
  <2>1. Live(lru', L, rk, m)  BY <1>1, <1>2, <1>5, LiveInit
  <2>2. lru'.owned = lru.owned  BY <1>5 DEF ListInit
  <2> QED  BY <1>3, <2>1, <2>2
<1>6. CASE lru' = MoveToFront(lru, e) /\ lru' # lru
  <2>1. e \in lru.owned  BY <1>6 DEF MoveToFront
  <2>2. e \in L  BY <1>2, <2>1 DEF Tracked
  <2>3. PICK q, n : Live(lru', L, q, n)  BY <1>1, <1>2, <1>6, <2>2, LiveMove
  <2>4. lru'.owned = lru.owned
    <3>1. \A x, y : [lru EXCEPT !.next = x, !.prev = y].owned = lru.owned  BY <1>1, Relinked
    <3> QED  BY <1>6, <3>1 DEF MoveToFront
  <2> QED  BY <1>3, <2>3, <2>4
<1>7. CASE lru' = ListRemove(lru, e) /\ lru' # lru
  <2>1. e \in lru.owned  BY <1>7 DEF ListRemove
  <2>2. e \in L  BY <1>2, <2>1 DEF Tracked
  <2>3. Live(lru', L \ {e}, rk, m)  BY <1>1, <1>2, <1>7, <2>2, LiveRemove
  <2>4. lru'.owned = lru.owned \ {e}  BY <1>7, <2>1 DEF ListRemove
  <2> QED  BY <1>3, <2>3, <2>4
<1> QED  BY <1>4, <1>5, <1>6, <1>7

\* Set of a new key: the element is fresh, so what points to it is garbage.
LEMMA InsertTraced ==
  ASSUME IInv, Traced, NEW c \in Clients, NEW e \in Elements, SetInsert(c, e)
  PROVE  Traced'
<1> DEFINE k == get[c].key
<1>1. lru \in List /\ entries \in [Keys -> Elements \cup {Nil}] /\ get \in [Clients -> Get]
  BY DEF IInv, TypeOK
<1>2. PICK L, rk, m : Live(lru, L, rk, m) /\ Tracked(L)  BY DEF Traced
<1>3. PICK S \in SUBSET Nodes :
         /\ {Root} \cup Mapped \cup ({get[d].elem : d \in Clients} \ {Nil}) \subseteq S
         /\ \A n \in S : {lru.next[n], lru.prev[n]} \subseteq S \cup {Nil}
         /\ e \notin S
  BY DEF SetInsert, Free
<1> DEFINE K == L \cap S
<1>4. Live(lru, K, rk, m)  BY <1>1, <1>2, <1>3, LiveWithin
<1>5. \A x \in lru.owned : Refers(x) => x \in K
  <2> SUFFICES ASSUME NEW x \in lru.owned, Refers(x) PROVE x \in S  BY <1>2 DEF Tracked
  <2>1. x # Nil  BY <1>1, ListConstants DEF List
  <2> QED  BY <1>3, <2>1 DEF Refers, Mapped
<1>6. e \notin K  BY <1>3
<1> HIDE DEF K
<1>7. \E K1 : /\ Live(EvictedList, K1, rk, m) /\ e \notin K1 /\ EvictedList \in List
              /\ \A x \in EvictedList.owned : x \in lru.owned /\ (x \in K => x \in K1)
  <2>1. CASE Evicts
    <3>1. Oldest \in K
      <4>1. Oldest = lru.prev[Root] /\ Oldest # Root  BY <2>1 DEF SetInsert, Evicts, Oldest, Back
      <4>2. lru.prev[Root] \in K \cup {Root}  BY <1>4 DEF Live
      <4> QED  BY <4>1, <4>2
    <3>2. EvictedList = ListRemove(lru, Oldest)  BY <2>1 DEF EvictedList
    <3>3. Oldest \in lru.owned /\ Oldest \in Elements  BY <1>1, <1>4, <3>1 DEF Live, List
    <3>4. Live(EvictedList, K \ {Oldest}, rk, m)  BY <1>1, <1>4, <3>1, <3>2, LiveRemove
    <3>5. EvictedList \in List  BY <1>1, <3>2, <3>3, ListOps
    <3>6. EvictedList.owned = lru.owned \ {Oldest}  BY <3>2, <3>3 DEF ListRemove
    <3> QED  BY <1>6, <3>4, <3>5, <3>6
  <2>2. CASE ~Evicts  BY <1>1, <1>4, <1>6, <2>2 DEF EvictedList
  <2> QED  BY <2>1, <2>2
<1>8. PICK K1 : /\ Live(EvictedList, K1, rk, m) /\ e \notin K1 /\ EvictedList \in List
                /\ \A x \in EvictedList.owned : x \in lru.owned /\ (x \in K => x \in K1)
  BY <1>7
<1>9. /\ lru' = PushFront(EvictedList, e) /\ entries' = [EvictedEntries EXCEPT ![k] = e]
      /\ get' = [get EXCEPT ![c] = Idle]
  BY DEF SetInsert
<1>10. Live(lru', K1 \cup {e}, [rk EXCEPT ![e] = m], m + 1)  BY <1>8, <1>9, LivePush
<1>11. lru'.owned = EvictedList.owned \cup {e}  BY <1>9 DEF PushFront
<1>12. ASSUME NEW x \in lru'.owned, Refers(x)' PROVE x \in K1 \cup {e}
  <2> SUFFICES ASSUME x # e PROVE x \in K1  OBVIOUS
  <2>1. x \in EvictedList.owned /\ x \in lru.owned  BY <1>8, <1>11
  <2>2. x # Nil  BY <1>1, <2>1, ListConstants DEF List
  <2>3. Refers(x)
    <3>1. CASE \E j \in Keys : entries'[j] = x
      <4>1. PICK j \in Keys : entries'[j] = x  BY <3>1
      <4>2. EvictedEntries \in [Keys -> Elements \cup {Nil}] /\ EvictedEntries[j] \in {entries[j], Nil}
        BY <1>1 DEF EvictedEntries
      <4>3. entries'[j] \in {e, EvictedEntries[j]}  BY <1>9, <4>2
      <4> QED  BY <2>2, <4>1, <4>2, <4>3 DEF Refers
    <3>2. CASE \E d \in Clients : get'[d].elem = x
      <4>1. PICK d \in Clients : get'[d].elem = x  BY <3>2
      <4>2. d # c  BY <1>1, <1>9, <2>2, <4>1 DEF Idle
      <4>3. get'[d] = get[d]  BY <1>1, <1>9, <4>2
      <4> QED  BY <4>1, <4>3 DEF Refers
    <3> QED  BY <1>12, <3>1, <3>2 DEF Refers
  <2> QED  BY <1>5, <1>8, <2>1, <2>3
<1> QED  BY <1>10, <1>12 DEF Traced, Tracked

\* Every step of the cache keeps its elements traced.
LEMMA NextTraced == IInv /\ Traced /\ [Next]_vars => Traced'
<1> SUFFICES ASSUME IInv, Traced, [Next]_vars PROVE Traced'  OBVIOUS
<1>1. entries \in [Keys -> Elements \cup {Nil}] /\ get \in [Clients -> Get]  BY DEF IInv, TypeOK
<1>2. ASSUME NEW c \in Clients, NEW g, get' = [get EXCEPT ![c] = g], g.elem = Nil \/ Refers(g.elem),
             \A k \in Keys : entries'[k] \in {entries[k], Nil}
      PROVE  \A x : x # Nil /\ Refers(x)' => Refers(x)
  <2> SUFFICES ASSUME NEW x, x # Nil, Refers(x)' PROVE Refers(x)  OBVIOUS
  <2>1. CASE \E k \in Keys : entries'[k] = x  BY <1>2, <2>1 DEF Refers
  <2>2. CASE \E d \in Clients : get'[d].elem = x
    <3>1. PICK d \in Clients : get'[d].elem = x  BY <2>2
    <3>2. CASE d = c
      <4>1. get'[d] = g  BY <1>1, <1>2, <3>2
      <4> QED  BY <1>2, <3>1, <4>1
    <3>3. CASE d # c
      <4>1. get'[d] = get[d]  BY <1>1, <1>2, <3>3
      <4> QED  BY <3>1, <4>1 DEF Refers
    <3> QED  BY <3>2, <3>3
  <2> QED  BY <2>1, <2>2 DEF Refers
<1>3. ASSUME NEW e, e \in lru.owned => Refers(e), \A x : x # Nil /\ Refers(x)' => Refers(x),
             lru' \in {lru, MoveToFront(lru, e), ListRemove(lru, e), ListInit(lru)}
      PROVE  Traced'
  BY <1>3, FewerReferred
<1>4. Nil \notin lru.owned  BY ListConstants DEF IInv, TypeOK, List
<1>5. ASSUME NEW c \in Clients, NEW k \in Keys, GetLookup(c, k) PROVE Traced'
  <2> DEFINE g == [pc |-> IF entries[k] = Nil THEN "miss" ELSE "found",
                   key |-> k, elem |-> entries[k], entry |-> Nil, from |-> clears]
  <2>1. get' = [get EXCEPT ![c] = g] /\ lru' = lru /\ entries' = entries  BY <1>5 DEF GetLookup
  <2>2. Refers(g.elem)  BY DEF Refers
  <2> HIDE DEF g
  <2> QED  BY <1>2, <1>3, <1>4, <2>1, <2>2
<1>6. ASSUME NEW c \in Clients, GetCheck(c) PROVE Traced'
  <2> DEFINE g == [get[c] EXCEPT !.entry = value[get[c].elem],
                                 !.pc = IF value[get[c].elem].expired /\ ~lazy THEN "drop" ELSE "touch"]
  <2>1. get' = [get EXCEPT ![c] = g] /\ lru' = lru /\ entries' = entries  BY <1>1, <1>6 DEF GetCheck
  <2>2. g.elem = get[c].elem
    <3>1. get[c] \in Get  BY <1>1
    <3> QED  BY <3>1 DEF Get
  <2>3. Refers(g.elem)  BY <2>2 DEF Refers
  <2> HIDE DEF g
  <2> QED  BY <1>2, <1>3, <1>4, <2>1, <2>3
<1>7. Idle.elem = Nil  BY DEF Idle
<1>8. ASSUME NEW c \in Clients, GetTouch(c) PROVE Traced'
  <2>1. get' = [get EXCEPT ![c] = Idle] /\ lru' = MoveToFront(lru, get[c].elem) /\ entries' = entries
    BY <1>8 DEF GetTouch
  <2>2. Refers(get[c].elem)  BY DEF Refers
  <2> QED  BY <1>2, <1>3, <1>7, <2>1, <2>2
<1>9. ASSUME NEW c \in Clients, GetDrop(c) PROVE Traced'
  <2> DEFINE g == [Idle EXCEPT !.pc = "miss", !.key = get[c].key]
  <2>1. get' = [get EXCEPT ![c] = g] /\ lru' = ListRemove(lru, get[c].elem)
        /\ entries' = [entries EXCEPT ![get[c].entry.key] = Nil]
    BY <1>9 DEF GetDrop
  <2>2. \A k \in Keys : entries'[k] \in {entries[k], Nil}  BY <1>1, <2>1
  <2>3. g.elem = Nil  BY DEF Idle
  <2>4. Refers(get[c].elem)  BY DEF Refers
  <2> HIDE DEF g
  <2> QED  BY <1>2, <1>3, <2>1, <2>2, <2>3, <2>4
<1>10. ASSUME NEW c \in Clients, SetReplace(c) PROVE Traced'
  <2> DEFINE e == entries[get[c].key]
  <2>1. get' = [get EXCEPT ![c] = Idle] /\ lru' = MoveToFront(lru, e) /\ entries' = entries
    BY <1>10 DEF SetReplace
  <2>2. Refers(e)
    <3>1. get[c].key \in Keys  BY <1>10 DEF SetReplace, At, IInv, HeldElement
    <3> QED  BY <3>1 DEF Refers
  <2> HIDE DEF e
  <2> QED  BY <1>2, <1>3, <1>7, <2>1, <2>2
<1>11. ASSUME NEW c \in Clients, SetPanic(c) \/ SetSkipped(c) PROVE Traced'
  <2>1. get' = [get EXCEPT ![c] = Idle] /\ lru' = lru /\ entries' = entries  BY <1>11 DEF SetPanic, SetSkipped
  <2> QED  BY <1>2, <1>3, <1>4, <1>7, <2>1
<1>12. ASSUME NEW c \in Clients, NEW e \in Elements, SetInsert(c, e) PROVE Traced'  BY <1>12, InsertTraced
<1>13. ASSUME \A k \in Keys : entries'[k] \in {entries[k], Nil}, get' = get
       PROVE  \A x : x # Nil /\ Refers(x)' => Refers(x)
  BY <1>13 DEF Refers
<1>14. ASSUME NEW e \in Elements, Expire(e) PROVE Traced'
  <2>1. lru' = lru /\ entries' = entries /\ get' = get  BY <1>14 DEF Expire
  <2> QED  BY <1>3, <1>4, <1>13, <2>1
<1>15. CASE Clear
  <2>1. lru' = ListInit(lru) /\ get' = get /\ \A k \in Keys : entries'[k] \in {entries[k], Nil}  BY <1>15 DEF Clear
  <2> QED  BY <1>3, <1>4, <1>13, <2>1
<1>16. ASSUME NEW k \in Keys, Delete(k) PROVE Traced'
  <2>1. lru' = ListRemove(lru, entries[k]) /\ get' = get /\ \A j \in Keys : entries'[j] \in {entries[j], Nil}
    BY <1>1, <1>16 DEF Delete
  <2>2. Refers(entries[k])  BY DEF Refers
  <2> QED  BY <1>3, <1>13, <2>1, <2>2
<1>17. CASE UNCHANGED vars
  <2>1. lru' = lru /\ entries' = entries /\ get' = get  BY <1>17 DEF vars
  <2> QED  BY <1>3, <1>4, <1>13, <2>1
<1> QED  BY <1>5, <1>6, <1>8, <1>9, <1>10, <1>11, <1>12, <1>14, <1>15, <1>16, <1>17 DEF Next, ProgramNext, Client

\* In every reachable state the elements in use are live, races and Clear included.
THEOREM CacheTraced == Spec => [](IInv /\ Traced)
<1>1. Init => IInv /\ Traced  BY InitInv, InitTraced
<1>2. IInv /\ Traced /\ [Next]_vars => (IInv /\ Traced)'  BY NextInv, NextTraced
<1> QED  BY <1>1, <1>2, PTL DEF Spec
-----------------------------------------------------------------------------
\* A walk that goes on from x to Onward(x) can be taken any number of steps.
Onward(l, x) == IF x \in l.owned THEN l.next[x] ELSE Root
Walks(l, g, n) == g = [i \in 0..n |-> IF i = 0 THEN l.next[Root] ELSE Onward(l, g[i - 1])]

\* Such a walk exists for every number of steps: a shortest one that did not could be
\* made from the one before it.
LEMMA WalkExists ==
  ASSUME NEW l, NEW n \in Nat
  PROVE  \E g : Walks(l, g, n)
<1> DEFINE Bad == {k \in Nat : ~ \E g : Walks(l, g, k)}
<1> SUFFICES ASSUME Bad # {} PROVE FALSE  OBVIOUS
<1>1. Bad \subseteq Nat  OBVIOUS
<1>2. PICK k \in Bad : \A j \in Bad : k <= j
  <2> HIDE DEF Bad
  <2> QED  BY <1>1, LeastOne
<1>3. k \in Nat /\ ~ \E g : Walks(l, g, k)  OBVIOUS
<1>4. k # 0
  <2> SUFFICES ASSUME k = 0 PROVE FALSE  OBVIOUS
  <2> DEFINE g == [i \in 0..0 |-> l.next[Root]]
  <2>1. g = [i \in 0..0 |-> IF i = 0 THEN l.next[Root] ELSE Onward(l, g[i - 1])]
    <3>1. \A i \in 0..0 : (IF i = 0 THEN l.next[Root] ELSE Onward(l, g[i - 1])) = l.next[Root]  OBVIOUS
    <3> QED  BY <3>1
  <2> HIDE DEF g
  <2>2. Walks(l, g, 0)  BY <2>1 DEF Walks
  <2> QED  BY <1>3, <2>2
<1>5. k - 1 \in Nat /\ k - 1 \notin Bad
  <2>1. k - 1 \in Nat /\ ~(k <= k - 1)  BY <1>3, <1>4
  <2> HIDE DEF Bad
  <2> QED  BY <1>2, <2>1
<1>6. PICK h : Walks(l, h, k - 1)  BY <1>5
<1> DEFINE g == [i \in 0..k |-> IF i = k THEN Onward(l, h[k - 1]) ELSE h[i]]
<1>7. ASSUME NEW i \in 0..k PROVE g[i] = IF i = 0 THEN l.next[Root] ELSE Onward(l, g[i - 1])
  <2>1. \A j \in 0..(k - 1) : h[j] = IF j = 0 THEN l.next[Root] ELSE Onward(l, h[j - 1])  BY <1>6 DEF Walks
  <2>2. CASE i = k
    <3>1. k - 1 \in 0..k /\ k - 1 # k  BY <1>3, <1>4
    <3> QED  BY <1>4, <2>2, <3>1
  <2>3. CASE i # k
    <3>1. i \in 0..(k - 1) /\ (i # 0 => i - 1 \in 0..k /\ i - 1 # k)  BY <1>3, <2>3
    <3> QED  BY <2>1, <2>3, <3>1
  <2> QED  BY <2>2, <2>3
<1>8. g = [i \in 0..k |-> g[i]]  OBVIOUS
<1> HIDE DEF g
<1>9. Walks(l, g, k)  BY <1>7, <1>8 DEF Walks
<1> QED  BY <1>3, <1>9

\* A walk through live elements alone meets older and older ones, so it meets none twice.
LEMMA WalkAges ==
  ASSUME NEW l \in List, NEW L, NEW rk, NEW m, Live(l, L, rk, m), NEW n \in Nat, NEW g, Walks(l, g, n),
         Root \notin l.owned, \A i \in 0..n : g[i] \in l.owned
  PROVE  g \in [0..n -> L] /\ \A i, j \in 0..n : i < j => g[i] # g[j]
<1>1. \A i \in 0..n : g[i] = IF i = 0 THEN l.next[Root] ELSE l.next[g[i - 1]]
  <2> SUFFICES ASSUME NEW i \in 0..n PROVE g[i] = IF i = 0 THEN l.next[Root] ELSE l.next[g[i - 1]]  OBVIOUS
  <2>1. g[i] = IF i = 0 THEN l.next[Root] ELSE Onward(l, g[i - 1])  BY DEF Walks
  <2>2. i # 0 => g[i - 1] \in l.owned  OBVIOUS
  <2> QED  BY <2>1, <2>2 DEF Onward
<1>2. /\ rk \in [Elements -> Nat]
      /\ \A x \in L \cup {Root} : l.next[x] \in L \cup {Root}
      /\ \A x \in L : l.next[x] \in L => rk[l.next[x]] < rk[x]
      /\ L \subseteq l.owned
  BY DEF Live
<1>3. \A i \in 0..n : g[i] \in L
  <2> DEFINE Bad == {i \in 0..n : g[i] \notin L}
  <2> SUFFICES ASSUME Bad # {} PROVE FALSE  OBVIOUS
  <2>1. Bad \subseteq Nat  OBVIOUS
  <2>2. PICK k \in Bad : \A j \in Bad : k <= j
    <3> HIDE DEF Bad
    <3> QED  BY <2>1, LeastOne
  <2>3. k \in 0..n /\ g[k] \notin L  OBVIOUS
  <2>4. CASE k = 0  BY <1>1, <1>2, <2>3, <2>4
  <2>5. CASE k # 0
    <3>1. k - 1 \in 0..n /\ ~(k <= k - 1)  BY <2>3, <2>5
    <3>2. k - 1 \notin Bad
      <4> HIDE DEF Bad
      <4> QED  BY <2>2, <3>1
    <3>3. g[k - 1] \in L  BY <3>1, <3>2
    <3> QED  BY <1>1, <1>2, <2>3, <2>5, <3>3
  <2> QED  BY <2>4, <2>5
<1>4. \A x \in L : rk[x] \in Nat
  <2>1. L \subseteq Elements  BY <1>2 DEF List
  <2> QED  BY <1>2, <2>1
<1> DEFINE Younger(i, j) == rk[g[j]] < rk[g[i]]
<1>5. \A i, j \in 0..n : i < j => Younger(i, j)
  <2> DEFINE Bad == {j \in 0..n : \E i \in 0..n : i < j /\ ~Younger(i, j)}
  <2> SUFFICES ASSUME Bad # {} PROVE FALSE
    <3> HIDE DEF Younger
    <3> QED  OBVIOUS
  <2>1. Bad \subseteq Nat  OBVIOUS
  <2>2. PICK k \in Bad : \A j \in Bad : k <= j
    <3> HIDE DEF Bad
    <3> QED  BY <2>1, LeastOne
  <2>3. PICK i \in 0..n : k \in 0..n /\ i < k /\ ~Younger(i, k)  OBVIOUS
  <2>4. k - 1 \in 0..n /\ k # 0 /\ ~(k <= k - 1)  BY <2>3
  <2>5. k - 1 \notin Bad
    <3> HIDE DEF Bad
    <3> QED  BY <2>2, <2>4
  <2>6. i = k - 1 \/ Younger(i, k - 1)
    <3>1. i # k - 1 => i < k - 1  BY <2>3, <2>4
    <3> HIDE DEF Younger
    <3> QED  BY <2>4, <2>5, <3>1
  <2>7. g[k] = l.next[g[k - 1]] /\ g[k - 1] \in L /\ g[k] \in L /\ g[i] \in L  BY <1>1, <1>3, <2>3, <2>4
  <2>8. rk[g[k]] < rk[g[k - 1]]  BY <1>2, <2>7
  <2> QED  BY <1>4, <2>3, <2>6, <2>7, <2>8
<1>6. ASSUME NEW i \in 0..n, NEW j \in 0..n, i < j PROVE g[i] # g[j]
  <2>1. rk[g[j]] < rk[g[i]]  BY <1>5, <1>6
  <2>2. rk[g[i]] \in Nat /\ rk[g[j]] \in Nat  BY <1>3, <1>4
  <2> QED  BY <2>1, <2>2
<1>7. g \in [0..n -> L]
  <2>1. g = [i \in 0..n |-> g[i]]
    <3>1. g = [i \in 0..n |-> IF i = 0 THEN l.next[Root] ELSE Onward(l, g[i - 1])]  BY DEF Walks
    <3> QED  BY <3>1
  <2> QED  BY <1>3, <2>1
<1> QED  BY <1>6, <1>7

\* cache.go:184-217: GET /dns/cache lists the cache in finitely many steps, whatever races
\* with Get, Set, Delete and Clear have made of the list.
THEOREM CacheListingTerminates ==
  ASSUME IsFiniteSet(Elements)
  PROVE  Spec => []ListingTerminates
<1>1. ASSUME IInv, Traced PROVE ListingTerminates
  <2> DEFINE N == Cardinality(Elements)
  <2>1. N \in Nat  BY FS_CardinalityType
  <2>2. lru \in List /\ Root \notin lru.owned  BY <1>1, ListConstants DEF IInv, TypeOK, List
  <2>3. Walks(lru, Listed, N)
    <3> DEFINE F(g) == [i \in 0..N |-> IF i = 0 THEN lru.next[Root]
                                       ELSE IF g[i - 1] \in lru.owned THEN lru.next[g[i - 1]] ELSE Root]
               f == CHOOSE g : g = F(g)
    <3>1. Listed = f  BY DEF Listed
    <3>2. \A g : Walks(lru, g, N) <=> g = F(g)
      <4> HIDE DEF N
      <4> QED  BY DEF Walks, Onward
    <3>3. \E g : g = F(g)
      <4>1. PICK g : Walks(lru, g, N)
        <5> HIDE DEF N
        <5> QED  BY <2>1, WalkExists
      <4> HIDE DEF F, N
      <4> QED  BY <3>2, <4>1
    <3>4. f = F(f)
      <4> HIDE DEF F
      <4> QED  BY <3>3
    <3> HIDE DEF f, F, N
    <3> QED  BY <3>1, <3>2, <3>4
  <2>4. DOMAIN Listed = 0..N
    <3> HIDE DEF N
    <3> QED  BY <2>3 DEF Walks
  <2> SUFFICES ASSUME \A i \in 0..N : Listed[i] \in lru.owned PROVE FALSE  BY <2>4 DEF ListingTerminates
  <2>5. PICK L, rk, m : Live(lru, L, rk, m)  BY <1>1 DEF Traced
  <2>6. Listed \in [0..N -> L] /\ \A i, j \in 0..N : i < j => Listed[i] # Listed[j]
    <3> HIDE DEF N
    <3> QED  BY <2>1, <2>2, <2>3, <2>5, WalkAges
  <2>7. L \subseteq Elements  BY <2>2, <2>5 DEF Live, List
  <2>8. Listed \in [0..N -> Elements]  BY <2>6, <2>7
  <2>9. IsFiniteSet(0..N) /\ Cardinality(0..N) = N + 1
    <3>1. 0 - N <= 0  BY <2>1
    <3> HIDE DEF N
    <3> QED  BY <2>1, FS_Interval
  <2>10. N < Cardinality(0..N)  BY <2>1, <2>9
  <2>11. PICK i, j \in 0..N : i # j /\ Listed[i] = Listed[j]  BY <2>8, <2>9, <2>10, FS_PigeonHole
  <2>12. i < j \/ j < i  BY <2>1, <2>11
  <2> QED  BY <2>6, <2>11, <2>12
<1>2. IInv /\ Traced => ListingTerminates  BY <1>1
<1> QED  BY <1>2, CacheTraced, PTL
===============================================================================
