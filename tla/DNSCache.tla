------------------------------ MODULE DNSCache ------------------------------
(***************************************************************************)
(* internal/cache: the answer cache shared by all query goroutines and the *)
(* management API.  A map from keys to list elements gives the lookup, the *)
(* list of the same elements gives the LRU order.                          *)
(*                                                                         *)
(* A client is one query goroutine of resolver.Resolve: it calls Get and,  *)
(* on a miss, asks an upstream and calls Set.  Get takes the mutex twice   *)
(* and reads elem.Value between the two sections without it, so Get is     *)
(* split there: GetLookup, GetCheck, then GetTouch or GetDrop.  Set, Clear *)
(* and Delete are single critical sections.                                *)
(*                                                                         *)
(* A key is domain/qtype.  An entry keeps its key, whether its TTL has run *)
(* out, and the number of Clear calls made before it was stored; the       *)
(* answer itself, the hit and miss counters and the paging of Entries are  *)
(* data no property here tells apart.                                      *)
(***************************************************************************)
EXTENDS GoList, FiniteSets

CONSTANTS Keys,       \* the cache keys, domain/qtype
          Clients,    \* the query goroutines
          maxSize,    \* advanced.cache.size
          lazy,       \* advanced.cache.lazy
          MaxClears   \* bound: how often DELETE /cache is called

ASSUME CacheConstants == maxSize \in Nat /\ lazy \in BOOLEAN /\ MaxClears \in Nat

VARIABLES entries,  \* c.entries: key -> element, Nil where the map has no key
          lru,      \* c.lruList
          value,    \* elem.Value of every element; Nil if never allocated
          clears,   \* how many times Clear has run
          get,      \* the progress of each client's Get
          crashed   \* a panic in a query goroutine ended the process

vars == <<entries, lru, value, clears, get, crashed>>

Entry == [key : Keys, epoch : 0..MaxClears, expired : BOOLEAN]

ASSUME NilIsNoEntry == Nil \notin Entry

\* pc: idle, "found" after the read-locked lookup, "touch" when the unlocked
\* check decided on a hit, "drop" when it found the entry expired, "miss" once
\* Get has returned without an answer.  from is the number of Clears that had
\* happened when the lookup ran.
Get == [pc : {"idle", "found", "touch", "drop", "miss"}, key : Keys \cup {Nil},
        elem : Elements \cup {Nil}, entry : Entry \cup {Nil}, from : 0..MaxClears]

Idle == [pc |-> "idle", key |-> Nil, elem |-> Nil, entry |-> Nil, from |-> 0]

\* The elements the map refers to, and len(c.entries).
Mapped == {entries[k] : k \in Keys} \ {Nil}
Size == Cardinality({k \in Keys : entries[k] # Nil})

\* Mutant: elements go back to a pool as soon as the map has dropped them.
FreePooled(e) == e \notin Mapped

\* An element PushFront may allocate: one that nothing reachable refers to.
Free(e) ==
  \E S \in SUBSET Nodes :
     /\ {Root} \cup Mapped \cup ({get[c].elem : c \in Clients} \ {Nil}) \subseteq S
     /\ \A n \in S : {lru.next[n], lru.prev[n]} \subseteq S \cup {Nil}
     /\ e \notin S

\* What Entries visits: the walk from Front along Next, as far as it can go
\* without visiting an element twice.
Listed ==
  LET W[i \in 0..Cardinality(Elements)] ==
        IF i = 0 THEN lru.next[Root]
        ELSE IF W[i - 1] \in lru.owned THEN lru.next[W[i - 1]] ELSE Root
  IN  W
-----------------------------------------------------------------------------
\* New(maxSize, lazy)
Init == /\ entries = [k \in Keys |-> Nil]
        /\ lru = NewList
        /\ value = [e \in Elements |-> Nil]
        /\ clears = 0
        /\ get = [c \in Clients |-> Idle]
        /\ crashed = FALSE

\* Client c of the running process is at this point of its Get.
At(c, pc) == ~crashed /\ get[c].pc = pc

\* Get, first section: look the key up under the read lock.
GetLookup(c, k) ==
  /\ At(c, "idle")
  /\ get' = [get EXCEPT ![c] =
       [pc |-> IF entries[k] = Nil THEN "miss" ELSE "found",
        key |-> k, elem |-> entries[k], entry |-> Nil, from |-> clears]]
  /\ UNCHANGED <<entries, lru, value, clears, crashed>>

\* Get, between its sections: read elem.Value and the clock without the mutex.
GetCheck(c) ==
  /\ At(c, "found")
  /\ LET entry == value[get[c].elem]
     IN  get' = [get EXCEPT ![c].entry = entry,
                            ![c].pc = IF entry.expired /\ ~lazy THEN "drop" ELSE "touch"]
  /\ UNCHANGED <<entries, lru, value, clears, crashed>>

\* Mutants: a hit links its element in at the front without unlinking it first,
\* or does not move it at all.
GetTouchRelink(c) ==
  /\ At(c, "touch")
  /\ lru' = PushFront(lru, get[c].elem)
  /\ get' = [get EXCEPT ![c] = Idle]
  /\ UNCHANGED <<entries, value, clears, crashed>>
GetTouchUnmoved(c) ==
  /\ At(c, "touch")
  /\ get' = [get EXCEPT ![c] = Idle]
  /\ UNCHANGED <<entries, lru, value, clears, crashed>>

\* Get, second section of a hit: move the element it found to the front and
\* return the answer.
GetTouch(c) ==
  /\ At(c, "touch")
  /\ lru' = MoveToFront(lru, get[c].elem)
  /\ get' = [get EXCEPT ![c] = Idle]
  /\ UNCHANGED <<entries, value, clears, crashed>>

\* Get, second section of a hit on an expired entry: delete BY KEY from the
\* map, remove the element found from the list, and report a miss.
GetDrop(c) ==
  /\ At(c, "drop")
  /\ entries' = [entries EXCEPT ![get[c].entry.key] = Nil]
  /\ lru' = ListRemove(lru, get[c].elem)
  /\ get' = [get EXCEPT ![c] = [Idle EXCEPT !.pc = "miss", !.key = get[c].key]]
  /\ UNCHANGED <<value, clears, crashed>>

\* The entry Set stores.
NewEntry(k) == [key |-> k, epoch |-> clears, expired |-> FALSE]

\* Set when the key is present (another client stored it meanwhile): the new
\* entry replaces the old one in the same element, which moves to the front.
SetReplace(c) ==
  LET k == get[c].key
  IN  /\ At(c, "miss")
      /\ entries[k] # Nil
      /\ value' = [value EXCEPT ![entries[k]] = NewEntry(k)]
      /\ lru' = MoveToFront(lru, entries[k])
      /\ get' = [get EXCEPT ![c] = Idle]
      /\ UNCHANGED <<entries, clears, crashed>>

\* Mutants: keep the evicted element in the list; evict the most recently used one.
EvictedListKept == lru
OldestAtFront == lru.next[Root]

\* evictOne: the element at the back of the list loses its place in the list,
\* and the key of its entry its place in the map.
Evicts == Size >= maxSize /\ Back(lru) # Nil
Oldest == Back(lru)
EvictedEntries == IF Evicts THEN [entries EXCEPT ![value[Oldest].key] = Nil] ELSE entries
EvictedList == IF Evicts THEN ListRemove(lru, Oldest) ELSE lru

\* Mutant: a full cache overwrites its oldest element in place and forgets to
\* delete the key that was mapped to it.
SetInsertReuse(c, e) ==
  LET k == get[c].key
  IN  /\ At(c, "miss")
      /\ entries[k] = Nil
      /\ IF Evicts THEN e = Back(lru) ELSE Free(e)
      /\ lru' = IF Evicts THEN MoveToFront(lru, e) ELSE PushFront(lru, e)
      /\ entries' = [entries EXCEPT ![k] = e]
      /\ value' = [value EXCEPT ![e] = NewEntry(k)]
      /\ get' = [get EXCEPT ![c] = Idle]
      /\ UNCHANGED <<clears, crashed>>

\* Set when the key is absent: evict if full, push a fresh element, map it.
SetInsert(c, e) ==
  LET k == get[c].key
  IN  /\ At(c, "miss")
      /\ entries[k] = Nil
      /\ Free(e)
      /\ ~(Evicts /\ Oldest = Root)
      /\ lru' = PushFront(EvictedList, e)
      /\ entries' = [EvictedEntries EXCEPT ![k] = e]
      /\ value' = [value EXCEPT ![e] = NewEntry(k)]
      /\ get' = [get EXCEPT ![c] = Idle]
      /\ UNCHANGED <<clears, crashed>>

\* evictOne when Back returns the sentinel of a corrupted list: its Value is
\* nil, the type assertion panics, and nothing recovers a query goroutine.
SetPanic(c) ==
  /\ At(c, "miss")
  /\ entries[get[c].key] = Nil
  /\ Evicts /\ Oldest = Root
  /\ crashed' = TRUE
  /\ get' = [get EXCEPT ![c] = Idle]
  /\ UNCHANGED <<entries, lru, value, clears>>

\* No Set follows the miss (blocked, redirected, every upstream failed), or
\* Set returns early: no answer records, or a TTL of 0.
SetSkipped(c) ==
  /\ At(c, "miss")
  /\ get' = [get EXCEPT ![c] = Idle]
  /\ UNCHANGED <<entries, lru, value, clears, crashed>>

\* Delete(domain, qtype); exported, but nothing in the program calls it.
Delete(k) ==
  /\ ~crashed
  /\ entries[k] # Nil
  /\ lru' = ListRemove(lru, entries[k])
  /\ entries' = [entries EXCEPT ![k] = Nil]
  /\ UNCHANGED <<value, clears, get, crashed>>

\* Mutant: the map survives.
ClearListOnly ==
  /\ ~crashed
  /\ clears < MaxClears
  /\ lru' = ListInit(lru)
  /\ clears' = clears + 1
  /\ UNCHANGED <<entries, value, get, crashed>>

\* Clear: a new map and lruList.Init().
Clear ==
  /\ ~crashed
  /\ clears < MaxClears
  /\ entries' = [k \in Keys |-> Nil]
  /\ lru' = ListInit(lru)
  /\ clears' = clears + 1
  /\ UNCHANGED <<value, get, crashed>>

\* The clock passes the ExpireAt of an entry some later read can still see.
Expire(e) ==
  /\ e \in Mapped \/ \E c \in Clients : get[c].pc = "found" /\ get[c].elem = e
  /\ ~crashed /\ ~value[e].expired
  /\ value' = [value EXCEPT ![e].expired = TRUE]
  /\ UNCHANGED <<entries, lru, clears, get, crashed>>

Client(c) == \/ \E k \in Keys : GetLookup(c, k)
             \/ GetCheck(c) \/ GetTouch(c) \/ GetDrop(c)
             \/ SetReplace(c) \/ SetPanic(c) \/ SetSkipped(c)
             \/ \E e \in Elements : SetInsert(c, e)

\* What the program does: query goroutines, DELETE /cache and the clock.
ProgramNext == \/ \E c \in Clients : Client(c)
               \/ \E e \in Elements : Expire(e)
               \/ Clear

Next == ProgramNext \/ \E k \in Keys : Delete(k)

Spec == Init /\ [][Next]_vars
-----------------------------------------------------------------------------
TypeOK == /\ entries \in [Keys -> Elements \cup {Nil}]
          /\ lru \in List
          /\ value \in [Elements -> Entry \cup {Nil}]
          /\ clears \in 0..MaxClears
          /\ get \in [Clients -> Get]
          /\ crashed \in BOOLEAN

\* cache.go:113, :124, :246: the map and the entries agree on keys, whatever
\* races and even on a corrupted list: the element under a key holds an entry
\* of that very key, so elements are never shared between keys.
KeyIntegrity ==
  \A k \in Keys : entries[k] # Nil =>
     value[entries[k]] # Nil /\ value[entries[k]].key = k

\* cache.go:55-65: Get reads elem.Value after it has released the lock; the
\* element may by then be evicted, replaced or dropped, and still the entry it
\* serves is one for the key that was asked.
RightAnswer ==
  \A c \in Clients : get[c].pc \in {"touch", "drop"} =>
     get[c].entry # Nil /\ get[c].entry.key = get[c].key

\* cache.go:154: once Clear has returned, no Get that starts later serves an
\* entry stored before it, although Get looks up and reads in separate steps
\* and the list still links the old elements.
ClearIsEffective ==
  \A c \in Clients : get[c].pc = "touch" => get[c].entry.epoch >= get[c].from

\* cache.go:119-124: the list is a proper ring holding exactly the elements of
\* the map, each once, so len(c.entries), the listing and the LRU order agree.
ListMatchesMap == WellLinked(lru) /\ lru.owned = Mapped /\ lru.len = Size

\* cache.go:184-217: the walk of Entries, which holds the read lock, always comes
\* to an end, even on a list that a race with Clear has corrupted; Next stops at
\* the sentinel and at an element that belongs to no list.
ListingTerminates == \E i \in DOMAIN Listed : Listed[i] \notin lru.owned

\* The cache implements an LRU cache: the keys along the list, from the front.
LRU == INSTANCE LRUCache
         WITH order <- [i \in 1..Size |-> value[Walk(lru, Size)[i]].key]

\* cache.go:72, :86, :115, :120: the only thing that ever happens to the order
\* of the cache is that a cached key becomes the most recent, a key leaves, or a
\* new key arrives, for which a full cache gives up exactly the least recent
\* one; this although Get touches an element it found a lock section ago.
ImplementsLRU == LRU!Spec

\* cache.go:72, :86: a Get that serves an entry leaves its element at the front
\* of the list, unless the key was evicted since the lookup.
HitIsMostRecent ==
  [][\A c \in Clients :
       get[c].pc = "touch" /\ get'[c].pc = "idle" /\ get[c].elem \in Mapped
         => lru'.next[Root] = get[c].elem]_vars
=============================================================================
