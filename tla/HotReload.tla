------------------------------ MODULE HotReload ------------------------------
(***************************************************************************)
(* How a configuration change reaches the running resolver: PATCH /config, *)
(* POST /config/reload and GET /status of the management API, and the DNS  *)
(* queries that go on meanwhile, over the three read-write mutexes         *)
(* config.Manager.mu, Resolver.mu and DNSClient.mu.                        *)
(*                                                                         *)
(* A handler is the sequence of its lock operations and of what it does    *)
(* between them.  Goroutines interleave after every element.               *)
(*                                                                         *)
(* A configuration is a version number.  m.config is handed out in two     *)
(* ways: Get returns a private copy, but onChange passes the pointer       *)
(* itself, through which the holder sees every later in-place Update until *)
(* Load gives the manager a new object.                                    *)
(***************************************************************************)
EXTENDS RWMutex, FiniteSets, Sequences

CONSTANTS Queries, Statuses, Patches, Reloads,  \* the goroutines, by handler
          BadPatches,                           \* the PATCHes that may have a malformed field
          DiskFails,                            \* whether writing the file may fail
          Upstreams                             \* how many upstreams are configured

ASSUME HotReloadConstants ==
  /\ Threads = Queries \cup Statuses \cup Patches \cup Reloads /\ NoThread \notin Threads
  /\ Queries \cap (Statuses \cup Patches \cup Reloads) = {} /\ Statuses \cap (Patches \cup Reloads) = {}
  /\ Patches \cap Reloads = {}
  /\ BadPatches \subseteq Patches
  /\ DiskFails \in BOOLEAN /\ Upstreams \in Nat

VARIABLES mutex,     \* the three mutexes
          pc,        \* the position of each goroutine in its handler
          got,       \* the configuration each goroutine holds: a reference
          latest,    \* how many PATCHes have been applied; the newest version
          rejected,  \* whether a PATCH has been answered 400
          overtaken, \* whether a change has overtaken another one on its way to the resolver
          config,    \* the version of m.config
          file,      \* the version in the configuration file
          resolver   \* r.cfg: a reference

vars == <<mutex, pc, got, latest, rejected, overtaken, config, file, resolver>>

Mutexes == {"config", "resolver", "client"}
Versions == 0..Cardinality(Patches)

\* A reference is live while it points to the manager's current object.
Reference == [live : BOOLEAN, version : Versions]
Copy(v) == [live |-> FALSE, version |-> v]
Seen(ref) == IF ref.live THEN config ELSE ref.version
-----------------------------------------------------------------------------
RLock(m) == <<"RLock", m>>
RUnlock(m) == <<"RUnlock", m>>
Lock(m) == <<"Lock", m>>
Unlock(m) == <<"Unlock", m>>
Do(what) == <<"Do", what>>
Repeat(s) == [i \in 1..(Upstreams * Len(s)) |-> s[((i - 1) % Len(s)) + 1]]

\* Manager.Get.
GetConfig == <<RLock("config"), Do("copy"), RUnlock("config")>>

\* authMiddleware, before every API handler.
Authenticate == GetConfig

\* DNSClient.AddUpstream, and initUpstreams, which calls it for every address
\* under the resolver's read lock.
AddUpstream == <<Lock("client"), Unlock("client")>>
InitUpstreams == <<RLock("resolver")>> \o Repeat(AddUpstream) \o <<RUnlock("resolver")>>

\* Resolver.UpdateConfig.
UpdateConfig == <<Lock("resolver"), Do("install"), Unlock("resolver")>> \o InitUpstreams

\* Mutant: no deferred unlock.
UpdateLocked == <<Lock("config"), Do("patch"), Do("point")>> \o UpdateConfig

\* Manager.Update: unmarshal in place, then onChange(m.config) under the lock.
Update == <<Lock("config"), Do("patch"), Do("point")>> \o UpdateConfig \o <<Unlock("config")>>

\* Manager.Save: marshal under the read lock, write the file after it.
Save == <<RLock("config"), Do("copy"), RUnlock("config"), Do("write")>>

\* Mutant: the configuration is copied before the update and installed after it.
PatchStaleCopy ==
  Authenticate \o <<Lock("config"), Do("patch"), Unlock("config")>> \o UpdateConfig \o Save

\* handlePatchConfig.
Patch == Authenticate \o Update \o Save \o GetConfig \o UpdateConfig

\* Manager.Load reads the file and saves it back, all under the lock.
Load == <<Lock("config"), Do("load"), Do("copy"), Do("write"), Unlock("config")>>

\* Manager.Reload calls onChange with the pointer, without the lock.
ReloadManager == Load \o <<RLock("config"), Do("point"), RUnlock("config")>> \o UpdateConfig

\* handleReloadConfig.
Reload == Authenticate \o ReloadManager

\* DNSClient.Query finds its upstream under the read lock.
FindUpstream == <<RLock("client"), RUnlock("client")>>

\* UpstreamStatuses keeps its read lock over one Query per upstream.
UpstreamStatuses == <<RLock("client")>> \o Repeat(FindUpstream) \o <<RUnlock("client")>>

\* handleStatus.
Status == Authenticate \o UpstreamStatuses \o GetConfig

\* Every reader of r.cfg takes the resolver's read lock for itself.
ReadCfg == <<RLock("resolver"), RUnlock("resolver")>>

\* A DNS query on the path to the default group: resolveWithRules,
\* forwardToDefault and forwardToGroup read r.cfg one after the other.
Query == ReadCfg \o ReadCfg \o ReadCfg \o FindUpstream

Handler(t) == CASE t \in Queries -> Query [] t \in Statuses -> Status
                [] t \in Patches -> Patch [] t \in Reloads -> Reload
-----------------------------------------------------------------------------
Init == /\ mutex = [m \in Mutexes |-> Unlocked]
        /\ pc = [t \in Threads |-> 1]
        /\ got = [t \in Threads |-> Copy(0)]
        /\ latest = 0 /\ rejected = FALSE /\ overtaken = FALSE
        /\ config = 0 /\ file = 0 /\ resolver = Copy(0)

Returned(t) == pc[t] > Len(Handler(t))
Op(t) == IF Returned(t) THEN <<"Returned", 0>> ELSE Handler(t)[pc[t]]
At(t, op) == Op(t)[1] = op

\* The handler moves on.  An API request is served once; there is always
\* another DNS query.
Advance(t) == pc' = [pc EXCEPT ![t] = IF t \in Queries /\ @ = Len(Query) THEN 1 ELSE @ + 1]
Data == <<got, latest, rejected, overtaken, config, file, resolver>>

StepRLock(t) ==
  /\ At(t, "RLock") /\ CanRLock(mutex[Op(t)[2]])
  /\ mutex' = [mutex EXCEPT ![Op(t)[2]] = RLocked(@, t)]
  /\ Advance(t) /\ UNCHANGED Data

StepRUnlock(t) ==
  /\ At(t, "RUnlock")
  /\ mutex' = [mutex EXCEPT ![Op(t)[2]] = RUnlocked(@, t)]
  /\ Advance(t) /\ UNCHANGED Data

StepAnnounce(t) ==
  /\ At(t, "Lock") /\ CanAnnounce(mutex[Op(t)[2]])
  /\ mutex' = [mutex EXCEPT ![Op(t)[2]] = Announced(@, t)]
  /\ UNCHANGED <<pc, Data>>

StepLock(t) ==
  /\ At(t, "Lock") /\ CanLock(mutex[Op(t)[2]], t)
  /\ mutex' = [mutex EXCEPT ![Op(t)[2]] = Locked(@)]
  /\ Advance(t) /\ UNCHANGED Data

StepUnlock(t) ==
  /\ At(t, "Unlock")
  /\ mutex' = [mutex EXCEPT ![Op(t)[2]] = WUnlocked(@)]
  /\ Advance(t) /\ UNCHANGED Data

Doing(t, what) == Op(t) = Do(what) /\ Advance(t) /\ UNCHANGED mutex

\* Get, or the marshalled bytes of Save: a private copy.
DoCopy(t) == /\ Doing(t, "copy")
             /\ got' = [got EXCEPT ![t] = Copy(config)]
             /\ UNCHANGED <<latest, rejected, overtaken, config, file, resolver>>

\* A reference to m.config itself.
DoPoint(t) == /\ Doing(t, "point")
              /\ got' = [got EXCEPT ![t] = [live |-> TRUE, version |-> config]]
              /\ UNCHANGED <<latest, rejected, overtaken, config, file, resolver>>

Owns(t) == mutex["config"].held /\ mutex["config"].announced = t

\* The reference a goroutine is going to install is in its hand already.
InHand(t) == \E j \in pc[t]..Len(Handler(t)) :
               /\ Handler(t)[j] = Do("install")
               /\ \A i \in pc[t]..(j - 1) : Handler(t)[i] \notin {Do("copy"), Do("point")}

\* m.config is changed while another goroutine, without the config lock, has in its hand
\* what it is going to install, and that is no longer what m.config says.
Overtakes(t) == \E u \in Threads \ {t} : InHand(u) /\ ~Owns(u) /\ Seen(got[u])' # config'

\* yaml.Unmarshal into m.config: whoever holds a live reference sees it.
DoPatch(t) == /\ Doing(t, "patch")
              /\ latest' = latest + 1
              /\ config' = latest + 1
              /\ UNCHANGED <<got, rejected, file, resolver>>
              /\ overtaken' = (overtaken \/ Overtakes(t))

\* A handler gives up: it leaves the config lock, if it has it, and answers.
GiveUp(t) ==
  /\ pc' = [pc EXCEPT ![t] = Len(Handler(t)) + 1]
  /\ mutex' = IF mutex["config"].held /\ mutex["config"].announced = t
              THEN [mutex EXCEPT !["config"] = WUnlocked(@)] ELSE mutex

\* yaml.Unmarshal reports a field of the wrong type after it has decoded all the
\* others into m.config: Update returns the error, nobody is told.
DoRejectedPatch(t) == /\ Op(t) = Do("patch") /\ t \in BadPatches
                      /\ latest' = latest + 1
                      /\ config' = latest + 1
                      /\ rejected' = TRUE
                      /\ GiveUp(t)
                      /\ UNCHANGED <<got, overtaken, file, resolver>>

\* Load cannot read or parse the file.
DoLoadFails(t) == Op(t) = Do("load") /\ GiveUp(t) /\ UNCHANGED Data

\* Load: m.config is a new object with what the file says; references to the
\* old object stay behind with what it said last.
DoLoad(t) == /\ Doing(t, "load")
             /\ config' = file
             /\ got' = [u \in Threads |-> Copy(Seen(got[u]))]
             /\ resolver' = Copy(Seen(resolver))
             /\ UNCHANGED <<latest, rejected, file>>
             /\ overtaken' = (overtaken \/ Overtakes(t))

\* os.WriteFile of the marshalled configuration.
DoWrite(t) == /\ Doing(t, "write")
              /\ file' = got[t].version
              /\ UNCHANGED <<latest, rejected, overtaken, got, config, resolver>>

\* The file cannot be written: a PATCH answers 500 and goes no further, Load
\* ignores the error.
DoWriteFails(t) == /\ Op(t) = Do("write") /\ DiskFails
                   /\ IF t \in Patches THEN GiveUp(t) ELSE Advance(t) /\ UNCHANGED mutex
                   /\ UNCHANGED Data

\* r.cfg = cfg
DoInstall(t) == /\ Doing(t, "install")
                /\ resolver' = got[t]
                /\ UNCHANGED <<latest, rejected, overtaken, got, config, file>>

Step(t) == \/ StepRLock(t) \/ StepRUnlock(t) \/ StepAnnounce(t) \/ StepLock(t) \/ StepUnlock(t)
           \/ DoCopy(t) \/ DoPoint(t) \/ DoInstall(t) \/ DoPatch(t) \/ DoRejectedPatch(t)
           \/ DoLoad(t) \/ DoLoadFails(t) \/ DoWrite(t) \/ DoWriteFails(t)

Next == \E t \in Threads : Step(t)

Spec == Init /\ [][Next]_vars

\* Go's scheduler runs every goroutine that can run, and a goroutine waiting for
\* an RWMutex gets it if it becomes free again and again: writers keep later
\* readers out, and Unlock lets the waiting readers in first.
FairSpec == Spec /\ \A t \in Threads : SF_vars(Step(t))
-----------------------------------------------------------------------------
TypeOK == /\ mutex \in [Mutexes -> Mutex]
          /\ \A t \in Threads : pc[t] \in 1..Len(Handler(t)) + 1
          /\ got \in [Threads -> Reference]
          /\ {latest, config, file} \subseteq Versions
          /\ resolver \in Reference /\ rejected \in BOOLEAN /\ overtaken \in BOOLEAN

\* No configuration change is under way.
Quiet == \A t \in Patches \cup Reloads : pc[t] = 1 \/ Returned(t)

\* api.go:284-296, resolver.go:128: when the changes have been answered the resolver
\* works with the configuration the manager holds, however the pointer handed out by
\* onChange and the copies made by Get were passed around, unless one of the changes was
\* rejected or has overtaken another one between its Get, or the pointer of a reload, and
\* its UpdateConfig.  What a PATCH installs under the config lock cannot be overtaken.
AppliedWhenQuiet == Quiet /\ ~rejected /\ ~overtaken => Seen(resolver) = config

\* client.go:166, 369, resolver.go:137: every request that has started, DNS query or
\* API call, is answered: no mutex is waited for in a circle.
EveryoneReturns == \A t \in Threads : pc[t] # 1 ~> (pc[t] = 1 \/ Returned(t))
=============================================================================
