------------------------------ MODULE Lifecycle ------------------------------
(***************************************************************************)
(* The life of the process: main starts the parts and waits for a signal,  *)
(* POST /restart stops and starts them again from a goroutine of its own,  *)
(* PATCH /config and POST /config/reload write or read the configuration   *)
(* file and exchange the update schedule meanwhile, and the process may be *)
(* killed at any point; the service manager starts it again.               *)
(*                                                                         *)
(* As in HotReload a handler is the sequence of what it does, and          *)
(* goroutines interleave after every element.  Only the parts whose order  *)
(* matters here are elements: the config lock, the file, the updater's     *)
(* unguarded pointer u.cron, and the servers.  The UDP and the TCP server  *)
(* are one; the addresses to listen on do not change; every cron           *)
(* expression is valid; a PATCH leaves the secret alone.                   *)
(*                                                                         *)
(* A configuration is a version of the settings, 0 for the defaults, and   *)
(* the number of a secret, 0 for none.                                     *)
(***************************************************************************)
EXTENDS Integers, FiniteSets, Sequences, SequencesExt, Functions

CONSTANTS Restarts, Patches, Reloads,  \* the requests; each is made at most once
          Disabled,     \* versions with server.enabled off; the defaults are one
          Unscheduled,  \* versions with geo.auto_update off
          FileMissing,  \* whether there may be no configuration file at first
          MaxBoots,     \* bound: how often the process is started
          MaxCrashes,   \* bound: how often it is killed
          MaxRequests   \* bound: how many of the requests are made

ASSUME LifecycleConstants ==
  /\ 0 \in Disabled /\ Disabled \subseteq Nat /\ Unscheduled \subseteq Nat
  /\ FileMissing \in BOOLEAN /\ {MaxBoots, MaxCrashes, MaxRequests} \subseteq Nat
  /\ Restarts \cap Patches = {} /\ Restarts \cap Reloads = {} /\ Patches \cap Reloads = {}
  /\ {"main", "none"} \cap (Restarts \cup Patches \cup Reloads) = {}

VARIABLES pc,        \* the position of every goroutine in its handler
          mine,      \* the configuration a goroutine works with
          data,      \* the bytes a goroutine is to write
          file,      \* the configuration file
          config,    \* m.config
          lock,      \* who holds m.mu for writing
          secrets,   \* how many secrets there have been
          dns, api,  \* the two servers
          cron,      \* u.cron, the number of a cron object, 0 for nil
          crons,     \* the cron objects
          process,   \* whether the process runs, how often it was started and killed
          wanted,    \* the version of the last PATCH that changed m.config
          applied,   \* the version of the last schedule
          hist       \* what has happened that the properties make exceptions for

proc == <<pc, mine, data>>
store == <<file, config, lock, secrets>>
servers == <<dns, api>>
schedule == <<cron, crons, applied>>
vars == <<proc, store, servers, schedule, process, wanted, hist>>

Threads == {"main"} \cup Restarts \cup Patches \cup Reloads
Requests == Patches \cup Reloads

Nothing == [v |-> 0, secret |-> 0]
Text(c) == [kind |-> "text", v |-> c.v, secret |-> c.secret]
Absent == [kind |-> "absent", v |-> 0, secret |-> 0]
Empty == [kind |-> "empty", v |-> 0, secret |-> 0]
Torn == [kind |-> "torn", v |-> 0, secret |-> 0]
-----------------------------------------------------------------------------
Do(what) == <<what, 0>>

\* Updater.Stop: if u.cron != nil { u.cron.Stop() }.
UpdaterStop == << <<"check", 1>>, Do("stop")>>

\* Updater.Reconfigure reads u.cron again for every use of it.
Reconfigure == << <<"check", 2>>, Do("stop"), Do("nil"), <<"new", 2>>, Do("add"), Do("start")>>

\* Mutant: the lock is released before the file is saved.
LoadUnlocked == <<Do("read"), Do("unlock"), Do("truncate"), Do("write")>>

\* Manager.Load, under the lock; os.WriteFile is open with O_TRUNC and then write.
Load == <<Do("read"), Do("truncate"), Do("write")>>

\* Manager.Save.
Save == <<Do("marshal"), Do("truncate"), Do("write")>>

\* main, until it waits for a signal, ...
Startup == Load \o <<Do("get"), <<"new", 1>>, Do("add"), Do("dnsStart"),
                     <<"check", 1>>, Do("start"), Do("apiStart")>>
\* ... and from there.
Shutdown == <<Do("signal")>> \o UpdaterStop \o <<Do("dnsStop"), Do("apiStop"), Do("exit")>>

\* Mutant: the old schedule is not stopped and the new one only added.
RestartKeeping ==
  <<Do("request"), Do("dnsStop"), Do("apiStop")>> \o Load
    \o <<Do("get"), Do("dnsStart"), <<"new", 2>>, Do("add"), Do("start"), Do("apiStart")>>

\* The function main gives to SetRestartFunc.
Restart == <<Do("request")>> \o UpdaterStop \o <<Do("dnsStop"), Do("apiStop")>> \o Load
             \o <<Do("get"), Do("dnsStart")>> \o Reconfigure \o <<Do("apiStart")>>

\* handlePatchConfig; Update calls onChange under the lock.
Patch == <<Do("request"), Do("update")>> \o Reconfigure \o <<Do("unlock")>> \o Save

\* handleReloadConfig; Reload calls onChange without the lock.
Reload == <<Do("request")>> \o Load \o <<Do("get")>> \o Reconfigure

Handler == [t \in Threads |-> CASE t \in Restarts -> Restart [] t \in Patches -> Patch
                                [] t \in Reloads -> Reload [] OTHER -> Startup \o Shutdown]

End(t) == Len(Handler[t]) + 1
Op(t) == IF pc[t] < End(t) THEN Handler[t][pc[t]] ELSE Do("over")
InFlight(t) == pc[t] > 1 /\ pc[t] < End(t)
At(t, what) == process.up /\ Op(t)[1] = what

\* A goroutine goes on; at the end of its handler it has nothing in its hands.
Move(t, n, m, d) ==
  LET over == pc[t] + n >= End(t)
  IN /\ pc' = [pc EXCEPT ![t] = @ + n]
     /\ mine' = [mine EXCEPT ![t] = IF over THEN Nothing ELSE m]
     /\ data' = [data EXCEPT ![t] = IF over THEN Nothing ELSE d]
Jump(t, n) == Move(t, n, mine[t], data[t])
-----------------------------------------------------------------------------
NewDNS == [running |-> FALSE, closed |-> FALSE, gen |-> 0, starting |-> 0, bound |-> 0]
NewAPI == [gen |-> 0, shut |-> FALSE, starting |-> 0, bound |-> 0]
NoHistory == [disturbed |-> FALSE, torn |-> FALSE, raced |-> FALSE, restarted |-> FALSE, panic |-> "no"]

Init == /\ pc = [t \in Threads |-> 1]
        /\ mine = [t \in Threads |-> Nothing] /\ data = [t \in Threads |-> Nothing]
        /\ file \in {Text([v |-> 1, secret |-> 1])} \cup (IF FileMissing THEN {Absent} ELSE {})
        /\ config = Nothing /\ lock = "none" /\ secrets = file.secret
        /\ dns = NewDNS /\ api = NewAPI
        /\ cron = 0 /\ crons = <<>> /\ applied = 0
        /\ process = [up |-> TRUE, boots |-> 1, crashes |-> 0]
        /\ wanted = file.v
        /\ hist = NoHistory

\* A goroutine that has emptied the file and not yet written it.
Writing(t) == process.up /\ Op(t)[1] = "write" /\ data[t] # Nothing

\* What is in the file when the process ends while it is being written: nothing, or a
\* part that does not parse.  (A part that parses leaves defaults, as nothing does.)
Leftover == IF \E t \in Threads : Writing(t) THEN {file, Torn} ELSE {file}

\* A change that a second one, a read of the file or the end of the process
\* disturbs: a PATCH from its update to the end of its write, or the write of Load.
Changing(t) == Writing(t) \/ (t \in Patches /\ mine[t] # Nothing)
Disturbs(t) == hist.disturbed \/ \E u \in Threads \ {t} : Changing(u)

\* The process ends, and every goroutine with it.
Die(why) ==
  /\ process' = [process EXCEPT !.up = FALSE, !.crashes = IF why = "killed" THEN @ + 1 ELSE @]
  /\ file' \in Leftover
  /\ hist' = [hist EXCEPT !.panic = why, !.disturbed = Disturbs("none")]
  /\ pc' = [t \in Threads |-> IF InFlight(t) \/ t = "main" THEN End(t) ELSE pc[t]]
  /\ mine' = [t \in Threads |-> Nothing] /\ data' = [t \in Threads |-> Nothing]
  /\ config' = Nothing /\ lock' = "none" /\ dns' = NewDNS /\ api' = NewAPI
  /\ cron' = 0 /\ crons' = <<>> /\ applied' = 0
  /\ UNCHANGED <<secrets, wanted>>

\* kill -9, or the power goes.
Crash == process.up /\ process.crashes < MaxCrashes /\ Die("killed")

\* The service manager starts the process again.
Boot ==
  /\ ~process.up /\ process.boots < MaxBoots
  /\ process' = [process EXCEPT !.up = TRUE, !.boots = @ + 1]
  /\ pc' = [pc EXCEPT !["main"] = 1]
  /\ hist' = [NoHistory EXCEPT !.disturbed = hist.disturbed]
  /\ UNCHANGED <<mine, data, store, servers, schedule, wanted>>

\* A goroutine panics: middleware.Recoverer catches it in a request, and the deferred
\* unlock runs; anywhere else it ends the process.
Panic(t, why) ==
  IF t \in Requests
  THEN /\ pc' = [pc EXCEPT ![t] = End(t)]
       /\ mine' = [mine EXCEPT ![t] = Nothing]
       /\ lock' = IF lock = t THEN "none" ELSE lock
       /\ hist' = [hist EXCEPT !.disturbed = @ \/ t \in Patches]
       /\ UNCHANGED <<data, file, config, secrets, servers, schedule, process, wanted>>
  ELSE Die(why)
-----------------------------------------------------------------------------
\* The request arrives, or main's signal.
Request(t) ==
  /\ At(t, "request") /\ api.bound # 0
  /\ Cardinality({u \in Threads \ {"main"} : pc[u] > 1}) < MaxRequests
  /\ Jump(t, 1) /\ UNCHANGED <<store, servers, schedule, process, wanted, hist>>

Signal(t) ==
  /\ At(t, "signal")
  /\ Jump(t, 1) /\ UNCHANGED <<store, servers, schedule, process, wanted, hist>>

Exit(t) == At(t, "exit") /\ Die("exit")

Unlock(t) ==
  /\ At(t, "unlock")
  /\ lock' = "none"
  /\ Jump(t, 1)
  /\ UNCHANGED <<file, config, secrets, servers, schedule, process, wanted, hist>>

\* Load: the file over the defaults, with a secret.
Loaded == [v |-> file.v, secret |-> IF file.secret = 0 THEN secrets + 1 ELSE file.secret]

\* Load takes the lock and reads the file.  It saves what it has read, but nothing if there was no
\* file; if the file does not parse it reports an error, which ends a reload and
\* which main and the restart go on from.
Read(t) ==
  /\ At(t, "read") /\ lock = "none"
  /\ IF file = Torn
     THEN /\ IF t \in Reloads THEN Move(t, End(t) - pc[t], Nothing, Nothing) /\ UNCHANGED lock
             ELSE Move(t, 1, mine[t], Nothing) /\ lock' = t
          /\ UNCHANGED <<config, secrets>>
     ELSE /\ config' = Loaded
          /\ secrets' = IF Loaded.secret > secrets THEN secrets + 1 ELSE secrets
          /\ Move(t, 1, mine[t], IF file = Absent THEN Nothing ELSE Loaded)
          /\ lock' = t
  /\ hist' = [hist EXCEPT !.disturbed = Disturbs(t), !.torn = @ \/ file = Torn]
  /\ UNCHANGED <<file, servers, schedule, process, wanted>>

\* os.WriteFile opens the file and cuts it, ...
Truncate(t) ==
  /\ At(t, "truncate")
  /\ file' = IF data[t] = Nothing THEN file ELSE Empty
  /\ Jump(t, 1)
  /\ UNCHANGED <<config, lock, secrets, servers, schedule, process, wanted, hist>>

\* ... and writes at its start; what a second writer has put there meanwhile may be
\* longer.  Load returns then and unlocks.
Write(t) ==
  /\ At(t, "write")
  /\ IF data[t] = Nothing THEN UNCHANGED file
     ELSE file' \in {Text(data[t])} \cup (IF file = Empty THEN {} ELSE {Torn})
  /\ Move(t, 1, mine[t], Nothing)
  /\ lock' = IF lock = t THEN "none" ELSE lock
  /\ UNCHANGED <<config, secrets, servers, schedule, process, wanted, hist>>

\* Get, and the read-locked part of Reload.
Get(t) ==
  /\ At(t, "get") /\ lock = "none"
  /\ Move(t, 1, config, data[t])
  /\ UNCHANGED <<store, servers, schedule, process, wanted, hist>>

\* Mutant: the secret is left out, as it is from the answer of GET /config.
MarshalMasked(t) ==
  /\ At(t, "marshal") /\ lock = "none"
  /\ Move(t, 1, mine[t], [config EXCEPT !.secret = 0])
  /\ UNCHANGED <<store, servers, schedule, process, wanted, hist>>

Marshal(t) ==
  /\ At(t, "marshal") /\ lock = "none"
  /\ Move(t, 1, mine[t], config)
  /\ UNCHANGED <<store, servers, schedule, process, wanted, hist>>

\* Update takes the lock and unmarshals the patch into m.config.
Update(t) ==
  /\ At(t, "update") /\ lock = "none"
  /\ config' = [config EXCEPT !.v = wanted + 1] /\ wanted' = wanted + 1
  /\ Move(t, 1, config', data[t])
  /\ hist' = [hist EXCEPT !.disturbed = Disturbs(t)]
  /\ lock' = t
  /\ UNCHANGED <<file, secrets, servers, schedule, process>>
-----------------------------------------------------------------------------
\* Another goroutine is between two uses of u.cron.
Races(t) == hist.raced \/ \E u \in Threads \ {t} : Op(u)[1] \in {"stop", "nil", "new", "add", "start"}
Scheduling(t) == hist' = [hist EXCEPT !.raced = Races(t)] /\ UNCHANGED <<store, servers, process, wanted>>

\* Mutant: u.cron is used without a look at it.
CheckNothing(t) ==
  /\ At(t, "check")
  /\ Jump(t, 1)
  /\ UNCHANGED schedule /\ Scheduling(t)

\* if u.cron != nil
Check(t) ==
  /\ At(t, "check")
  /\ Jump(t, IF cron = 0 THEN Op(t)[2] + 1 ELSE 1)
  /\ UNCHANGED schedule /\ Scheduling(t)

\* u.cron.Stop(), u.cron.AddFunc() and u.cron.Start(): nil panics.
Use(t, what, c) ==
  /\ At(t, what)
  /\ IF cron = 0 THEN Panic(t, "cron")
     ELSE /\ crons' = [crons EXCEPT ![cron] = c]
          /\ Jump(t, 1)
          /\ UNCHANGED <<cron, applied>> /\ Scheduling(t)

Current == IF cron = 0 THEN [on |-> FALSE, jobs |-> 0] ELSE crons[cron]
StopCron(t) == Use(t, "stop", [Current EXCEPT !.on = FALSE])
AddFunc(t) == Use(t, "add", [Current EXCEPT !.jobs = @ + 1])
StartCron(t) == Use(t, "start", [Current EXCEPT !.on = TRUE])

\* u.cron = nil
NilCron(t) ==
  /\ At(t, "nil")
  /\ cron' = 0
  /\ Jump(t, 1)
  /\ UNCHANGED <<crons, applied>> /\ Scheduling(t)

\* u.cron = cron.New(), if an automatic update is configured.
NewCron(t) ==
  /\ At(t, "new")
  /\ applied' = mine[t].v
  /\ IF mine[t].v \in Unscheduled THEN Jump(t, Op(t)[2] + 1) /\ UNCHANGED <<cron, crons>>
     ELSE /\ crons' = Append(crons, [on |-> FALSE, jobs |-> 0]) /\ cron' = Len(crons) + 1
          /\ Jump(t, 1)
  /\ Scheduling(t)
-----------------------------------------------------------------------------
\* DNSServer.Start: two goroutines will call ListenAndServe of the new servers.
DNSStart(t) ==
  /\ At(t, "dnsStart")
  /\ dns' = IF mine[t].v \in Disabled \/ dns.running THEN dns
            ELSE [dns EXCEPT !.running = TRUE, !.gen = @ + 1, !.starting = @ + 1]
  /\ Jump(t, 1)
  /\ UNCHANGED <<store, api, schedule, process, wanted, hist>>

\* Mutant: the server is not marked as stopped.
DNSStopRunning(t) ==
  /\ At(t, "dnsStop")
  /\ dns' = [dns EXCEPT !.bound = IF @ = dns.gen THEN 0 ELSE @]
  /\ hist' = [hist EXCEPT !.restarted = TRUE]
  /\ Jump(t, 1) /\ UNCHANGED <<store, api, schedule, process, wanted>>

\* DNSServer.Stop: Shutdown of a server that does not listen yet is an error nobody
\* looks at, and stopCh, made once, can be closed once.
DNSStop(t) ==
  /\ At(t, "dnsStop")
  /\ IF dns.running /\ dns.closed THEN Panic(t, "stopCh")
     ELSE /\ dns' = IF ~dns.running THEN dns
                    ELSE [dns EXCEPT !.running = FALSE, !.closed = TRUE,
                                     !.bound = IF @ = dns.gen THEN 0 ELSE @]
          /\ hist' = [hist EXCEPT !.restarted = @ \/ t \in Restarts]
          /\ Jump(t, 1) /\ UNCHANGED <<store, api, schedule, process, wanted>>

\* s.udp.ListenAndServe: of the server s.udp is by now; the address may be taken.
DNSBind ==
  /\ process.up /\ dns.starting > 0
  /\ dns' = [dns EXCEPT !.starting = @ - 1, !.bound = IF @ = 0 THEN dns.gen ELSE @]
  /\ UNCHANGED <<proc, store, api, schedule, process, wanted, hist>>

\* api.Server.Start.
APIStart(t) ==
  /\ At(t, "apiStart")
  /\ api' = [api EXCEPT !.gen = @ + 1, !.shut = FALSE, !.starting = @ + 1]
  /\ Jump(t, 1)
  /\ UNCHANGED <<store, dns, schedule, process, wanted, hist>>

\* api.Server.Stop: Shutdown closes the listener and waits for the requests, but at
\* most ten seconds.
APIStop(t) ==
  /\ At(t, "apiStop")
  /\ api' = [api EXCEPT !.shut = TRUE, !.bound = IF @ = api.gen THEN 0 ELSE @]
  /\ Jump(t, 1)
  /\ UNCHANGED <<store, dns, schedule, process, wanted, hist>>

\* s.server.ListenAndServe returns at once if the server has been shut down.
APIBind ==
  /\ process.up /\ api.starting > 0
  /\ api' = [api EXCEPT !.starting = @ - 1, !.bound = IF @ = 0 /\ ~api.shut THEN api.gen ELSE @]
  /\ UNCHANGED <<proc, store, dns, schedule, process, wanted, hist>>
-----------------------------------------------------------------------------
\* What a goroutine does without waiting for the outside.
Step(t) == \/ Exit(t) \/ Unlock(t) \/ Read(t) \/ Truncate(t) \/ Write(t)
           \/ Get(t) \/ Marshal(t) \/ Update(t)
           \/ Check(t) \/ StopCron(t) \/ AddFunc(t) \/ StartCron(t) \/ NilCron(t) \/ NewCron(t)
           \/ DNSStart(t) \/ DNSStop(t) \/ APIStart(t) \/ APIStop(t)

\* The process has ended and is not started again.
Ended == ~process.up /\ process.boots = MaxBoots /\ UNCHANGED vars

Run == (\E t \in Threads : Step(t)) \/ DNSBind \/ APIBind

Next == Run \/ (\E t \in Threads : Request(t) \/ Signal(t)) \/ Crash \/ Boot \/ Ended

Spec == Init /\ [][Next]_vars

\* Some goroutine runs as long as one can; each has a finite way to go.
FairSpec == Spec /\ WF_vars(Run)
-----------------------------------------------------------------------------
Settings == [v : 0..wanted, secret : 0..secrets]
TypeOK ==
  /\ pc \in [Threads -> Nat] /\ \A t \in Threads : pc[t] \in 1..End(t)
  /\ mine \in [Threads -> Settings] /\ data \in [Threads -> Settings] /\ config \in Settings
  /\ file \in {Absent, Empty, Torn} \cup [kind : {"text"}, v : 0..wanted, secret : 0..secrets]
  /\ lock \in Threads \cup {"none"} /\ secrets \in Nat /\ wanted \in Nat
  /\ dns \in [running : BOOLEAN, closed : BOOLEAN, gen : Nat, starting : Nat, bound : Nat]
  /\ api \in [gen : Nat, shut : BOOLEAN, starting : Nat, bound : Nat]
  /\ dns.bound <= dns.gen /\ api.bound <= api.gen
  /\ crons \in Seq([on : BOOLEAN, jobs : Nat]) /\ cron \in 0..Len(crons) /\ applied \in 0..wanted
  /\ process \in [up : BOOLEAN, boots : Nat, crashes : 0..MaxCrashes]
  /\ hist \in [disturbed : BOOLEAN, torn : BOOLEAN, raced : BOOLEAN, restarted : BOOLEAN,
               panic : {"no", "killed", "exit", "cron", "stopCh"}]

\* main waits for a signal, and no request is being served.
Quiet == /\ process.up /\ pc["main"] = Len(Startup) + 1
         /\ \A t \in Threads \ {"main"} : ~InFlight(t)

\* config.go:198, 229, 240: whatever is restarted, reloaded or killed, the settings last accepted are in
\* force and in the file, unless another change, a read of the file or the end of the process
\* fell into the change itself.
AcceptedKept == Quiet /\ ~hist.disturbed =>
                  config.v = wanted /\ (file = Absent \/ (file.kind = "text" /\ file.v = wanted))

\* config.go:197, 211, api.go:153: clients keep their access, and only they have it, over restarts,
\* crashes and changes: a new secret is made up only while there is no file, unless a change was
\* disturbed, and the API is open to everyone only if the file did not parse.
AccessKept ==
  [][ /\ secrets' # secrets => file = Absent \/ hist'.disturbed
      /\ api'.bound # 0 /\ config'.secret = 0 => hist'.torn ]_vars

\* The jobs of the cron objects that run, numbered in each.
Jobs == UNION {{i} \X (1..crons[i].jobs) : i \in {j \in DOMAIN crons : crons[j].on}}

\* updater.go:71-110: the configured schedule runs, once, unless two goroutines have exchanged it
\* at the same time; and even then it runs.
ScheduledOnce ==
  Quiet => /\ applied \notin Unscheduled => Jobs # {}
           /\ ~hist.raced => Cardinality(Jobs) = IF applied \in Unscheduled THEN 0 ELSE 1

\* server.go:117, updater.go:78, 86: the process panics only if POST /restart has stopped the
\* DNS server before, or if two goroutines have exchanged the schedule at the same time.
PanicExplained == /\ hist.panic = "stopCh" => hist.restarted
                  /\ hist.panic = "cron" => hist.raced

Restarting == \E t \in Restarts : InFlight(t)
Deaf == dns.running /\ dns.bound = 0

\* main.go:190-230, server.go:41, 96: restarts come to their end, the API is served again, and a
\* DNS server that runs listens, unless the process ends.
BackInService == Restarting \/ Deaf ~> ~process.up \/ (~Restarting /\ ~Deaf /\ api.bound # 0)
=============================================================================
