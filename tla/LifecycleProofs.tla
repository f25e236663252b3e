---------------------------- MODULE LifecycleProofs ----------------------------
(***************************************************************************)
(* What the process keeps over restarts, crashes and changes, for any      *)
(* number of requests, starts and crashes, and whichever versions of the   *)
(* settings disable the server or the schedule.                            *)
(***************************************************************************)
EXTENDS Lifecycle, SequenceTheorems, FiniteSetTheorems, TLAPS

\* The handlers, element by element.
LEMMA MainIs ==
  LET h == Startup \o Shutdown
  IN /\ Len(h) = 16 /\ h[1] = Do("read") /\ h[2] = Do("truncate") /\ h[3] = Do("write") /\ h[4] = Do("get")
     /\ h[5] = <<"new", 1>> /\ h[6] = Do("add") /\ h[7] = Do("dnsStart") /\ h[8] = <<"check", 1>>
     /\ h[9] = Do("start") /\ h[10] = Do("apiStart") /\ h[11] = Do("signal") /\ h[12] = <<"check", 1>>
     /\ h[13] = Do("stop") /\ h[14] = Do("dnsStop") /\ h[15] = Do("apiStop") /\ h[16] = Do("exit")
BY DEF Startup, Shutdown, Load, UpdaterStop

LEMMA RestartIs ==
  LET h == Restart
  IN /\ Len(h) = 17 /\ h[1] = Do("request") /\ h[2] = <<"check", 1>> /\ h[3] = Do("stop")
     /\ h[4] = Do("dnsStop") /\ h[5] = Do("apiStop") /\ h[6] = Do("read") /\ h[7] = Do("truncate")
     /\ h[8] = Do("write") /\ h[9] = Do("get") /\ h[10] = Do("dnsStart") /\ h[11] = <<"check", 2>>
     /\ h[12] = Do("stop") /\ h[13] = Do("nil") /\ h[14] = <<"new", 2>> /\ h[15] = Do("add")
     /\ h[16] = Do("start") /\ h[17] = Do("apiStart")
BY DEF Restart, Load, UpdaterStop, Reconfigure

LEMMA PatchIs ==
  LET h == Patch
  IN /\ Len(h) = 12 /\ h[1] = Do("request") /\ h[2] = Do("update") /\ h[3] = <<"check", 2>>
     /\ h[4] = Do("stop") /\ h[5] = Do("nil") /\ h[6] = <<"new", 2>> /\ h[7] = Do("add")
     /\ h[8] = Do("start") /\ h[9] = Do("unlock") /\ h[10] = Do("marshal") /\ h[11] = Do("truncate")
     /\ h[12] = Do("write")
BY DEF Patch, Save, Reconfigure

LEMMA ReloadIs ==
  LET h == Reload
  IN /\ Len(h) = 11 /\ h[1] = Do("request") /\ h[2] = Do("read") /\ h[3] = Do("truncate")
     /\ h[4] = Do("write") /\ h[5] = Do("get") /\ h[6] = <<"check", 2>> /\ h[7] = Do("stop")
     /\ h[8] = Do("nil") /\ h[9] = <<"new", 2>> /\ h[10] = Do("add") /\ h[11] = Do("start")
BY DEF Reload, Load, Reconfigure

Element(t, k) == IF k < End(t) THEN Handler[t][k] ELSE Do("over")

LEMMA Kinds ==
  ASSUME NEW t
  PROVE  /\ t \in Threads => t = "main" \/ t \in Restarts \/ t \in Patches \/ t \in Reloads
         /\ t = "main" => t \in Threads /\ t \notin Restarts /\ t \notin Patches /\ t \notin Reloads
         /\ t \in Restarts => t \in Threads /\ t # "main" /\ t \notin Patches /\ t \notin Reloads
         /\ t \in Patches => t \in Threads /\ t # "main" /\ t \notin Restarts /\ t \notin Reloads
         /\ t \in Reloads => t \in Threads /\ t # "main" /\ t \notin Restarts /\ t \notin Patches
         /\ t \in Threads => t # "none"
<1>1. "main" # "none"  OBVIOUS
<1> QED  BY <1>1, LifecycleConstants DEF Threads

LEMMA MainAt ==
  ASSUME NEW t, t = "main"
  PROVE  /\ End(t) = 17
         /\ Element(t, 1) = Do("read") /\ Element(t, 2) = Do("truncate") /\ Element(t, 3) = Do("write")
         /\ Element(t, 4) = Do("get") /\ Element(t, 5) = <<"new", 1>> /\ Element(t, 6) = Do("add")
         /\ Element(t, 7) = Do("dnsStart") /\ Element(t, 8) = <<"check", 1>>
         /\ Element(t, 9) = Do("start") /\ Element(t, 10) = Do("apiStart")
         /\ Element(t, 11) = Do("signal") /\ Element(t, 12) = <<"check", 1>>
         /\ Element(t, 13) = Do("stop") /\ Element(t, 14) = Do("dnsStop")
         /\ Element(t, 15) = Do("apiStop") /\ Element(t, 16) = Do("exit")
         /\ Element(t, 17) = Do("over")
<1> DEFINE h == Startup \o Shutdown
<1>1. Handler[t] = h  BY Kinds DEF Handler
<1>2. Len(h) = 16  BY MainIs
<1>3. End(t) = 17  BY <1>1, <1>2 DEF End
<1>4. \A k \in 1..16 : Element(t, k) = h[k]
  <2> HIDE DEF h
  <2> QED  BY <1>1, <1>3 DEF Element
<1>5. Element(t, 17) = Do("over")  BY <1>3 DEF Element
<1>6. /\ h[1] = Do("read") /\ h[2] = Do("truncate") /\ h[3] = Do("write") /\ h[4] = Do("get")
      /\ h[5] = <<"new", 1>> /\ h[6] = Do("add") /\ h[7] = Do("dnsStart") /\ h[8] = <<"check", 1>>
      /\ h[9] = Do("start") /\ h[10] = Do("apiStart") /\ h[11] = Do("signal") /\ h[12] = <<"check", 1>>
      /\ h[13] = Do("stop") /\ h[14] = Do("dnsStop") /\ h[15] = Do("apiStop") /\ h[16] = Do("exit")
  BY MainIs
<1> HIDE DEF h
<1> QED  BY <1>3, <1>4, <1>5, <1>6

LEMMA RestartAt ==
  ASSUME NEW t, t \in Restarts
  PROVE  /\ End(t) = 18
         /\ Element(t, 1) = Do("request") /\ Element(t, 2) = <<"check", 1>>
         /\ Element(t, 3) = Do("stop") /\ Element(t, 4) = Do("dnsStop")
         /\ Element(t, 5) = Do("apiStop") /\ Element(t, 6) = Do("read")
         /\ Element(t, 7) = Do("truncate") /\ Element(t, 8) = Do("write") /\ Element(t, 9) = Do("get")
         /\ Element(t, 10) = Do("dnsStart") /\ Element(t, 11) = <<"check", 2>>
         /\ Element(t, 12) = Do("stop") /\ Element(t, 13) = Do("nil") /\ Element(t, 14) = <<"new", 2>>
         /\ Element(t, 15) = Do("add") /\ Element(t, 16) = Do("start")
         /\ Element(t, 17) = Do("apiStart") /\ Element(t, 18) = Do("over")
<1> DEFINE h == Restart
<1>1. Handler[t] = h  BY Kinds DEF Handler
<1>2. Len(h) = 17  BY RestartIs
<1>3. End(t) = 18  BY <1>1, <1>2 DEF End
<1>4. \A k \in 1..17 : Element(t, k) = h[k]
  <2> HIDE DEF h
  <2> QED  BY <1>1, <1>3 DEF Element
<1>5. Element(t, 18) = Do("over")  BY <1>3 DEF Element
<1>6. /\ h[1] = Do("request") /\ h[2] = <<"check", 1>> /\ h[3] = Do("stop") /\ h[4] = Do("dnsStop")
      /\ h[5] = Do("apiStop") /\ h[6] = Do("read") /\ h[7] = Do("truncate") /\ h[8] = Do("write")
      /\ h[9] = Do("get") /\ h[10] = Do("dnsStart") /\ h[11] = <<"check", 2>> /\ h[12] = Do("stop")
      /\ h[13] = Do("nil") /\ h[14] = <<"new", 2>> /\ h[15] = Do("add") /\ h[16] = Do("start")
      /\ h[17] = Do("apiStart")
  BY RestartIs
<1> HIDE DEF h
<1> QED  BY <1>3, <1>4, <1>5, <1>6

LEMMA PatchAt ==
  ASSUME NEW t, t \in Patches
  PROVE  /\ End(t) = 13
         /\ Element(t, 1) = Do("request") /\ Element(t, 2) = Do("update")
         /\ Element(t, 3) = <<"check", 2>> /\ Element(t, 4) = Do("stop") /\ Element(t, 5) = Do("nil")
         /\ Element(t, 6) = <<"new", 2>> /\ Element(t, 7) = Do("add") /\ Element(t, 8) = Do("start")
         /\ Element(t, 9) = Do("unlock") /\ Element(t, 10) = Do("marshal")
         /\ Element(t, 11) = Do("truncate") /\ Element(t, 12) = Do("write")
         /\ Element(t, 13) = Do("over")
<1> DEFINE h == Patch
<1>1. Handler[t] = h  BY Kinds DEF Handler
<1>2. Len(h) = 12  BY PatchIs
<1>3. End(t) = 13  BY <1>1, <1>2 DEF End
<1>4. \A k \in 1..12 : Element(t, k) = h[k]
  <2> HIDE DEF h
  <2> QED  BY <1>1, <1>3 DEF Element
<1>5. Element(t, 13) = Do("over")  BY <1>3 DEF Element
<1>6. /\ h[1] = Do("request") /\ h[2] = Do("update") /\ h[3] = <<"check", 2>> /\ h[4] = Do("stop")
      /\ h[5] = Do("nil") /\ h[6] = <<"new", 2>> /\ h[7] = Do("add") /\ h[8] = Do("start")
      /\ h[9] = Do("unlock") /\ h[10] = Do("marshal") /\ h[11] = Do("truncate") /\ h[12] = Do("write")
  BY PatchIs
<1> HIDE DEF h
<1> QED  BY <1>3, <1>4, <1>5, <1>6

LEMMA ReloadAt ==
  ASSUME NEW t, t \in Reloads
  PROVE  /\ End(t) = 12
         /\ Element(t, 1) = Do("request") /\ Element(t, 2) = Do("read")
         /\ Element(t, 3) = Do("truncate") /\ Element(t, 4) = Do("write") /\ Element(t, 5) = Do("get")
         /\ Element(t, 6) = <<"check", 2>> /\ Element(t, 7) = Do("stop") /\ Element(t, 8) = Do("nil")
         /\ Element(t, 9) = <<"new", 2>> /\ Element(t, 10) = Do("add") /\ Element(t, 11) = Do("start")
         /\ Element(t, 12) = Do("over")
<1> DEFINE h == Reload
<1>1. Handler[t] = h  BY Kinds DEF Handler
<1>2. Len(h) = 11  BY ReloadIs
<1>3. End(t) = 12  BY <1>1, <1>2 DEF End
<1>4. \A k \in 1..11 : Element(t, k) = h[k]
  <2> HIDE DEF h
  <2> QED  BY <1>1, <1>3 DEF Element
<1>5. Element(t, 12) = Do("over")  BY <1>3 DEF Element
<1>6. /\ h[1] = Do("request") /\ h[2] = Do("read") /\ h[3] = Do("truncate") /\ h[4] = Do("write")
      /\ h[5] = Do("get") /\ h[6] = <<"check", 2>> /\ h[7] = Do("stop") /\ h[8] = Do("nil")
      /\ h[9] = <<"new", 2>> /\ h[10] = Do("add") /\ h[11] = Do("start")
  BY ReloadIs
<1> HIDE DEF h
<1> QED  BY <1>3, <1>4, <1>5, <1>6

Doing(t, k) == Element(t, k)[1]

\* Where in its handler a goroutine does what.
LEMMA Where ==
  ASSUME NEW t \in Threads, NEW k \in 1..End(t)
  PROVE
  /\ Doing(t, k) = "read" =>
       (t = "main" /\ k = 1) \/ (t \in Restarts /\ k = 6) \/ (t \in Reloads /\ k = 2)
  /\ Doing(t, k) = "truncate" =>
       (t = "main" /\ k = 2) \/ (t \in Restarts /\ k = 7) \/ (t \in Patches /\ k = 11)
       \/ (t \in Reloads /\ k = 3)
  /\ Doing(t, k) = "write" =>
       (t = "main" /\ k = 3) \/ (t \in Restarts /\ k = 8) \/ (t \in Patches /\ k = 12)
       \/ (t \in Reloads /\ k = 4)
  /\ Doing(t, k) = "get" =>
       (t = "main" /\ k = 4) \/ (t \in Restarts /\ k = 9) \/ (t \in Reloads /\ k = 5)
  /\ Doing(t, k) = "new" =>
       (t = "main" /\ k = 5 /\ Element(t, k)[2] = 1)
       \/ (t \in Restarts /\ k = 14 /\ Element(t, k)[2] = 2)
       \/ (t \in Patches /\ k = 6 /\ Element(t, k)[2] = 2)
       \/ (t \in Reloads /\ k = 9 /\ Element(t, k)[2] = 2)
  /\ Doing(t, k) = "add" =>
       (t = "main" /\ k = 6) \/ (t \in Restarts /\ k = 15) \/ (t \in Patches /\ k = 7)
       \/ (t \in Reloads /\ k = 10)
  /\ Doing(t, k) = "dnsStart" =>
       (t = "main" /\ k = 7) \/ (t \in Restarts /\ k = 10)
  /\ Doing(t, k) = "check" =>
       (t = "main" /\ k \in {8, 12} /\ Element(t, k)[2] = 1)
       \/ (t \in Restarts /\ k = 2 /\ Element(t, k)[2] = 1)
       \/ (t \in Restarts /\ k = 11 /\ Element(t, k)[2] = 2)
       \/ (t \in Patches /\ k = 3 /\ Element(t, k)[2] = 2)
       \/ (t \in Reloads /\ k = 6 /\ Element(t, k)[2] = 2)
  /\ Doing(t, k) = "start" =>
       (t = "main" /\ k = 9) \/ (t \in Restarts /\ k = 16) \/ (t \in Patches /\ k = 8)
       \/ (t \in Reloads /\ k = 11)
  /\ Doing(t, k) = "apiStart" =>
       (t = "main" /\ k = 10) \/ (t \in Restarts /\ k = 17)
  /\ Doing(t, k) = "signal" =>
       (t = "main" /\ k = 11)
  /\ Doing(t, k) = "stop" =>
       (t = "main" /\ k = 13) \/ (t \in Restarts /\ k \in {3, 12}) \/ (t \in Patches /\ k = 4)
       \/ (t \in Reloads /\ k = 7)
  /\ Doing(t, k) = "dnsStop" =>
       (t = "main" /\ k = 14) \/ (t \in Restarts /\ k = 4)
  /\ Doing(t, k) = "apiStop" =>
       (t = "main" /\ k = 15) \/ (t \in Restarts /\ k = 5)
  /\ Doing(t, k) = "exit" =>
       (t = "main" /\ k = 16)
  /\ Doing(t, k) = "request" =>
       (t \in Restarts /\ k = 1) \/ (t \in Patches /\ k = 1) \/ (t \in Reloads /\ k = 1)
  /\ Doing(t, k) = "nil" =>
       (t \in Restarts /\ k = 13) \/ (t \in Patches /\ k = 5) \/ (t \in Reloads /\ k = 8)
  /\ Doing(t, k) = "update" =>
       (t \in Patches /\ k = 2)
  /\ Doing(t, k) = "unlock" =>
       (t \in Patches /\ k = 9)
  /\ Doing(t, k) = "marshal" =>
       (t \in Patches /\ k = 10)
<1>1. CASE t = "main"
  <2>1. k = 1 \/ k = 2 \/ k = 3 \/ k = 4 \/ k = 5 \/ k = 6 \/ k = 7 \/ k = 8 \/ k = 9 \/ k = 10 \/ k = 11 \/ k = 12 \/ k = 13 \/ k = 14 \/ k = 15 \/ k = 16 \/ k = 17
    BY <1>1, MainAt
  <2> QED  BY <1>1, <2>1, MainAt, Kinds DEF Doing, Do
<1>2. CASE t \in Restarts
  <2>1. k = 1 \/ k = 2 \/ k = 3 \/ k = 4 \/ k = 5 \/ k = 6 \/ k = 7 \/ k = 8 \/ k = 9 \/ k = 10 \/ k = 11 \/ k = 12 \/ k = 13 \/ k = 14 \/ k = 15 \/ k = 16 \/ k = 17 \/ k = 18
    BY <1>2, RestartAt
  <2> QED  BY <1>2, <2>1, RestartAt, Kinds DEF Doing, Do
<1>3. CASE t \in Patches
  <2>1. k = 1 \/ k = 2 \/ k = 3 \/ k = 4 \/ k = 5 \/ k = 6 \/ k = 7 \/ k = 8 \/ k = 9 \/ k = 10 \/ k = 11 \/ k = 12 \/ k = 13
    BY <1>3, PatchAt
  <2> QED  BY <1>3, <2>1, PatchAt, Kinds DEF Doing, Do
<1>4. CASE t \in Reloads
  <2>1. k = 1 \/ k = 2 \/ k = 3 \/ k = 4 \/ k = 5 \/ k = 6 \/ k = 7 \/ k = 8 \/ k = 9 \/ k = 10 \/ k = 11 \/ k = 12
    BY <1>4, ReloadAt
  <2> QED  BY <1>4, <2>1, ReloadAt, Kinds DEF Doing, Do
<1> QED  BY <1>1, <1>2, <1>3, <1>4, Kinds
-----------------------------------------------------------------------------
\* The positions at which a goroutine holds m.mu, and at which it is about to write the file.
Locking(t, k) == \/ t = "main" /\ k \in {2, 3}
                 \/ t \in Restarts /\ k \in {7, 8}
                 \/ t \in Reloads /\ k \in {3, 4}
                 \/ t \in Patches /\ k \in {3, 4, 5, 6, 7, 8, 9}
Saving(t, k) == \/ t = "main" /\ k \in {2, 3}
                \/ t \in Restarts /\ k \in {7, 8}
                \/ t \in Reloads /\ k \in {3, 4}
                \/ t \in Patches /\ k \in {11, 12}
Patching(k) == k \in 3..12

\* A process that has ended leaves nothing but the file.
Down == ~process.up =>
          /\ dns = NewDNS /\ api = NewAPI /\ config = Nothing
          /\ \A t \in Threads : ~InFlight(t)
          /\ pc["main"] = End("main")

LockHeld == \A t \in Threads : lock = t <=> Locking(t, pc[t])
InHand == /\ \A t \in Threads : data[t] # Nothing => Saving(t, pc[t])
          /\ \A t \in Patches : mine[t] # Nothing <=> Patching(pc[t])

\* stopCh is closed by main on its way out, or a restart has been there.
Restarted == \A t \in Restarts : InFlight(t) /\ pc[t] > 4 => hist.restarted
StopOnce == dns.closed /\ ~hist.restarted => ~dns.running /\ pc["main"] > 14

\* Without a race nobody is to use a cron that is nil.
Uses == {"stop", "add", "start"}
HasCron == ~hist.raced => \A t \in Threads : Doing(t, pc[t]) \in Uses => cron # 0

\* No request is served before main has read the file and there is a secret.
Secured == /\ config.secret = 0 /\ ~hist.torn =>
                /\ api = NewAPI /\ (pc["main"] = 1 \/ ~process.up)
                /\ \A t \in Threads \ {"main"} : ~InFlight(t)
           /\ process.up /\ pc["main"] = 1 => config.secret = 0 /\ ~hist.torn

\* What holds as long as no change was disturbed: the file is whole or being written by the
\* one goroutine that changes anything, and what is in force, in somebody's hand or in the
\* file is what was accepted last.
Active(t) == lock = t \/ (t \in Patches /\ mine[t] # Nothing)
Readable == ~hist.torn /\ file # Torn /\ (file.kind = "text" => file.secret # 0)
OneWriter == file = Empty <=> \E t \in Threads : Writing(t)
Prepared == /\ \A t \in Threads : data[t] # Nothing => data[t].secret # 0 /\ data[t].v = wanted
            /\ \A t \in Patches : Saving(t, pc[t]) => data[t] # Nothing
OneChange == \A t, u \in Threads : Active(t) /\ Active(u) => t = u
InForce == process.up /\ pc["main"] # 1 => config.v = wanted
InFile == file # Empty /\ (\A t \in Patches : mine[t] = Nothing) => file.v = wanted
Undisturbed == ~hist.disturbed => Readable /\ OneWriter /\ Prepared /\ OneChange /\ InForce /\ InFile

Control == TypeOK /\ Down /\ LockHeld /\ InHand
IInv == Control /\ Restarted /\ StopOnce /\ HasCron /\ Secured /\ Undisturbed /\ PanicExplained

\* The type invariant in two parts.
TypeCore ==
  /\ pc \in [Threads -> Nat] /\ \A t \in Threads : pc[t] \in 1..End(t)
  /\ mine \in [Threads -> Settings] /\ data \in [Threads -> Settings] /\ config \in Settings
  /\ file \in {Absent, Empty, Torn} \cup [kind : {"text"}, v : 0..wanted, secret : 0..secrets]
  /\ lock \in Threads \cup {"none"} /\ secrets \in Nat /\ wanted \in Nat
  /\ process \in [up : BOOLEAN, boots : Nat, crashes : 0..MaxCrashes]
Cron == [on : BOOLEAN, jobs : Nat]
Past == [disturbed : BOOLEAN, torn : BOOLEAN, raced : BOOLEAN, restarted : BOOLEAN,
         panic : {"no", "killed", "exit", "cron", "stopCh"}]
TypeRest ==
  /\ dns \in [running : BOOLEAN, closed : BOOLEAN, gen : Nat, starting : Nat, bound : Nat]
  /\ api \in [gen : Nat, shut : BOOLEAN, starting : Nat, bound : Nat]
  /\ dns.bound <= dns.gen /\ api.bound <= api.gen
  /\ crons \in Seq(Cron) /\ cron \in 0..Len(crons) /\ applied \in 0..wanted
  /\ hist \in Past
LEMMA TypeParts == TypeOK <=> TypeCore /\ TypeRest
BY DEF TypeOK, TypeCore, TypeRest, Cron, Past

\* The kinds of files are different.
LEMMA Files ==
  /\ Absent # Empty /\ Absent # Torn /\ Empty # Torn
  /\ Absent.kind = "absent" /\ Empty.kind = "empty" /\ Torn.kind = "torn"
  /\ Absent.v = 0 /\ Absent.secret = 0 /\ Empty.v = 0 /\ Empty.secret = 0
  /\ \A c : /\ Text(c).kind = "text" /\ Text(c).v = c.v /\ Text(c).secret = c.secret
            /\ Text(c) # Empty /\ Text(c) # Torn /\ Text(c) # Absent
BY DEF Absent, Empty, Torn, Text

LEMMA Here == ASSUME TypeOK, NEW t \in Threads
              PROVE  /\ pc[t] \in 1..End(t) /\ Op(t) = Element(t, pc[t]) /\ Op(t)[1] = Doing(t, pc[t])
                     /\ End(t) \in Nat
<1>1. pc[t] \in 1..End(t)  BY DEF TypeOK
<1>2. End(t) \in Nat  BY Kinds, MainAt, RestartAt, PatchAt, ReloadAt
<1> QED  BY <1>1, <1>2 DEF Op, Element, Doing

LEMMA InitStep == Init => IInv
<1> SUFFICES ASSUME Init PROVE IInv  OBVIOUS
<1> USE DEF Init
<1>1. \A t \in Threads : pc[t] = 1 /\ mine[t] = Nothing /\ data[t] = Nothing /\ End(t) \in Nat /\ End(t) > 1
  BY Kinds, MainAt, RestartAt, PatchAt, ReloadAt
<1>2. /\ file = Text([v |-> 1, secret |-> 1]) \/ file = Absent
      /\ file.v \in Nat /\ file.secret \in Nat
  BY Files
<1>3. TypeCore
  <2>1. Nothing \in Settings /\ wanted \in Nat /\ secrets \in Nat  BY <1>2 DEF Nothing, Settings
  <2>2. file \in {Absent} \cup [kind : {"text"}, v : 0..wanted, secret : 0..secrets]
    BY <1>2, <2>1 DEF Text
  <2>3. mine \in [Threads -> Settings] /\ data \in [Threads -> Settings]
    <3> HIDE DEF Nothing, Settings
    <3> QED  BY <2>1
  <2>4. process \in [up : BOOLEAN, boots : Nat, crashes : 0..MaxCrashes]  BY LifecycleConstants
  <2> QED  BY <1>1, <2>1, <2>2, <2>3, <2>4 DEF TypeCore
<1>4. TypeRest
  <2>1. crons \in Seq(Cron) /\ Len(crons) = 0  BY EmptySeq
  <2>2. hist \in Past  BY DEF NoHistory, Past
  <2>3. dns \in [running : BOOLEAN, closed : BOOLEAN, gen : Nat, starting : Nat, bound : Nat] /\ dns.bound <= dns.gen
    BY DEF NewDNS
  <2>4. api \in [gen : Nat, shut : BOOLEAN, starting : Nat, bound : Nat] /\ api.bound <= api.gen  BY DEF NewAPI
  <2>5. wanted \in Nat  BY <1>2
  <2> QED  BY <2>1, <2>2, <2>3, <2>4, <2>5 DEF TypeRest
<1>5. \A t \in Threads : ~InFlight(t) /\ ~Locking(t, pc[t]) /\ ~Saving(t, pc[t]) /\ ~Patching(pc[t])
                         /\ Doing(t, pc[t]) \in {"read", "request"}
  BY <1>1, Kinds, MainAt, RestartAt, PatchAt, ReloadAt DEF InFlight, Locking, Saving, Patching, Doing, Do
<1>6. Down  BY DEF Down
<1>7. LockHeld  BY <1>5, Kinds DEF LockHeld
<1>8. InHand  BY <1>1, <1>5, Kinds DEF InHand
<1>9. Restarted /\ StopOnce  BY <1>5, Kinds DEF Restarted, StopOnce, NewDNS
<1>10. HasCron  BY <1>5 DEF HasCron, Uses
<1>11. Secured  BY <1>1, <1>5, Kinds DEF Secured, Nothing, NoHistory
<1>12. Undisturbed
  <2>1. Readable  BY <1>2, Files DEF Readable, NoHistory
  <2>2. ~(\E t \in Threads : Writing(t)) /\ file # Empty  BY <1>1, <1>2, Files DEF Writing
  <2>3. \A t \in Threads : ~Active(t)  BY <1>1, Kinds DEF Active
  <2> QED  BY <1>1, <1>5, <2>1, <2>2, <2>3, Kinds DEF Undisturbed, OneWriter, Prepared, OneChange, InForce, InFile
<1>13. PanicExplained  BY DEF PanicExplained, NoHistory
<1> QED  BY <1>3, <1>4, <1>6, <1>7, <1>8, <1>9, <1>10, <1>11, <1>12, <1>13, TypeParts DEF IInv, Control
-----------------------------------------------------------------------------
\* A goroutine goes on to position k, holding m, and touches neither the configuration nor the file.
Aside(t, k, m) ==
  /\ process.up /\ k \in 1..End(t) /\ pc[t] < k
  /\ t \in Patches => (pc[t] = 1 /\ k = 2) \/ (pc[t] \in 3..8 /\ k \in 4..9)
  /\ t \notin Patches => ~Locking(t, pc[t]) /\ ~Locking(t, k)
  /\ t = "main" => pc[t] # 1
  /\ pc[t] # 1 \/ api.bound # 0
  /\ pc' = [pc EXCEPT ![t] = k] /\ mine' = [mine EXCEPT ![t] = m] /\ data' = data
  /\ m \in {mine[t], Nothing, config} /\ (t \in Patches => m = mine[t])
  /\ UNCHANGED <<file, config, lock, secrets, process, wanted>>
  /\ hist'.disturbed = hist.disturbed /\ hist'.torn = hist.torn

LEMMA Moves ==
  ASSUME TypeOK, NEW t \in Threads, NEW n, NEW m, NEW d, Move(t, n, m, d)
  PROVE  /\ pc' = [pc EXCEPT ![t] = pc[t] + n]
         /\ mine' = [mine EXCEPT ![t] = IF pc[t] + n >= End(t) THEN Nothing ELSE m]
         /\ data' = [data EXCEPT ![t] = IF pc[t] + n >= End(t) THEN Nothing ELSE d]
BY DEF Move

\* A goroutine that is not about to write has nothing to write.
LEMMA EmptyHands ==
  ASSUME Control, NEW t \in Threads, ~Saving(t, pc[t]), NEW d, d \in {data[t], Nothing},
         data' = [data EXCEPT ![t] = d]
  PROVE  data' = data
<1>1. data[t] = Nothing /\ data \in [Threads -> Settings]  BY DEF Control, InHand, TypeOK
<1>2. d = Nothing  BY <1>1
<1> QED  BY <1>1, <1>2

\* The way ahead is beside the file and the configuration.
Ahead(t, k) ==
  /\ k \in 1..End(t) /\ pc[t] < k
  /\ t \in Patches => (pc[t] = 1 /\ k = 2) \/ (pc[t] \in 3..8 /\ k \in 4..9)
  /\ t \notin Patches => ~Locking(t, pc[t]) /\ ~Locking(t, k)
  /\ t = "main" => pc[t] # 1

LEMMA WaysAhead ==
  ASSUME TypeOK, NEW t \in Threads
  PROVE  /\ Doing(t, pc[t]) \in {"request", "signal", "get", "stop", "add", "start", "nil", "dnsStart",
                                 "dnsStop", "apiStart", "apiStop", "check", "new"} => Ahead(t, pc[t] + 1)
         /\ Doing(t, pc[t]) \in {"check", "new"} => Ahead(t, pc[t] + Op(t)[2] + 1)
<1>1. pc[t] \in 1..End(t) /\ Op(t) = Element(t, pc[t])  BY Here
<1>2. CASE t = "main"
  <2>1. End(t) = 17  BY <1>2, MainAt
  <2> QED  BY <1>1, <1>2, <2>1, Where, Kinds DEF Ahead, Locking
<1>3. CASE t \in Restarts
  <2>1. End(t) = 18  BY <1>3, RestartAt
  <2> QED  BY <1>1, <1>3, <2>1, Where, Kinds DEF Ahead, Locking
<1>4. CASE t \in Patches
  <2>1. End(t) = 13  BY <1>4, PatchAt
  <2> QED  BY <1>1, <1>4, <2>1, Where, Kinds DEF Ahead, Locking
<1>5. CASE t \in Reloads
  <2>1. End(t) = 12  BY <1>5, ReloadAt
  <2> QED  BY <1>1, <1>5, <2>1, Where, Kinds DEF Ahead, Locking
<1> QED  BY <1>2, <1>3, <1>4, <1>5, Kinds

LEMMA MovesAside ==
  ASSUME Control, NEW t \in Threads, NEW n \in Nat, NEW m, m \in {mine[t], config}, Move(t, n, m, data[t]),
         process.up, Ahead(t, pc[t] + n), t \in Patches => m = mine[t], pc[t] # 1 \/ api.bound # 0,
         UNCHANGED <<file, config, lock, secrets, process, wanted>>,
         hist'.disturbed = hist.disturbed, hist'.torn = hist.torn
  PROVE  \E h : Aside(t, pc[t] + n, h)
<1>0. TypeOK /\ pc[t] \in 1..End(t) /\ End(t) \in Nat  BY Here DEF Control
<1> DEFINE k == pc[t] + n
           h == IF k >= End(t) THEN Nothing ELSE m
           d == IF k >= End(t) THEN Nothing ELSE data[t]
<1>1. pc' = [pc EXCEPT ![t] = k] /\ mine' = [mine EXCEPT ![t] = h] /\ data' = [data EXCEPT ![t] = d]
  BY <1>0, Moves
<1>2. ~Saving(t, pc[t])  BY <1>0, Kinds DEF Ahead, Saving, Locking
<1>3. d \in {data[t], Nothing}  OBVIOUS
<1>4. data' = data
  <2> HIDE DEF d
  <2> QED  BY <1>1, <1>2, <1>3, EmptyHands
<1>5. k \in 1..End(t) /\ pc[t] < k  BY <1>0 DEF Ahead
<1>6. t \in Patches => h = mine[t] /\ ((pc[t] = 1 /\ k = 2) \/ (pc[t] \in 3..8 /\ k \in 4..9))
  BY <1>0, PatchAt DEF Ahead
<1>7. h \in {mine[t], Nothing, config}  OBVIOUS
<1> HIDE DEF h, k
<1>8. Aside(t, k, h)  BY <1>1, <1>4, <1>5, <1>6, <1>7 DEF Aside, Ahead, k
<1> QED  BY <1>8 DEF k

LEMMA AsideSecured ==
  ASSUME IInv, NEW t \in Threads, NEW k, NEW m, Aside(t, k, m)
  PROVE  config.secret # 0 \/ hist.torn
<1>1. pc[t] \in 1..End(t)  BY Here DEF IInv, Control
<1>2. pc[t] # 1 => InFlight(t)
  <2>1. pc[t] \in Nat /\ k \in Nat /\ End(t) \in Nat  BY Here DEF IInv, Control, Aside
  <2> QED  BY <1>1, <2>1 DEF InFlight, Aside
<1>3. NewAPI.bound = 0  BY DEF NewAPI
<1> QED  BY <1>2, <1>3 DEF IInv, Secured, Aside

LEMMA AsideKeeps ==
  ASSUME IInv, NEW t \in Threads, NEW k, NEW m, Aside(t, k, m)
  PROVE  TypeCore' /\ Down' /\ LockHeld' /\ InHand' /\ Secured' /\ Undisturbed'
<1> USE DEF Aside
<1>0. TypeCore  BY TypeParts DEF IInv, Control
<1>1. /\ pc'[t] = k /\ mine'[t] = m
      /\ \A u \in Threads : u # t => pc'[u] = pc[u] /\ mine'[u] = mine[u]
  BY <1>0 DEF TypeCore
<1>2. TypeCore'
  <2>1. wanted' = wanted /\ secrets' = secrets /\ Settings' = Settings  BY DEF Settings
  <2>2. m \in Settings
    <3>1. Nothing \in Settings /\ config \in Settings /\ mine[t] \in Settings  BY <1>0 DEF TypeCore, Nothing, Settings
    <3> QED  BY <3>1
  <2>3. mine' \in [Threads -> Settings]  BY <1>0, <2>2 DEF TypeCore
  <2>4. pc' \in [Threads -> Nat] /\ \A u \in Threads : pc'[u] \in 1..End(u)
    <3>1. End(t) \in Nat  BY Here DEF IInv, Control
    <3>2. k \in Nat /\ k \in 1..End(t)  BY <3>1
    <3> QED  BY <1>0, <1>1, <3>2 DEF TypeCore
  <2> QED  BY <1>0, <2>1, <2>3, <2>4 DEF TypeCore
<1>3. Down'  BY DEF Down
<1>4. \A u \in Threads : Locking(u, pc'[u]) <=> Locking(u, pc[u])
  <2>1. Locking(t, k) <=> Locking(t, pc[t])
    <3>1. CASE t \in Patches  BY <3>1, Kinds DEF Locking
    <3>2. CASE t \notin Patches  BY <3>2
    <3> QED  BY <3>1, <3>2
  <2> QED  BY <1>1, <2>1
<1>5. LockHeld'
  <2>1. lock' = lock  OBVIOUS
  <2>2. \A u \in Threads : lock = u <=> Locking(u, pc[u])  BY DEF IInv, Control, LockHeld
  <2>3. \A u \in Threads : lock' = u <=> Locking(u, pc'[u])  BY <1>4, <2>1, <2>2
  <2> QED  BY <2>3 DEF LockHeld
<1>6. \A u \in Threads : Saving(u, pc'[u]) <=> Saving(u, pc[u])
  <2>1. ~Saving(t, k) /\ ~Saving(t, pc[t])  BY Kinds DEF Saving, Locking
  <2> QED  BY <1>1, <2>1
<1>7. \A u \in Patches : mine'[u] = mine[u] /\ (Patching(pc'[u]) <=> Patching(pc[u]))
  <2> SUFFICES ASSUME NEW u \in Patches PROVE mine'[u] = mine[u] /\ (Patching(pc'[u]) <=> Patching(pc[u]))
    OBVIOUS
  <2>1. u \in Threads  BY Kinds
  <2>2. CASE u = t  BY <1>1, <2>2 DEF Patching
  <2>3. CASE u # t  BY <1>1, <2>1, <2>3
  <2> QED  BY <2>2, <2>3
<1>8. InHand'
  <2>1. \A u \in Threads : data[u] # Nothing => Saving(u, pc'[u])  BY <1>6 DEF IInv, Control, InHand
  <2>2. \A u \in Patches : mine'[u] # Nothing <=> Patching(pc'[u])  BY <1>7 DEF IInv, Control, InHand
  <2> QED  BY <2>1, <2>2 DEF InHand
<1>9. Secured'
  <2>1. config.secret # 0 \/ hist.torn  BY AsideSecured
  <2>2. pc["main"] # 1  BY <2>1 DEF IInv, Secured
  <2>3. pc'["main"] # 1
    <3>1. "main" \in Threads /\ pc[t] \in Nat /\ pc[t] >= 1  BY Here, Kinds DEF IInv, Control
    <3> QED  BY <1>1, <2>2, <3>1
  <2> QED  BY <2>1, <2>3 DEF Secured
<1>10. Undisturbed'
  <2> SUFFICES ASSUME ~hist.disturbed
               PROVE  Readable' /\ OneWriter' /\ Prepared' /\ OneChange' /\ InForce' /\ InFile'
    BY DEF Undisturbed
  <2>1. Readable /\ OneWriter /\ Prepared /\ OneChange /\ InForce /\ InFile  BY DEF IInv, Undisturbed
  <2>2. Readable'  BY <2>1 DEF Readable
  <2>3. \A u \in Threads : Active(u)' <=> Active(u)
    <3>1. \A u \in Threads : Active(u)' <=> lock = u \/ (u \in Patches /\ mine'[u] # Nothing)  BY DEF Active
    <3> QED  BY <1>7, <3>1 DEF Active
  <2>4. OneChange'  BY <2>1, <2>3 DEF OneChange
  <2>5. Prepared'  BY <1>6, <2>1, Kinds DEF Prepared
  <2>6. InForce'
    <3>1. pc'["main"] = 1 <=> pc["main"] = 1
      <4>1. "main" \in Threads  BY Kinds
      <4>2. pc[t] \in Nat /\ pc[t] >= 1  BY Here DEF IInv, Control
      <4> QED  BY <1>1, <4>1, <4>2
    <3> QED  BY <2>1, <3>1 DEF InForce
  <2>7. InFile'  BY <1>7, <2>1 DEF InFile
  <2>8. OneWriter'
    <3>1. \A u \in Threads : u # t => (Writing(u)' <=> Writing(u))
      <4>1. \A u \in Threads : u # t => (Op(u)' = Op(u))  BY <1>1 DEF Op
      <4> QED  BY <4>1 DEF Writing
    <3>2. data[t] = Nothing
      <4>1. ~Saving(t, pc[t])  BY Kinds DEF Saving, Locking
      <4> QED  BY <4>1 DEF IInv, Control, InHand
    <3>3. ~Writing(t)' /\ ~Writing(t)  BY <3>2 DEF Writing
    <3> QED  BY <2>1, <3>1, <3>3 DEF OneWriter
  <2> QED  BY <2>2, <2>4, <2>5, <2>6, <2>7, <2>8
<1> QED  BY <1>2, <1>3, <1>5, <1>8, <1>9, <1>10
-----------------------------------------------------------------------------
\* What a goroutine that goes on to position k must leave for the panics to be explained.
Plain(t, k) ==
  /\ pc' = [pc EXCEPT ![t] = k] /\ k \in 1..End(t) /\ pc[t] < k
  /\ hist.raced => hist'.raced
  /\ hist.restarted => hist'.restarted
  /\ hist'.panic = hist.panic
  /\ t \in Restarts /\ k > 4 => pc[t] > 4 \/ hist'.restarted
  /\ ~hist'.raced => /\ Doing(t, k) \in Uses => cron' # 0
                     /\ cron' # 0 \/ cron' = cron \/ \A u \in Threads \ {t} : Doing(u, pc[u]) \notin Uses

LEMMA PlainKeeps ==
  ASSUME IInv, NEW t \in Threads, NEW k, Plain(t, k)
  PROVE  /\ Restarted' /\ HasCron' /\ PanicExplained'
         /\ dns'.running = dns.running /\ dns'.closed = dns.closed => StopOnce'
<1> USE DEF Plain
<1>0. TypeOK /\ pc \in [Threads -> Nat]  BY DEF IInv, Control, TypeOK
<1>1. /\ pc'[t] = k /\ \A u \in Threads : u # t => pc'[u] = pc[u]
      /\ pc[t] \in Nat /\ pc[t] >= 1 /\ k \in Nat /\ End(t) \in Nat
  BY <1>0, Here
<1>2. Restarted'
  <2> SUFFICES ASSUME NEW u \in Restarts, InFlight(u)', pc'[u] > 4 PROVE hist'.restarted
    BY DEF Restarted
  <2>1. u \in Threads  BY Kinds
  <2>2. pc'[u] < End(u)  BY DEF InFlight
  <2>3. CASE u = t
    <3>1. pc[t] > 4 => InFlight(t)  BY <1>1, <2>2, <2>3 DEF InFlight
    <3> QED  BY <1>1, <2>3, <3>1 DEF IInv, Restarted
  <2>4. CASE u # t
    <3>1. InFlight(u) /\ pc[u] > 4  BY <1>1, <2>1, <2>4 DEF InFlight
    <3> QED  BY <3>1 DEF IInv, Restarted
  <2> QED  BY <2>3, <2>4
<1>3. HasCron'
  <2> SUFFICES ASSUME ~hist'.raced, NEW u \in Threads, Doing(u, pc'[u]) \in Uses PROVE cron' # 0
    <3>1. \A u \in Threads : Doing(u, pc[u])' = Doing(u, pc'[u])  BY DEF Doing, Element
    <3> QED  BY <3>1 DEF HasCron, Uses
  <2>1. CASE u = t  BY <1>1, <2>1
  <2>2. CASE u # t
    <3>1. Doing(u, pc[u]) \in Uses  BY <1>1, <2>2
    <3>2. cron # 0  BY <3>1 DEF IInv, HasCron
    <3> QED  BY <2>2, <3>1, <3>2
  <2> QED  BY <2>1, <2>2
<1>4. PanicExplained'  BY DEF IInv, PanicExplained
<1>5. ASSUME dns'.running = dns.running, dns'.closed = dns.closed PROVE StopOnce'
  <2>1. pc["main"] > 14 => pc'["main"] > 14
    <3>1. "main" \in Threads  BY Kinds
    <3> QED  BY <1>1, <3>1
  <2> QED  BY <1>5, <2>1 DEF IInv, StopOnce
<1> QED  BY <1>2, <1>3, <1>4, <1>5

LEMMA Together ==
  ASSUME IInv, NEW t \in Threads, NEW k, NEW m, Aside(t, k, m), Plain(t, k), TypeRest', StopOnce'
  PROVE  IInv'
<1>1. TypeCore' /\ Down' /\ LockHeld' /\ InHand' /\ Secured' /\ Undisturbed'  BY AsideKeeps
<1>2. Restarted' /\ HasCron' /\ PanicExplained'  BY PlainKeeps
<1>3. TypeOK'  BY <1>1 DEF TypeOK, TypeCore, TypeRest, Cron, Past
<1> QED  BY <1>1, <1>2, <1>3 DEF IInv, Control

LEMMA StopKept ==
  ASSUME IInv, NEW t \in Threads, NEW k, Plain(t, k), dns' = dns
  PROVE  StopOnce'
BY PlainKeeps

LEMMA RequestStep == ASSUME IInv, NEW t \in Threads, Request(t) PROVE IInv'
<1>0. Control /\ TypeOK /\ TypeRest  BY TypeParts DEF IInv, Control
<1>1. /\ process.up /\ Doing(t, pc[t]) = "request" /\ api.bound # 0 /\ Move(t, 1, mine[t], data[t])
      /\ UNCHANGED <<store, servers, schedule, process, wanted, hist>>
  BY <1>0, Here DEF Request, At, Jump
<1>2. UNCHANGED <<file, config, lock, secrets, dns, api, cron, crons, applied, process, wanted, hist>>
  BY <1>1 DEF store, servers, schedule
<1> DEFINE k == pc[t] + 1
<1>3. Ahead(t, k)  BY <1>0, <1>1, WaysAhead
<1>4. PICK m : Aside(t, k, m)  BY <1>0, <1>1, <1>2, <1>3, MovesAside
<1>5. k = 2 /\ Doing(t, k) \notin Uses
  BY <1>0, <1>1, Here, Where, Kinds, RestartAt, PatchAt, ReloadAt DEF Doing, Do, Uses
<1> HIDE DEF k
<1>6. Plain(t, k)  BY <1>2, <1>4, <1>5 DEF Plain, Aside
<1>7. TypeRest'  BY <1>0, <1>2 DEF TypeRest
<1>8. StopOnce'  BY <1>2, <1>6, StopKept
<1> QED  BY <1>4, <1>6, <1>7, <1>8, Together

LEMMA SignalStep == ASSUME IInv, NEW t \in Threads, Signal(t) PROVE IInv'
<1>0. Control /\ TypeOK /\ TypeRest  BY TypeParts DEF IInv, Control
<1>1. /\ process.up /\ Doing(t, pc[t]) = "signal" /\ Move(t, 1, mine[t], data[t])
      /\ UNCHANGED <<store, servers, schedule, process, wanted, hist>>
  BY <1>0, Here DEF Signal, At, Jump
<1>2. UNCHANGED <<file, config, lock, secrets, dns, api, cron, crons, applied, process, wanted, hist>>
  BY <1>1 DEF store, servers, schedule
<1> DEFINE k == pc[t] + 1
<1>3. Ahead(t, k)  BY <1>0, <1>1, WaysAhead
<1>4. t = "main" /\ pc[t] = 11 /\ Doing(t, k) \notin Uses
  BY <1>0, <1>1, Here, Where, MainAt DEF Doing, Do, Uses
<1>5. PICK m : Aside(t, k, m)
  <2>1. pc[t] # 1  BY <1>4
  <2> QED  BY <1>0, <1>1, <1>2, <1>3, <2>1, MovesAside
<1> HIDE DEF k
<1>6. Plain(t, k)  BY <1>2, <1>4, <1>5, Kinds DEF Plain, Aside
<1>7. TypeRest'  BY <1>0, <1>2 DEF TypeRest
<1>8. StopOnce'  BY <1>2, <1>6, StopKept
<1> QED  BY <1>5, <1>6, <1>7, <1>8, Together

\* Where a goroutine comes to.
LEMMA Followed ==
  ASSUME TypeOK, NEW t \in Threads
  PROVE  /\ Doing(t, pc[t]) \notin {"read", "request"} => pc[t] # 1
         /\ Doing(t, pc[t]) \in {"get", "dnsStart", "dnsStop", "apiStart", "apiStop", "stop", "nil"} =>
              Doing(t, pc[t] + 1) \notin Uses
         /\ Doing(t, pc[t]) \in {"check", "new"} => Doing(t, pc[t] + Op(t)[2] + 1) \notin Uses
         /\ t \in Restarts => /\ Doing(t, pc[t]) = "check" /\ pc[t] < 5 => pc[t] + Op(t)[2] + 1 < 5
                              /\ Doing(t, pc[t]) \in {"check", "stop"} /\ pc[t] < 5 => pc[t] + 1 < 5
                              /\ Doing(t, pc[t]) \in {"get", "dnsStart", "apiStart", "apiStop", "nil", "new",
                                                     "add", "start"} => pc[t] > 4
<1>1. pc[t] \in 1..End(t) /\ Op(t) = Element(t, pc[t])  BY Here
<1> USE DEF Doing, Do, Uses
<1>2. CASE t = "main"  BY <1>1, <1>2, MainAt, Where, Kinds
<1>3. CASE t \in Restarts  BY <1>1, <1>3, RestartAt, Where, Kinds
<1>4. CASE t \in Patches  BY <1>1, <1>4, PatchAt, Where, Kinds
<1>5. CASE t \in Reloads  BY <1>1, <1>5, ReloadAt, Where, Kinds
<1> QED  BY <1>2, <1>3, <1>4, <1>5, Kinds

LEMMA GetStep == ASSUME IInv, NEW t \in Threads, Get(t) PROVE IInv'
<1>0. Control /\ TypeOK /\ TypeRest  BY TypeParts DEF IInv, Control
<1>1. /\ process.up /\ Doing(t, pc[t]) = "get" /\ Move(t, 1, config, data[t])
      /\ UNCHANGED <<store, servers, schedule, process, wanted, hist>>
  BY <1>0, Here DEF Get, At
<1>2. UNCHANGED <<file, config, lock, secrets, dns, api, cron, crons, applied, process, wanted, hist>>
  BY <1>1 DEF store, servers, schedule
<1> DEFINE k == pc[t] + 1
<1>3. Ahead(t, k)  BY <1>0, <1>1, WaysAhead
<1>4. pc[t] # 1 /\ Doing(t, k) \notin Uses /\ (t \in Restarts => pc[t] > 4) /\ t \notin Patches
  <2>1. t \notin Patches  BY <1>0, <1>1, Here, Where, Kinds
  <2> QED  BY <1>0, <1>1, <2>1, Followed
<1>5. PICK m : Aside(t, k, m)  BY <1>0, <1>1, <1>2, <1>3, <1>4, MovesAside
<1> HIDE DEF k
<1>6. Plain(t, k)  BY <1>2, <1>4, <1>5 DEF Plain, Aside
<1>7. TypeRest'  BY <1>0, <1>2 DEF TypeRest
<1>8. StopOnce'  BY <1>2, <1>6, StopKept
<1> QED  BY <1>5, <1>6, <1>7, <1>8, Together

\* What the actions on the schedule have in common.
LEMMA Schedules ==
  ASSUME IInv, NEW t \in Threads, process.up, NEW n \in Nat, Jump(t, n), Ahead(t, pc[t] + n), pc[t] # 1,
         Scheduling(t)
  PROVE  /\ \E m : Aside(t, pc[t] + n, m)
         /\ UNCHANGED <<dns, api, wanted>> /\ hist' \in Past /\ hist'.panic = hist.panic
         /\ hist'.restarted = hist.restarted /\ (hist.raced => hist'.raced)
         /\ ~hist'.raced => \A u \in Threads \ {t} : Doing(u, pc[u]) \notin {"stop", "nil", "new", "add", "start"}
<1>0. Control /\ TypeOK /\ TypeRest  BY TypeParts DEF IInv, Control
<1>1. Races(t) \in BOOLEAN /\ (hist.raced => Races(t))
      /\ (~Races(t) => \A u \in Threads \ {t} : Doing(u, pc[u]) \notin {"stop", "nil", "new", "add", "start"})
  <2>1. \A u \in Threads : Op(u)[1] = Doing(u, pc[u])  BY <1>0, Here
  <2>2. hist.raced \in BOOLEAN  BY <1>0 DEF TypeRest, Past
  <2> QED  BY <2>1, <2>2 DEF Races
<1> DEFINE b == Races(t)
<1>2. hist' = [hist EXCEPT !.raced = b] /\ UNCHANGED <<store, servers, process, wanted>>  BY DEF Scheduling
<1>3. hist \in Past  BY <1>0 DEF TypeRest
<1> HIDE DEF b
<1>4. /\ hist' \in Past /\ hist'.raced = b /\ hist'.panic = hist.panic /\ hist'.restarted = hist.restarted
      /\ hist'.disturbed = hist.disturbed /\ hist'.torn = hist.torn
  <2>1. b \in BOOLEAN  BY <1>1 DEF b
  <2> QED  BY <1>2, <1>3, <2>1 DEF Past
<1>5. UNCHANGED <<file, config, lock, secrets, dns, api, process, wanted>>  BY <1>2 DEF store, servers
<1>6. Move(t, n, mine[t], data[t])  BY DEF Jump
<1>7. \E m : Aside(t, pc[t] + n, m)  BY <1>0, <1>4, <1>5, <1>6, MovesAside
<1> QED  BY <1>1, <1>4, <1>5, <1>7 DEF b

LEMMA CheckStep == ASSUME IInv, NEW t \in Threads, Check(t) PROVE IInv'
<1>0. Control /\ TypeOK /\ TypeRest  BY TypeParts DEF IInv, Control
<1> DEFINE n == IF cron = 0 THEN Op(t)[2] + 1 ELSE 1
           k == pc[t] + n
<1>1. process.up /\ Doing(t, pc[t]) = "check" /\ Jump(t, n) /\ UNCHANGED schedule /\ Scheduling(t)
  BY <1>0, Here DEF Check, At
<1>2. UNCHANGED <<cron, crons, applied>>  BY <1>1 DEF schedule
<1>3. pc[t] \in Nat /\ Op(t)[2] \in Nat /\ n \in Nat
  <2>1. Op(t)[2] \in {1, 2}  BY <1>0, <1>1, Here, Where
  <2> QED  BY <1>0, <2>1, Here
<1>4. /\ Ahead(t, k) /\ pc[t] # 1 /\ (cron = 0 => Doing(t, k) \notin Uses)
      /\ t \in Restarts /\ k > 4 => pc[t] > 4
  <2>1. CASE cron = 0
    <3>1. k = pc[t] + Op(t)[2] + 1  BY <1>3, <2>1
    <3>2. Ahead(t, k)  BY <1>0, <1>1, <3>1, WaysAhead
    <3>3. Doing(t, k) \notin Uses /\ pc[t] # 1  BY <1>0, <1>1, <3>1, Followed
    <3>4. t \in Restarts /\ pc[t] < 5 => k < 5  BY <1>0, <1>1, <3>1, Followed
    <3> QED  BY <1>3, <3>2, <3>3, <3>4
  <2>2. CASE cron # 0
    <3>1. k = pc[t] + 1  BY <2>2
    <3>2. Ahead(t, k)  BY <1>0, <1>1, <3>1, WaysAhead
    <3>3. pc[t] # 1  BY <1>0, <1>1, Followed
    <3>4. t \in Restarts /\ pc[t] < 5 => k < 5  BY <1>0, <1>1, <3>1, Followed
    <3> QED  BY <1>3, <2>2, <3>2, <3>3, <3>4
  <2> QED  BY <2>1, <2>2
<1> HIDE DEF n
<1>5. /\ \E m : Aside(t, k, m)
      /\ UNCHANGED <<dns, api, wanted>> /\ hist' \in Past /\ hist'.panic = hist.panic
      /\ hist'.restarted = hist.restarted /\ (hist.raced => hist'.raced)
  BY <1>1, <1>3, <1>4, Schedules
<1> HIDE DEF k
<1>6. PICK m : Aside(t, k, m)  BY <1>5
<1>7. Plain(t, k)  BY <1>2, <1>4, <1>5, <1>6 DEF Plain, Aside
<1>8. TypeRest'  BY <1>0, <1>2, <1>5 DEF TypeRest
<1>9. StopOnce'  BY <1>5, <1>7, StopKept
<1> QED  BY <1>6, <1>7, <1>8, <1>9, Together

LEMMA NilStep == ASSUME IInv, NEW t \in Threads, NilCron(t) PROVE IInv'
<1>0. Control /\ TypeOK /\ TypeRest  BY TypeParts DEF IInv, Control
<1> DEFINE k == pc[t] + 1
<1>1. process.up /\ Doing(t, pc[t]) = "nil" /\ Jump(t, 1) /\ cron' = 0 /\ UNCHANGED <<crons, applied>> /\ Scheduling(t)
  BY <1>0, Here DEF NilCron, At
<1>2. Ahead(t, k) /\ pc[t] # 1 /\ Doing(t, k) \notin Uses /\ (t \in Restarts => pc[t] > 4)
  BY <1>0, <1>1, WaysAhead, Followed
<1>3. /\ \E m : Aside(t, k, m)
      /\ UNCHANGED <<dns, api, wanted>> /\ hist' \in Past /\ hist'.panic = hist.panic
      /\ hist'.restarted = hist.restarted /\ (hist.raced => hist'.raced)
      /\ ~hist'.raced => \A u \in Threads \ {t} : Doing(u, pc[u]) \notin {"stop", "nil", "new", "add", "start"}
  BY <1>1, <1>2, Schedules
<1> HIDE DEF k
<1>4. PICK m : Aside(t, k, m)  BY <1>3
<1>5. Plain(t, k)  BY <1>2, <1>3, <1>4 DEF Plain, Aside, Uses
<1>6. TypeRest'  BY <1>0, <1>1, <1>3 DEF TypeRest
<1>7. StopOnce'  BY <1>3, <1>5, StopKept
<1> QED  BY <1>4, <1>5, <1>6, <1>7, Together

LEMMA UseStep ==
  ASSUME IInv, NEW t \in Threads, NEW what \in Uses, NEW c \in Cron, Use(t, what, c), cron # 0
  PROVE  IInv'
<1>0. Control /\ TypeOK /\ TypeRest  BY TypeParts DEF IInv, Control
<1> DEFINE k == pc[t] + 1
<1>1. /\ process.up /\ Doing(t, pc[t]) = what /\ Jump(t, 1) /\ crons' = [crons EXCEPT ![cron] = c]
      /\ UNCHANGED <<cron, applied>> /\ Scheduling(t)
  BY <1>0, Here DEF Use, At
<1>2. Ahead(t, k) /\ pc[t] # 1  BY <1>0, <1>1, WaysAhead, Followed DEF Uses
<1>3. t \in Restarts /\ k > 4 => pc[t] > 4
  <2>1. pc[t] \in Nat  BY <1>0, Here
  <2>2. t \in Restarts /\ pc[t] < 5 => k < 5
    <3>1. CASE what = "stop"  BY <1>0, <1>1, <3>1, Followed
    <3>2. CASE what \in {"add", "start"}  BY <1>0, <1>1, <2>1, <3>2, Followed
    <3> QED  BY <3>1, <3>2 DEF Uses
  <2> QED  BY <2>1, <2>2
<1>4. /\ \E m : Aside(t, k, m)
      /\ UNCHANGED <<dns, api, wanted>> /\ hist' \in Past /\ hist'.panic = hist.panic
      /\ hist'.restarted = hist.restarted /\ (hist.raced => hist'.raced)
  BY <1>1, <1>2, Schedules
<1> HIDE DEF k
<1>5. PICK m : Aside(t, k, m)  BY <1>4
<1>6. Plain(t, k)  BY <1>1, <1>3, <1>4, <1>5 DEF Plain, Aside
<1>7. TypeRest'
  <2>1. crons \in Seq(Cron) /\ cron \in 0..Len(crons)  BY <1>0 DEF TypeRest
  <2>2. crons' \in Seq(Cron) /\ Len(crons') = Len(crons)
    <3> HIDE DEF Cron
    <3> QED  BY <1>1, <2>1
  <2> QED  BY <1>0, <1>1, <1>4, <2>1, <2>2 DEF TypeRest
<1>8. StopOnce'  BY <1>4, <1>6, StopKept
<1> QED  BY <1>5, <1>6, <1>7, <1>8, Together

LEMMA CurrentType ==
  ASSUME TypeRest
  PROVE  /\ [Current EXCEPT !.on = FALSE] \in Cron /\ [Current EXCEPT !.on = TRUE] \in Cron
         /\ [Current EXCEPT !.jobs = @ + 1] \in Cron
<1>1. Current \in Cron
  <2>1. cron # 0 => crons[cron] \in Cron  BY DEF TypeRest
  <2>2. [on |-> FALSE, jobs |-> 0] \in Cron  BY DEF Cron
  <2> QED  BY <2>1, <2>2 DEF Current
<1> DEFINE n == Current.jobs + 1
<1>2. n \in Nat  BY <1>1 DEF Cron
<1>3. [Current EXCEPT !.jobs = @ + 1] = [Current EXCEPT !.jobs = n]  OBVIOUS
<1> HIDE DEF n
<1>4. [Current EXCEPT !.jobs = n] \in Cron  BY <1>1, <1>2 DEF Cron
<1>5. [Current EXCEPT !.on = FALSE] \in Cron /\ [Current EXCEPT !.on = TRUE] \in Cron  BY <1>1 DEF Cron
<1> QED  BY <1>3, <1>4, <1>5

LEMMA NewStep == ASSUME IInv, NEW t \in Threads, NewCron(t) PROVE IInv'
<1>0. Control /\ TypeOK /\ TypeRest  BY TypeParts DEF IInv, Control
<1> DEFINE fresh == [on |-> FALSE, jobs |-> 0]
<1>1. process.up /\ Doing(t, pc[t]) = "new" /\ applied' = mine[t].v /\ Scheduling(t)
  BY <1>0, Here DEF NewCron, At
<1>2. mine[t].v \in 0..wanted  BY <1>0 DEF TypeOK, Settings
<1>3. pc[t] \in Nat /\ Op(t)[2] \in Nat
  <2>1. Op(t)[2] \in {1, 2}  BY <1>0, <1>1, Here, Where
  <2> QED  BY <1>0, <2>1, Here
<1>4. pc[t] # 1 /\ (t \in Restarts => pc[t] > 4)  BY <1>0, <1>1, Followed
<1>5. CASE mine[t].v \in Unscheduled
  <2> DEFINE n == Op(t)[2] + 1
             k == pc[t] + n
  <2>1. Jump(t, n) /\ UNCHANGED <<cron, crons>> /\ n \in Nat  BY <1>3, <1>5 DEF NewCron
  <2>2. k = pc[t] + Op(t)[2] + 1  BY <1>3
  <2>3. Ahead(t, k) /\ Doing(t, k) \notin Uses  BY <1>0, <1>1, <2>2, WaysAhead, Followed
  <2> HIDE DEF n
  <2>4. /\ \E m : Aside(t, k, m)
        /\ UNCHANGED <<dns, api, wanted>> /\ hist' \in Past /\ hist'.panic = hist.panic
        /\ hist'.restarted = hist.restarted /\ (hist.raced => hist'.raced)
    BY <1>1, <1>4, <2>1, <2>3, Schedules
  <2> HIDE DEF k
  <2>5. PICK m : Aside(t, k, m)  BY <2>4
  <2>6. Plain(t, k)  BY <1>4, <2>1, <2>3, <2>4, <2>5 DEF Plain, Aside
  <2>7. TypeRest'  BY <1>0, <1>1, <1>2, <2>1, <2>4 DEF TypeRest
  <2>8. StopOnce'  BY <2>4, <2>6, StopKept
  <2> QED  BY <2>5, <2>6, <2>7, <2>8, Together
<1>6. CASE mine[t].v \notin Unscheduled
  <2> DEFINE k == pc[t] + 1
  <2>1. Jump(t, 1) /\ crons' = Append(crons, fresh) /\ cron' = Len(crons) + 1  BY <1>6 DEF NewCron
  <2>2. Ahead(t, k)  BY <1>0, <1>1, WaysAhead
  <2>3. /\ \E m : Aside(t, k, m)
        /\ UNCHANGED <<dns, api, wanted>> /\ hist' \in Past /\ hist'.panic = hist.panic
        /\ hist'.restarted = hist.restarted /\ (hist.raced => hist'.raced)
    BY <1>1, <1>4, <2>1, <2>2, Schedules
  <2>4. crons' \in Seq(Cron) /\ cron' \in 0..Len(crons') /\ cron' # 0
    <3>1. crons \in Seq(Cron) /\ fresh \in Cron  BY <1>0 DEF TypeRest, Cron
    <3> HIDE DEF fresh, Cron
    <3> QED  BY <2>1, <3>1
  <2> HIDE DEF k
  <2>5. PICK m : Aside(t, k, m)  BY <2>3
  <2>6. Plain(t, k)  BY <1>4, <2>3, <2>4, <2>5 DEF Plain, Aside
  <2>7. TypeRest'  BY <1>0, <1>1, <1>2, <2>3, <2>4 DEF TypeRest
  <2>8. StopOnce'  BY <2>3, <2>6, StopKept
  <2> QED  BY <2>5, <2>6, <2>7, <2>8, Together
<1> QED  BY <1>5, <1>6
-----------------------------------------------------------------------------
Server == [running : BOOLEAN, closed : BOOLEAN, gen : Nat, starting : Nat, bound : Nat]
Listener == [gen : Nat, shut : BOOLEAN, starting : Nat, bound : Nat]

LEMMA ServerFields ==
  /\ \A d \in Server : d.gen \in Nat /\ d.starting \in Nat /\ d.bound \in Nat
  /\ \A d \in Listener : d.gen \in Nat /\ d.starting \in Nat /\ d.bound \in Nat
BY DEF Server, Listener

LEMMA DNSStartStep == ASSUME IInv, NEW t \in Threads, DNSStart(t) PROVE IInv'
<1>0. Control /\ TypeOK /\ TypeRest  BY TypeParts DEF IInv, Control
<1> DEFINE k == pc[t] + 1
<1>1. /\ process.up /\ Doing(t, pc[t]) = "dnsStart" /\ Move(t, 1, mine[t], data[t])
      /\ UNCHANGED <<store, api, schedule, process, wanted, hist>>
      /\ dns' = dns \/ dns' = [dns EXCEPT !.running = TRUE, !.gen = dns.gen + 1, !.starting = dns.starting + 1]
  BY <1>0, Here DEF DNSStart, At, Jump
<1>2. UNCHANGED <<file, config, lock, secrets, api, cron, crons, applied, process, wanted, hist>>
  BY <1>1 DEF store, schedule
<1>3. Ahead(t, k) /\ pc[t] # 1 /\ Doing(t, k) \notin Uses /\ (t \in Restarts => pc[t] > 4)
  BY <1>0, <1>1, WaysAhead, Followed
<1>4. PICK m : Aside(t, k, m)  BY <1>0, <1>1, <1>2, <1>3, MovesAside
<1>5. dns' \in Server /\ dns'.bound <= dns'.gen /\ dns'.closed = dns.closed
  <2>1. dns \in Server /\ dns.bound <= dns.gen  BY <1>0 DEF TypeRest, Server
  <2> DEFINE g == dns.gen + 1
             s == dns.starting + 1
  <2>2. g \in Nat /\ s \in Nat /\ dns.bound <= g  BY <2>1, ServerFields
  <2>3. dns' = dns \/ dns' = [dns EXCEPT !.running = TRUE, !.gen = g, !.starting = s]  BY <1>1
  <2> HIDE DEF g, s
  <2>4. CASE dns' # dns
    <3>1. dns' \in Server /\ dns'.gen = g /\ dns'.bound = dns.bound /\ dns'.closed = dns.closed
      BY <2>1, <2>2, <2>3, <2>4 DEF Server
    <3> QED  BY <2>2, <3>1
  <2> QED  BY <2>1, <2>4
<1> HIDE DEF k
<1>6. Plain(t, k)  BY <1>2, <1>3, <1>4 DEF Plain, Aside
<1>7. TypeRest'  BY <1>0, <1>2, <1>5 DEF TypeRest, Server
<1>8. StopOnce'
  <2>1. CASE dns.closed /\ ~hist.restarted
    <3>1. pc["main"] > 14 /\ pc["main"] \in Nat  BY <1>0, <2>1, Here, Kinds DEF IInv, StopOnce
    <3>2. t # "main"
      <4>1. t = "main" => pc[t] = 7  BY <1>0, <1>1, Here, Where, Kinds
      <4> QED  BY <3>1, <4>1
    <3>3. t \in Restarts  BY <1>0, <1>1, <3>2, Here, Where
    <3>4. InFlight(t)
      <4>1. pc[t] = 10 /\ End(t) = 18  BY <1>0, <1>1, <3>3, Here, Where, Kinds, RestartAt
      <4> QED  BY <4>1 DEF InFlight
    <3> QED  BY <1>3, <2>1, <3>3, <3>4 DEF IInv, Restarted
  <2>2. CASE ~(dns.closed /\ ~hist.restarted)  BY <1>2, <1>5, <2>2 DEF StopOnce
  <2> QED  BY <2>1, <2>2
<1> QED  BY <1>4, <1>6, <1>7, <1>8, Together

LEMMA DNSStopStep ==
  ASSUME IInv, NEW t \in Threads, DNSStop(t), ~(dns.running /\ dns.closed)
  PROVE  IInv'
<1>0. Control /\ TypeOK /\ TypeRest  BY TypeParts DEF IInv, Control
<1> DEFINE k == pc[t] + 1
           stopped == [dns EXCEPT !.running = FALSE, !.closed = TRUE,
                                  !.bound = IF dns.bound = dns.gen THEN 0 ELSE dns.bound]
           past == [hist EXCEPT !.restarted = hist.restarted \/ t \in Restarts]
<1>1. /\ process.up /\ Doing(t, pc[t]) = "dnsStop" /\ Move(t, 1, mine[t], data[t])
      /\ UNCHANGED <<store, api, schedule, process, wanted>> /\ hist' = past
      /\ dns' = IF ~dns.running THEN dns ELSE stopped
  BY <1>0, Here DEF DNSStop, At, Jump
<1>2. UNCHANGED <<file, config, lock, secrets, api, cron, crons, applied, process, wanted>>
  BY <1>1 DEF store, schedule
<1>3. /\ hist' \in Past /\ (hist'.restarted <=> hist.restarted \/ t \in Restarts) /\ hist'.panic = hist.panic
      /\ hist'.disturbed = hist.disturbed /\ hist'.torn = hist.torn /\ hist'.raced = hist.raced
  <2>1. hist \in Past  BY <1>0 DEF TypeRest
  <2> QED  BY <1>1, <2>1 DEF Past
<1>4. Ahead(t, k) /\ pc[t] # 1 /\ Doing(t, k) \notin Uses  BY <1>0, <1>1, WaysAhead, Followed
<1>5. PICK m : Aside(t, k, m)  BY <1>0, <1>1, <1>2, <1>3, <1>4, MovesAside
<1>6. dns' \in Server /\ dns'.bound <= dns'.gen /\ (dns' = dns \/ ~dns'.running)
  <2>1. dns \in Server /\ dns.bound <= dns.gen  BY <1>0 DEF TypeRest, Server
  <2> DEFINE b == IF dns.bound = dns.gen THEN 0 ELSE dns.bound
  <2>2. b \in Nat /\ b <= dns.gen  BY <2>1, ServerFields
  <2>3. dns' = dns \/ dns' = [dns EXCEPT !.running = FALSE, !.closed = TRUE, !.bound = b]  BY <1>1
  <2> HIDE DEF b
  <2>4. CASE dns' # dns
    <3>1. dns' \in Server /\ dns'.gen = dns.gen /\ dns'.bound = b /\ ~dns'.running
      BY <2>1, <2>2, <2>3, <2>4 DEF Server
    <3> QED  BY <2>2, <3>1
  <2> QED  BY <2>1, <2>4
<1>7. t = "main" => k = 15  BY <1>0, <1>1, Here, Where, Kinds
<1>8. t = "main" \/ t \in Restarts  BY <1>0, <1>1, Here, Where
<1> HIDE DEF k
<1>9. Plain(t, k)  BY <1>2, <1>3, <1>4, <1>5 DEF Plain, Aside
<1>10. TypeRest'  BY <1>0, <1>2, <1>3, <1>6 DEF TypeRest, Server
<1>11. StopOnce'
  <2>1. CASE dns' = dns  BY <1>9, <2>1, StopKept
  <2>2. CASE ~dns'.running /\ t \in Restarts  BY <1>3, <2>2 DEF StopOnce
  <2>3. CASE ~dns'.running /\ t = "main"
    <3>1. pc'["main"] = 15  BY <1>0, <1>5, <1>7, <2>3, Kinds DEF Aside, TypeOK
    <3> QED  BY <2>3, <3>1 DEF StopOnce
  <2> QED  BY <1>6, <1>8, <2>1, <2>2, <2>3
<1> QED  BY <1>5, <1>9, <1>10, <1>11, Together

LEMMA APIStep == ASSUME IInv, NEW t \in Threads, APIStart(t) \/ APIStop(t) PROVE IInv'
<1>0. Control /\ TypeOK /\ TypeRest  BY TypeParts DEF IInv, Control
<1> DEFINE k == pc[t] + 1
<1>1. /\ process.up /\ Doing(t, pc[t]) \in {"apiStart", "apiStop"} /\ Move(t, 1, mine[t], data[t])
      /\ UNCHANGED <<store, dns, schedule, process, wanted, hist>>
      /\ \/ api' = [api EXCEPT !.gen = api.gen + 1, !.shut = FALSE, !.starting = api.starting + 1]
         \/ api' = [api EXCEPT !.shut = TRUE, !.bound = IF api.bound = api.gen THEN 0 ELSE api.bound]
  BY <1>0, Here DEF APIStart, APIStop, At, Jump
<1>2. UNCHANGED <<file, config, lock, secrets, dns, cron, crons, applied, process, wanted, hist>>
  BY <1>1 DEF store, schedule
<1>3. Ahead(t, k) /\ pc[t] # 1 /\ Doing(t, k) \notin Uses /\ (t \in Restarts => pc[t] > 4)
  BY <1>0, <1>1, WaysAhead, Followed
<1>4. PICK m : Aside(t, k, m)  BY <1>0, <1>1, <1>2, <1>3, MovesAside
<1>5. api' \in Listener /\ api'.bound <= api'.gen
  <2>1. api \in Listener /\ api.bound <= api.gen  BY <1>0 DEF TypeRest, Listener
  <2> DEFINE g == api.gen + 1
             s == api.starting + 1
             b == IF api.bound = api.gen THEN 0 ELSE api.bound
  <2>2. g \in Nat /\ s \in Nat /\ b \in Nat /\ b <= api.gen /\ api.bound <= g  BY <2>1, ServerFields
  <2>3. \/ api' = [api EXCEPT !.gen = g, !.shut = FALSE, !.starting = s]
        \/ api' = [api EXCEPT !.shut = TRUE, !.bound = b]
    BY <1>1
  <2> HIDE DEF g, s, b
  <2>4. CASE api' = [api EXCEPT !.gen = g, !.shut = FALSE, !.starting = s]
    <3>1. api' \in Listener /\ api'.gen = g /\ api'.bound = api.bound  BY <2>1, <2>2, <2>4 DEF Listener
    <3> QED  BY <2>2, <3>1
  <2>5. CASE api' = [api EXCEPT !.shut = TRUE, !.bound = b]
    <3>1. api' \in Listener /\ api'.gen = api.gen /\ api'.bound = b  BY <2>1, <2>2, <2>5 DEF Listener
    <3> QED  BY <2>2, <3>1
  <2> QED  BY <2>3, <2>4, <2>5
<1> HIDE DEF k
<1>6. Plain(t, k)  BY <1>2, <1>3, <1>4 DEF Plain, Aside
<1>7. TypeRest'  BY <1>0, <1>2, <1>5 DEF TypeRest, Listener
<1>8. StopOnce'  BY <1>2, <1>6, StopKept
<1> QED  BY <1>4, <1>6, <1>7, <1>8, Together
-----------------------------------------------------------------------------
\* A goroutine goes on to position k, with m and d in its hands.
Steps(t, k, m, d) ==
  /\ process.up /\ process' = process
  /\ k \in 1..End(t) /\ pc[t] < k
  /\ pc' = [pc EXCEPT ![t] = k] /\ mine' = [mine EXCEPT ![t] = m] /\ data' = [data EXCEPT ![t] = d]

LEMMA StepsEffect ==
  ASSUME TypeOK, NEW t \in Threads, NEW k, NEW m, NEW d, Steps(t, k, m, d)
  PROVE  /\ pc'[t] = k /\ mine'[t] = m /\ data'[t] = d
         /\ \A u \in Threads : u # t => pc'[u] = pc[u] /\ mine'[u] = mine[u] /\ data'[u] = data[u]
BY DEF TypeOK, Steps

FileType == {Absent, Empty, Torn} \cup [kind : {"text"}, v : 0..wanted, secret : 0..secrets]

LEMMA StepsType ==
  ASSUME TypeOK, NEW t \in Threads, NEW k, NEW m, NEW d, Steps(t, k, m, d),
         wanted' \in Nat, wanted' >= wanted, secrets' \in Nat, secrets' >= secrets,
         m \in Settings', d \in Settings', config' \in Settings', file' \in FileType',
         lock' \in Threads \cup {"none"}
  PROVE  TypeCore'
<1>1. /\ mine \in [Threads -> Settings] /\ data \in [Threads -> Settings] /\ wanted \in Nat /\ secrets \in Nat
      /\ pc \in [Threads -> Nat] /\ \A u \in Threads : pc[u] \in 1..End(u)
      /\ process \in [up : BOOLEAN, boots : Nat, crashes : 0..MaxCrashes]
  BY DEF TypeOK
<1>2. Settings \subseteq Settings'
  <2>1. 0..wanted \subseteq 0..wanted' /\ 0..secrets \subseteq 0..secrets'  BY <1>1
  <2> QED  BY <2>1 DEF Settings
<1>3. mine' \in [Threads -> Settings'] /\ data' \in [Threads -> Settings']
  <2>1. mine' = [mine EXCEPT ![t] = m] /\ data' = [data EXCEPT ![t] = d]  BY DEF Steps
  <2>2. \A u \in Threads : mine[u] \in Settings' /\ data[u] \in Settings'  BY <1>1, <1>2
  <2> QED  BY <1>1, <2>1, <2>2
<1>4. pc' \in [Threads -> Nat] /\ \A u \in Threads : pc'[u] \in 1..End(u)
  <2>1. End(t) \in Nat /\ k \in 1..End(t)  BY Here DEF Steps
  <2>2. k \in Nat  BY <2>1
  <2> QED  BY <1>1, <2>1, <2>2 DEF Steps
<1>5. process' = process  BY DEF Steps
<1> QED  BY <1>1, <1>3, <1>4, <1>5 DEF TypeCore, FileType

LEMMA SettingsOnly ==
  ASSUME TypeOK
  PROVE  /\ config \in Settings /\ file \in FileType /\ Nothing \in Settings
         /\ \A u \in Threads : mine[u] \in Settings /\ data[u] \in Settings
         /\ wanted \in Nat /\ secrets \in Nat /\ lock \in Threads \cup {"none"}
         /\ config.v \in 0..wanted /\ config.secret \in 0..secrets
BY DEF TypeOK, FileType, Settings, Nothing

LEMMA StepsControl ==
  ASSUME Control, NEW t \in Threads, NEW k, NEW m, NEW d, Steps(t, k, m, d),
         lock' = t <=> Locking(t, k),
         lock' # lock => lock \in {t, "none"} /\ lock' \in {t, "none"},
         d # Nothing => Saving(t, k),
         t \in Patches => (m # Nothing <=> Patching(k))
  PROVE  Down' /\ LockHeld' /\ InHand'
<1>0. TypeOK  BY DEF Control
<1>1. /\ pc'[t] = k /\ mine'[t] = m /\ data'[t] = d
      /\ \A u \in Threads : u # t => pc'[u] = pc[u] /\ mine'[u] = mine[u] /\ data'[u] = data[u]
  BY <1>0, StepsEffect
<1>2. Down'  BY DEF Down, Steps
<1>3. LockHeld'
  <2> SUFFICES ASSUME NEW u \in Threads PROVE lock' = u <=> Locking(u, pc'[u])  BY DEF LockHeld
  <2>1. CASE u = t  BY <1>1, <2>1
  <2>2. CASE u # t
    <3>1. lock' = u <=> lock = u  BY <2>2, Kinds
    <3> QED  BY <1>1, <2>2, <3>1 DEF Control, LockHeld
  <2> QED  BY <2>1, <2>2
<1>4. \A u \in Threads : data'[u] # Nothing => Saving(u, pc'[u])  BY <1>1 DEF Control, InHand
<1>5. \A u \in Patches : mine'[u] # Nothing <=> Patching(pc'[u])  BY <1>1, Kinds DEF Control, InHand
<1>6. InHand'  BY <1>4, <1>5 DEF InHand
<1> QED  BY <1>2, <1>3, <1>6

\* The steps on the file and the configuration, and where they lead.
LEMMA Positions ==
  ASSUME TypeOK, NEW t \in Threads
  PROVE  LET p == pc[t]
             k == p + 1
         IN /\ Doing(t, p) \in {"read", "truncate", "write", "marshal", "update", "unlock"} =>
                 /\ Doing(t, k) \notin Uses /\ k \in 1..End(t) /\ p < k
                 /\ t \in Restarts /\ k > 4 => p > 4
            /\ Doing(t, End(t)) \notin Uses
            /\ Doing(t, p) = "read" => /\ ~Locking(t, p) /\ Locking(t, k) /\ Saving(t, k) /\ t \notin Patches
                                       /\ k < End(t) /\ ~Saving(t, p) /\ (p = 1 => t = "main")
                                       /\ Doing(t, k) # "write"
                                       /\ ~Locking(t, End(t)) /\ p < End(t) /\ (t \in Restarts => p > 4)
            /\ Doing(t, p) = "truncate" => /\ Saving(t, p) /\ Saving(t, k) /\ Doing(t, k) = "write"
                                           /\ (Locking(t, p) <=> Locking(t, k)) /\ k < End(t) /\ p # 1
                                           /\ (Locking(t, p) <=> t \notin Patches)
                                           /\ t \in Patches => Patching(p) /\ Patching(k)
            /\ Doing(t, p) = "write" => /\ Saving(t, p) /\ ~Saving(t, k) /\ ~Locking(t, k) /\ p # 1
                                        /\ (Locking(t, p) <=> t \notin Patches)
                                        /\ t \in Patches => k = End(t) /\ Patching(p) /\ ~Patching(k)
                                        /\ t \notin Patches => k < End(t)
            /\ Doing(t, p) = "marshal" => /\ t \in Patches /\ ~Locking(t, p) /\ ~Locking(t, k) /\ Saving(t, k)
                                          /\ Patching(p) /\ Patching(k) /\ k < End(t) /\ p # 1
                                          /\ Doing(t, k) # "write"
            /\ Doing(t, p) = "update" => /\ t \in Patches /\ ~Locking(t, p) /\ Locking(t, k) /\ p # 1
                                         /\ ~Saving(t, p) /\ ~Saving(t, k) /\ Patching(k) /\ k < End(t)
            /\ Doing(t, p) = "unlock" => /\ t \in Patches /\ Locking(t, p) /\ ~Locking(t, k) /\ ~Saving(t, p)
                                         /\ ~Saving(t, k) /\ Patching(p) /\ Patching(k) /\ k < End(t) /\ p # 1
<1>1. pc[t] \in 1..End(t)  BY Here
<1> USE DEF Doing, Do, Uses, Locking, Saving, Patching
<1>2. CASE t = "main"  BY <1>1, <1>2, MainAt, Where, Kinds
<1>3. CASE t \in Restarts  BY <1>1, <1>3, RestartAt, Where, Kinds
<1>4. CASE t \in Patches  BY <1>1, <1>4, PatchAt, Where, Kinds
<1>5. CASE t \in Reloads  BY <1>1, <1>5, ReloadAt, Where, Kinds
<1> QED  BY <1>2, <1>3, <1>4, <1>5, Kinds

LEMMA Composed ==
  ASSUME IInv, NEW t \in Threads, NEW k, Plain(t, k), dns' = dns,
         TypeCore', TypeRest', Down', LockHeld', InHand', Secured', Undisturbed'
  PROVE  IInv'
<1>1. Restarted' /\ HasCron' /\ PanicExplained' /\ StopOnce'  BY PlainKeeps
<1>2. TypeOK'  BY DEF TypeOK, TypeCore, TypeRest, Cron, Past
<1> QED  BY <1>1, <1>2 DEF IInv, Control

\* Whoever is at work, main has read the file.
LEMMA SecretSet ==
  ASSUME IInv, NEW t \in Threads, process.up, pc[t] # 1, pc[t] < End(t)
  PROVE  (config.secret # 0 \/ hist.torn) /\ pc["main"] # 1
<1>1. InFlight(t)
  <2>1. pc[t] \in Nat /\ pc[t] >= 1  BY Here DEF IInv, Control
  <2> QED  BY <2>1 DEF InFlight
<1>2. config.secret # 0 \/ hist.torn  BY <1>1 DEF IInv, Secured
<1> QED  BY <1>2 DEF IInv, Secured

\* Whoever has something to write is the one that changes something.
LEMMA Busy ==
  ASSUME Control, NEW t \in Threads, data[t] # Nothing
  PROVE  Active(t)
<1>1. Saving(t, pc[t])  BY DEF Control, InHand
<1>2. CASE t \in Patches
  <2>1. Patching(pc[t])  BY <1>1, <1>2, Kinds DEF Saving, Patching
  <2> QED  BY <1>2, <2>1 DEF Control, InHand, Active
<1>3. CASE t \notin Patches
  <2>1. Locking(t, pc[t])  BY <1>1, <1>3 DEF Saving, Locking
  <2> QED  BY <2>1 DEF Control, LockHeld, Active
<1> QED  BY <1>2, <1>3

LEMMA StepsWriting ==
  ASSUME TypeOK, NEW t \in Threads, NEW k, NEW m, NEW d, Steps(t, k, m, d)
  PROVE  /\ \A u \in Threads : u # t => (Writing(u)' <=> Writing(u))
         /\ Writing(t)' <=> Doing(t, k) = "write" /\ d # Nothing
         /\ Writing(t) <=> Doing(t, pc[t]) = "write" /\ data[t] # Nothing
<1>1. /\ pc'[t] = k /\ data'[t] = d /\ process' = process /\ process.up
      /\ \A u \in Threads : u # t => pc'[u] = pc[u] /\ data'[u] = data[u]
  <2>1. process' = process /\ process.up  BY DEF Steps
  <2> QED  BY <2>1, StepsEffect
<1>2. \A u \in Threads : u # t => Op(u)' = Op(u)  BY <1>1 DEF Op
<1>3. Op(t)'[1] = Doing(t, k)
  <2>1. Op(t)' = IF pc'[t] < End(t) THEN Handler[t][pc'[t]] ELSE Do("over")  BY DEF Op
  <2> QED  BY <1>1, <2>1 DEF Doing, Element
<1>4. Op(t)[1] = Doing(t, pc[t])  BY Here
<1>5. \A u \in Threads : u # t => (Writing(u)' <=> Writing(u))  BY <1>1, <1>2 DEF Writing
<1>6. Writing(t)' <=> Doing(t, k) = "write" /\ d # Nothing  BY <1>1, <1>3 DEF Writing
<1>7. Writing(t) <=> Doing(t, pc[t]) = "write" /\ data[t] # Nothing  BY <1>1, <1>4 DEF Writing
<1> QED  BY <1>5, <1>6, <1>7

LEMMA StepsSecured ==
  ASSUME IInv, NEW t \in Threads, NEW k, NEW m, NEW d, Steps(t, k, m, d),
         config'.secret # 0 \/ hist'.torn, pc[t] # 1 \/ t = "main"
  PROVE  Secured'
<1>0. TypeOK /\ pc[t] \in Nat /\ pc[t] >= 1 /\ End(t) \in Nat  BY Here DEF IInv, Control
<1>1. pc'[t] = k /\ \A u \in Threads : u # t => pc'[u] = pc[u]  BY <1>0, StepsEffect
<1>2. "main" \in Threads  BY Kinds
<1>3. pc[t] < k /\ k \in Nat /\ k <= End(t) /\ process.up  BY <1>0 DEF Steps
<1>4. pc'["main"] # 1
  <2>1. CASE t = "main"  BY <1>0, <1>1, <1>3, <2>1
  <2>2. CASE t # "main"
    <3>1. pc["main"] # 1  BY <1>0, <1>3, <2>2, SecretSet
    <3> QED  BY <1>1, <1>2, <2>2, <3>1
  <2> QED  BY <2>1, <2>2
<1> QED  BY <1>4 DEF Secured

LEMMA UnlockStep == ASSUME IInv, NEW t \in Threads, Unlock(t) PROVE IInv'
<1>0. Control /\ TypeOK /\ TypeRest  BY TypeParts DEF IInv, Control
<1> DEFINE p == pc[t]
           k == p + 1
<1>1. /\ process.up /\ Doing(t, p) = "unlock" /\ lock' = "none" /\ Move(t, 1, mine[t], data[t])
      /\ UNCHANGED <<file, config, secrets, servers, schedule, process, wanted, hist>>
  BY <1>0, Here DEF Unlock, At, Jump
<1>2. UNCHANGED <<file, config, secrets, dns, api, cron, crons, applied, process, wanted, hist>>
  BY <1>1 DEF servers, schedule
<1>3. /\ t \in Patches /\ Locking(t, p) /\ ~Locking(t, k) /\ ~Saving(t, p) /\ Doing(t, k) \notin Uses
      /\ ~Saving(t, k) /\ Patching(p) /\ Patching(k) /\ k < End(t) /\ k \in 1..End(t) /\ p # 1 /\ p < k
  BY <1>0, <1>1, Positions
<1>4. p \in Nat /\ End(t) \in Nat /\ k \in Nat /\ ~(k >= End(t)) /\ p < End(t)  BY <1>0, <1>3, Here
<1>5. Steps(t, k, mine[t], data[t])
  <2>1. pc' = [pc EXCEPT ![t] = k] /\ mine' = [mine EXCEPT ![t] = mine[t]] /\ data' = [data EXCEPT ![t] = data[t]]
    BY <1>0, <1>1, <1>4, Moves
  <2> QED  BY <1>1, <1>2, <1>3, <2>1 DEF Steps
<1> HIDE DEF k, p
<1>6. lock = t  BY <1>0, <1>3 DEF Control, LockHeld, p
<1>7. data[t] = Nothing /\ mine[t] # Nothing  BY <1>0, <1>3 DEF Control, InHand, p
<1>8. Down' /\ LockHeld' /\ InHand'  BY <1>0, <1>1, <1>3, <1>5, <1>6, <1>7, Kinds, StepsControl
<1>9. TypeCore'
  <2>1. Settings' = Settings /\ FileType' = FileType  BY <1>2 DEF Settings, FileType
  <2> QED  BY <1>0, <1>1, <1>2, <1>5, <2>1, StepsType, SettingsOnly
<1>10. TypeRest'  BY <1>0, <1>2 DEF TypeRest
<1>11. Plain(t, k)  BY <1>2, <1>3, <1>5, Kinds DEF Plain, Steps
<1>12. Secured'
  <2>1. config.secret # 0 \/ hist.torn  BY <1>1, <1>3, <1>4, SecretSet DEF p
  <2> QED  BY <1>2, <1>3, <1>5, <2>1, StepsSecured DEF p
<1>13. Undisturbed'
  <2> SUFFICES ASSUME ~hist.disturbed
               PROVE  Readable' /\ OneWriter' /\ Prepared' /\ OneChange' /\ InForce' /\ InFile'
    BY <1>2 DEF Undisturbed
  <2>1. Readable /\ OneWriter /\ Prepared /\ OneChange /\ InForce /\ InFile  BY DEF IInv, Undisturbed
  <2>2. /\ pc'[t] = k /\ mine'[t] = mine[t] /\ data'[t] = data[t]
        /\ \A u \in Threads : u # t => pc'[u] = pc[u] /\ mine'[u] = mine[u] /\ data'[u] = data[u]
    BY <1>0, <1>5, StepsEffect
  <2>3. Readable'  BY <1>2, <2>1 DEF Readable
  <2>4. OneWriter'
    <3>1. \A u \in Threads : Writing(u)' <=> Writing(u)  BY <1>0, <1>5, <1>7, StepsWriting
    <3> QED  BY <1>2, <2>1, <3>1 DEF OneWriter
  <2>5. Prepared'  BY <1>2, <1>3, <1>7, <2>1, <2>2, Kinds DEF Prepared
  <2>6. OneChange'
    <3>1. \A u \in Threads : Active(u)' => Active(u)
      <4>1. \A u \in Threads : Active(u)' <=> lock' = u \/ (u \in Patches /\ mine'[u] # Nothing)  BY DEF Active
      <4> QED  BY <1>1, <2>2, <4>1, Kinds DEF Active
    <3> QED  BY <2>1, <3>1 DEF OneChange
  <2>7. InForce'
    <3>1. pc["main"] # 1  BY <1>1, <1>3, <1>4, SecretSet DEF p
    <3> QED  BY <1>1, <1>2, <2>1, <3>1 DEF InForce
  <2>8. InFile'
    <3>1. \A u \in Patches : mine'[u] = mine[u]  BY <2>2, Kinds
    <3> QED  BY <1>2, <2>1, <3>1 DEF InFile
  <2> QED  BY <2>3, <2>4, <2>5, <2>6, <2>7, <2>8
<1> QED  BY <1>2, <1>8, <1>9, <1>10, <1>11, <1>12, <1>13, Composed

LEMMA MarshalStep == ASSUME IInv, NEW t \in Threads, Marshal(t) PROVE IInv'
<1>0. Control /\ TypeOK /\ TypeRest  BY TypeParts DEF IInv, Control
<1> DEFINE p == pc[t]
           k == p + 1
<1>1. /\ process.up /\ Doing(t, p) = "marshal" /\ Move(t, 1, mine[t], config)
      /\ UNCHANGED <<store, servers, schedule, process, wanted, hist>>
  BY <1>0, Here DEF Marshal, At
<1>2. UNCHANGED <<file, config, lock, secrets, dns, api, cron, crons, applied, process, wanted, hist>>
  BY <1>1 DEF store, servers, schedule
<1>3. /\ t \in Patches /\ ~Locking(t, p) /\ ~Locking(t, k) /\ Doing(t, k) \notin Uses /\ Doing(t, k) # "write"
      /\ Saving(t, k) /\ Patching(p) /\ Patching(k) /\ k < End(t) /\ k \in 1..End(t) /\ p # 1 /\ p < k
  BY <1>0, <1>1, Positions
<1>4. p \in Nat /\ End(t) \in Nat /\ k \in Nat /\ ~(k >= End(t)) /\ p < End(t)  BY <1>0, <1>3, Here
<1>5. Steps(t, k, mine[t], config)
  <2>1. pc' = [pc EXCEPT ![t] = k] /\ mine' = [mine EXCEPT ![t] = mine[t]] /\ data' = [data EXCEPT ![t] = config]
    BY <1>0, <1>1, <1>4, Moves
  <2> QED  BY <1>1, <1>2, <1>3, <2>1 DEF Steps
<1> HIDE DEF k, p
<1>6. lock # t  BY <1>0, <1>3 DEF Control, LockHeld, p
<1>7. mine[t] # Nothing  BY <1>0, <1>3 DEF Control, InHand, p
<1>8. Down' /\ LockHeld' /\ InHand'  BY <1>0, <1>2, <1>3, <1>5, <1>6, <1>7, StepsControl
<1>9. TypeCore'
  <2>1. Settings' = Settings /\ FileType' = FileType  BY <1>2 DEF Settings, FileType
  <2> QED  BY <1>0, <1>2, <1>5, <2>1, StepsType, SettingsOnly
<1>10. TypeRest'  BY <1>0, <1>2 DEF TypeRest
<1>11. Plain(t, k)  BY <1>2, <1>3, <1>5, Kinds DEF Plain, Steps
<1>12. (config.secret # 0 \/ hist.torn) /\ pc["main"] # 1  BY <1>1, <1>3, <1>4, SecretSet DEF p
<1>13. Secured'  BY <1>2, <1>3, <1>5, <1>12, StepsSecured DEF p
<1>14. Undisturbed'
  <2> SUFFICES ASSUME ~hist.disturbed
               PROVE  Readable' /\ OneWriter' /\ Prepared' /\ OneChange' /\ InForce' /\ InFile'
    BY <1>2 DEF Undisturbed
  <2>1. Readable /\ OneWriter /\ Prepared /\ OneChange /\ InForce /\ InFile  BY DEF IInv, Undisturbed
  <2>2. /\ pc'[t] = k /\ mine'[t] = mine[t] /\ data'[t] = config
        /\ \A u \in Threads : u # t => pc'[u] = pc[u] /\ mine'[u] = mine[u] /\ data'[u] = data[u]
    BY <1>0, <1>5, StepsEffect
  <2>3. Readable'  BY <1>2, <2>1 DEF Readable
  <2>4. config.secret # 0 /\ config.v = wanted /\ config # Nothing
    <3>1. config.secret # 0  BY <1>12, <2>1 DEF Readable
    <3>2. Nothing.secret = 0  BY DEF Nothing
    <3>3. config.v = wanted  BY <1>1, <1>12, <2>1 DEF InForce
    <3> QED  BY <3>1, <3>2, <3>3
  <2>5. OneWriter'
    <3>1. ~Writing(t)' /\ ~Writing(t)  BY <1>0, <1>1, <1>3, <1>5, StepsWriting DEF p
    <3>2. \A u \in Threads : Writing(u)' <=> Writing(u)  BY <1>0, <1>5, <3>1, StepsWriting
    <3> QED  BY <1>2, <2>1, <3>2 DEF OneWriter
  <2>6. Prepared'
    <3>1. \A u \in Threads : data'[u] # Nothing => data'[u].secret # 0 /\ data'[u].v = wanted
      BY <2>1, <2>2, <2>4 DEF Prepared
    <3>2. \A u \in Patches : Saving(u, pc'[u]) => data'[u] # Nothing  BY <2>1, <2>2, <2>4, Kinds DEF Prepared
    <3> QED  BY <1>2, <3>1, <3>2 DEF Prepared
  <2>7. OneChange'
    <3>1. \A u \in Threads : Active(u)' => Active(u)
      <4>1. \A u \in Threads : Active(u)' <=> lock' = u \/ (u \in Patches /\ mine'[u] # Nothing)  BY DEF Active
      <4> QED  BY <1>2, <2>2, <4>1 DEF Active
    <3> QED  BY <2>1, <3>1 DEF OneChange
  <2>8. InForce'  BY <1>2, <2>4 DEF InForce
  <2>9. InFile'
    <3>1. \A u \in Patches : mine'[u] = mine[u]  BY <2>2, Kinds
    <3> QED  BY <1>2, <2>1, <3>1 DEF InFile
  <2> QED  BY <2>3, <2>5, <2>6, <2>7, <2>8, <2>9
<1> QED  BY <1>2, <1>8, <1>9, <1>10, <1>11, <1>13, <1>14, Composed

LEMMA TruncateStep == ASSUME IInv, NEW t \in Threads, Truncate(t) PROVE IInv'
<1>0. Control /\ TypeOK /\ TypeRest  BY TypeParts DEF IInv, Control
<1> DEFINE p == pc[t]
           k == p + 1
<1>1. /\ process.up /\ Doing(t, p) = "truncate" /\ Move(t, 1, mine[t], data[t])
      /\ file' = IF data[t] = Nothing THEN file ELSE Empty
      /\ UNCHANGED <<config, lock, secrets, servers, schedule, process, wanted, hist>>
  BY <1>0, Here DEF Truncate, At, Jump
<1>2. UNCHANGED <<config, lock, secrets, dns, api, cron, crons, applied, process, wanted, hist>>
  BY <1>1 DEF servers, schedule
<1>3. /\ Saving(t, p) /\ Saving(t, k) /\ Doing(t, k) = "write" /\ (Locking(t, p) <=> Locking(t, k))
      /\ Doing(t, k) \notin Uses /\ k < End(t) /\ k \in 1..End(t) /\ p # 1 /\ p < k
      /\ t \in Restarts /\ k > 4 => p > 4
      /\ t \in Patches => Patching(p) /\ Patching(k)
  BY <1>0, <1>1, Positions
<1>4. p \in Nat /\ End(t) \in Nat /\ k \in Nat /\ ~(k >= End(t)) /\ p < End(t)  BY <1>0, <1>3, Here
<1>5. Steps(t, k, mine[t], data[t])
  <2>1. pc' = [pc EXCEPT ![t] = k] /\ mine' = [mine EXCEPT ![t] = mine[t]] /\ data' = [data EXCEPT ![t] = data[t]]
    BY <1>0, <1>1, <1>4, Moves
  <2> QED  BY <1>1, <1>2, <1>3, <2>1 DEF Steps
<1> HIDE DEF k, p
<1>6. lock = t <=> Locking(t, k)  BY <1>0, <1>3 DEF Control, LockHeld, p
<1>7. t \in Patches => mine[t] # Nothing  BY <1>0, <1>3 DEF Control, InHand, p
<1>8. Down' /\ LockHeld' /\ InHand'  BY <1>0, <1>2, <1>3, <1>5, <1>6, <1>7, StepsControl
<1>9. TypeCore'
  <2>1. Settings' = Settings /\ FileType' = FileType  BY <1>2 DEF Settings, FileType
  <2>2. file' \in FileType  BY <1>0, <1>1, SettingsOnly DEF FileType
  <2> QED  BY <1>0, <1>2, <1>5, <2>1, <2>2, StepsType, SettingsOnly
<1>10. TypeRest'  BY <1>0, <1>2 DEF TypeRest
<1>11. Plain(t, k)  BY <1>2, <1>3, <1>5 DEF Plain, Steps, p
<1>12. (config.secret # 0 \/ hist.torn) /\ pc["main"] # 1  BY <1>1, <1>3, <1>4, SecretSet DEF p
<1>13. Secured'  BY <1>2, <1>3, <1>5, <1>12, StepsSecured DEF p
<1>14. Undisturbed'
  <2> SUFFICES ASSUME ~hist.disturbed
               PROVE  Readable' /\ OneWriter' /\ Prepared' /\ OneChange' /\ InForce' /\ InFile'
    BY <1>2 DEF Undisturbed
  <2>1. Readable /\ OneWriter /\ Prepared /\ OneChange /\ InForce /\ InFile  BY DEF IInv, Undisturbed
  <2>2. /\ pc'[t] = k /\ mine'[t] = mine[t] /\ data'[t] = data[t]
        /\ \A u \in Threads : u # t => pc'[u] = pc[u] /\ mine'[u] = mine[u] /\ data'[u] = data[u]
    BY <1>0, <1>5, StepsEffect
  <2>3. Readable'
    <3>1. file' = file \/ file' = Empty  BY <1>1
    <3> QED  BY <1>2, <2>1, <3>1, Files DEF Readable
  <2>4. OneWriter'
    <3>0. \A u \in Threads : u # t => (Writing(u)' <=> Writing(u))  BY <1>0, <1>5, StepsWriting
    <3>1. Writing(t)' <=> data[t] # Nothing  BY <1>0, <1>3, <1>5, StepsWriting
    <3>2. ~Writing(t)
      <4>1. Doing(t, pc[t]) # "write"  BY <1>1 DEF p
      <4> QED  BY <1>0, <1>5, <4>1, StepsWriting
    <3>3. CASE data[t] = Nothing  BY <1>1, <2>1, <3>0, <3>1, <3>2, <3>3 DEF OneWriter
    <3>4. CASE data[t] # Nothing  BY <1>1, <3>1, <3>4 DEF OneWriter
    <3> QED  BY <3>3, <3>4
  <2>5. Prepared'
    <3>1. \A u \in Threads : data'[u] = data[u]  BY <2>2
    <3>2. \A u \in Patches : Saving(u, pc'[u]) => Saving(u, pc[u])  BY <1>3, <2>2, Kinds DEF p
    <3> QED  BY <1>2, <2>1, <3>1, <3>2, Kinds DEF Prepared
  <2>6. OneChange'
    <3>1. \A u \in Threads : Active(u)' => Active(u)
      <4>1. \A u \in Threads : Active(u)' <=> lock' = u \/ (u \in Patches /\ mine'[u] # Nothing)  BY DEF Active
      <4> QED  BY <1>2, <2>2, <4>1 DEF Active
    <3> QED  BY <2>1, <3>1 DEF OneChange
  <2>7. InForce'  BY <1>1, <1>2, <1>12, <2>1 DEF InForce
  <2>8. InFile'
    <3>1. \A u \in Patches : mine'[u] = mine[u]  BY <2>2, Kinds
    <3>2. file' = Empty \/ file' = file  BY <1>1
    <3> QED  BY <1>2, <2>1, <3>1, <3>2 DEF InFile
  <2> QED  BY <2>3, <2>4, <2>5, <2>6, <2>7, <2>8
<1> QED  BY <1>2, <1>8, <1>9, <1>10, <1>11, <1>13, <1>14, Composed

LEMMA WriteStep == ASSUME IInv, NEW t \in Threads, Write(t) PROVE IInv'
<1>0. Control /\ TypeOK /\ TypeRest  BY TypeParts DEF IInv, Control
<1> DEFINE p == pc[t]
           k == p + 1
           m == IF k >= End(t) THEN Nothing ELSE mine[t]
<1>1. /\ process.up /\ Doing(t, p) = "write" /\ Move(t, 1, mine[t], Nothing)
      /\ data[t] = Nothing => file' = file
      /\ data[t] # Nothing => file' = Text(data[t]) \/ (file # Empty /\ file' = Torn)
      /\ lock' = IF lock = t THEN "none" ELSE lock
      /\ UNCHANGED <<config, secrets, servers, schedule, process, wanted, hist>>
  BY <1>0, Here DEF Write, At
<1>2. UNCHANGED <<config, secrets, dns, api, cron, crons, applied, process, wanted, hist>>
  BY <1>1 DEF servers, schedule
<1>3. /\ Saving(t, p) /\ ~Saving(t, k) /\ ~Locking(t, k) /\ p # 1 /\ (Locking(t, p) <=> t \notin Patches)
      /\ Doing(t, k) \notin Uses /\ k \in 1..End(t) /\ p < k
      /\ t \in Restarts /\ k > 4 => p > 4
      /\ t \in Patches => k = End(t) /\ Patching(p) /\ ~Patching(k)
  BY <1>0, <1>1, Positions
<1>4. p \in Nat /\ End(t) \in Nat /\ k \in Nat /\ p < End(t) /\ (t \in Patches => m = Nothing)
  BY <1>0, <1>3, Here
<1>5. Steps(t, k, m, Nothing)
  <2>1. pc' = [pc EXCEPT ![t] = k] /\ mine' = [mine EXCEPT ![t] = m] /\ data' = [data EXCEPT ![t] = Nothing]
    BY <1>0, <1>1, <1>4, Moves
  <2> QED  BY <1>1, <1>2, <1>3, <2>1 DEF Steps
<1>m. m \in {mine[t], Nothing}  OBVIOUS
<1> HIDE DEF k, p, m
<1>6. lock' # t /\ (lock = t <=> t \notin Patches)  BY <1>0, <1>1, <1>3, Kinds DEF Control, LockHeld, p
<1>7. Down' /\ LockHeld' /\ InHand'  BY <1>0, <1>1, <1>3, <1>4, <1>5, <1>6, StepsControl
<1>8. TypeCore'
  <2>1. Settings' = Settings /\ FileType' = FileType  BY <1>2 DEF Settings, FileType
  <2>2. file' \in FileType
    <3>1. data[t] \in Settings  BY <1>0, SettingsOnly
    <3>2. Text(data[t]) \in [kind : {"text"}, v : 0..wanted, secret : 0..secrets]  BY <3>1 DEF Text, Settings
    <3> QED  BY <1>0, <1>1, <3>2, SettingsOnly DEF FileType
  <2>3. m \in Settings  BY <1>0, <1>m, SettingsOnly
  <2>4. lock' \in Threads \cup {"none"}  BY <1>0, <1>1, SettingsOnly
  <2> QED  BY <1>0, <1>2, <1>5, <2>1, <2>2, <2>3, <2>4, StepsType, SettingsOnly
<1>9. TypeRest'  BY <1>0, <1>2 DEF TypeRest
<1>10. Plain(t, k)  BY <1>2, <1>3, <1>5 DEF Plain, Steps, p
<1>11. (config.secret # 0 \/ hist.torn) /\ pc["main"] # 1  BY <1>1, <1>3, <1>4, SecretSet DEF p
<1>12. Secured'  BY <1>2, <1>3, <1>5, <1>11, StepsSecured DEF p
<1>13. Undisturbed'
  <2> SUFFICES ASSUME ~hist.disturbed
               PROVE  Readable' /\ OneWriter' /\ Prepared' /\ OneChange' /\ InForce' /\ InFile'
    BY <1>2 DEF Undisturbed
  <2>1. Readable /\ OneWriter /\ Prepared /\ OneChange /\ InForce /\ InFile  BY DEF IInv, Undisturbed
  <2>2. /\ pc'[t] = k /\ mine'[t] = m /\ data'[t] = Nothing
        /\ \A u \in Threads : u # t => pc'[u] = pc[u] /\ mine'[u] = mine[u] /\ data'[u] = data[u]
    BY <1>0, <1>5, StepsEffect
  <2>3. /\ \A u \in Threads : u # t => (Writing(u)' <=> Writing(u))
        /\ ~Writing(t)' /\ (Writing(t) <=> data[t] # Nothing)
    <3>1. Doing(t, pc[t]) = "write"  BY <1>1 DEF p
    <3> QED  BY <1>0, <1>5, <3>1, StepsWriting
  <2>4. data[t] # Nothing => file' = Text(data[t]) /\ data[t].secret # 0 /\ data[t].v = wanted
    <3>1. data[t] # Nothing => file = Empty  BY <2>1, <2>3 DEF OneWriter
    <3> QED  BY <1>1, <2>1, <3>1 DEF Prepared
  <2>5. Readable'
    <3>1. CASE data[t] = Nothing  BY <1>1, <1>2, <2>1, <3>1 DEF Readable
    <3>2. CASE data[t] # Nothing
      <4>1. file' # Torn /\ file'.secret # 0  BY <2>4, <3>2, Files
      <4> QED  BY <1>2, <2>1, <4>1 DEF Readable
    <3> QED  BY <3>1, <3>2
  <2>6. OneWriter'
    <3>1. CASE data[t] = Nothing  BY <1>1, <2>1, <2>3, <3>1 DEF OneWriter
    <3>2. CASE data[t] # Nothing
      <4>1. file' # Empty  BY <2>4, <3>2, Files
      <4>2. ASSUME NEW u \in Threads, Writing(u)' PROVE FALSE
        <5>1. u # t /\ Writing(u)  BY <2>3, <4>2
        <5>2. data[u] # Nothing  BY <5>1 DEF Writing
        <5>3. Active(u) /\ Active(t)  BY <1>0, <3>2, <5>2, Busy
        <5> QED  BY <2>1, <5>1, <5>3 DEF OneChange
      <4> QED  BY <4>1, <4>2 DEF OneWriter
    <3> QED  BY <3>1, <3>2
  <2>7. Prepared'
    <3>1. \A u \in Threads : data'[u] # Nothing => data'[u].secret # 0 /\ data'[u].v = wanted
      BY <2>1, <2>2 DEF Prepared
    <3>2. \A u \in Patches : Saving(u, pc'[u]) => data'[u] # Nothing  BY <1>3, <2>1, <2>2, Kinds DEF Prepared
    <3> QED  BY <1>2, <3>1, <3>2 DEF Prepared
  <2>8. OneChange'
    <3>1. \A u \in Threads : Active(u)' => Active(u)
      <4>1. \A u \in Threads : Active(u)' <=> lock' = u \/ (u \in Patches /\ mine'[u] # Nothing)  BY DEF Active
      <4>2. \A u \in Threads : lock' = u => lock = u  BY <1>1, Kinds
      <4>3. \A u \in Patches : mine'[u] # Nothing => mine[u] # Nothing  BY <1>4, <2>2, Kinds
      <4> QED  BY <4>1, <4>2, <4>3 DEF Active
    <3> QED  BY <2>1, <3>1 DEF OneChange
  <2>9. InForce'  BY <1>1, <1>2, <1>11, <2>1 DEF InForce
  <2>10. InFile'
    <3>1. CASE data[t] = Nothing
      <4>1. t \notin Patches  BY <1>3, <2>1, <3>1 DEF Prepared, p
      <4>2. \A u \in Patches : mine'[u] = mine[u]  BY <2>2, <4>1, Kinds
      <4> QED  BY <1>1, <1>2, <2>1, <3>1, <4>2 DEF InFile
    <3>2. CASE data[t] # Nothing
      <4>1. file'.v = wanted  BY <2>4, <3>2, Files
      <4> QED  BY <1>2, <4>1 DEF InFile
    <3> QED  BY <3>1, <3>2
  <2> QED  BY <2>5, <2>6, <2>7, <2>8, <2>9, <2>10
<1> QED  BY <1>2, <1>7, <1>8, <1>9, <1>10, <1>12, <1>13, Composed

\* With the lock free and nobody changing anything, nobody else is at work on the file.
LEMMA Unchanging ==
  ASSUME Control, NEW t \in Threads, lock = "none", process.up,
         \A u \in Threads \ {t} : ~Changing(u)
  PROVE  /\ \A u \in Threads \ {t} : data[u] = Nothing /\ ~Active(u) /\ ~Writing(u)
         /\ \A u \in Patches \ {t} : mine[u] = Nothing /\ ~Saving(u, pc[u])
<1>1. \A u \in Patches \ {t} : mine[u] = Nothing  BY Kinds DEF Changing
<1>2. \A u \in Threads \ {t} : ~Active(u)  BY <1>1, Kinds DEF Active
<1>3. \A u \in Threads \ {t} : data[u] = Nothing  BY <1>2, Busy
<1>4. \A u \in Threads \ {t} : ~Writing(u)  BY DEF Changing
<1>5. \A u \in Patches \ {t} : ~Saving(u, pc[u])
  <2> SUFFICES ASSUME NEW u \in Patches, u # t, Saving(u, pc[u]) PROVE FALSE  OBVIOUS
  <2>1. Patching(pc[u])  BY Kinds DEF Saving, Patching
  <2> QED  BY <1>1, <2>1 DEF Control, InHand
<1> QED  BY <1>1, <1>2, <1>3, <1>4, <1>5

LEMMA UpdateStep == ASSUME IInv, NEW t \in Threads, Update(t) PROVE IInv'
<1>0. Control /\ TypeOK /\ TypeRest  BY TypeParts DEF IInv, Control
<1> DEFINE p == pc[t]
           k == p + 1
           c == [config EXCEPT !.v = wanted + 1]
           b == Disturbs(t)
<1>1. /\ process.up /\ Doing(t, p) = "update" /\ lock = "none" /\ lock' = t /\ config' = c /\ wanted' = wanted + 1
      /\ Move(t, 1, c, data[t]) /\ hist' = [hist EXCEPT !.disturbed = b]
      /\ UNCHANGED <<file, secrets, servers, schedule, process>>
  BY <1>0, Here DEF Update, At
<1>2. UNCHANGED <<file, secrets, dns, api, cron, crons, applied, process>>
  BY <1>1 DEF servers, schedule
<1>3. /\ t \in Patches /\ ~Locking(t, p) /\ Locking(t, k) /\ ~Saving(t, p) /\ Doing(t, k) \notin Uses
      /\ ~Saving(t, k) /\ Patching(k) /\ k < End(t) /\ k \in 1..End(t) /\ p # 1 /\ p < k
  BY <1>0, <1>1, Positions
<1>4. p \in Nat /\ End(t) \in Nat /\ k \in Nat /\ ~(k >= End(t)) /\ p < End(t)  BY <1>0, <1>3, Here
<1>5. Steps(t, k, c, data[t])
  <2>1. pc' = [pc EXCEPT ![t] = k] /\ mine' = [mine EXCEPT ![t] = c] /\ data' = [data EXCEPT ![t] = data[t]]
    <3> HIDE DEF c
    <3> QED  BY <1>0, <1>1, <1>4, Moves
  <2> QED  BY <1>1, <1>2, <1>3, <2>1 DEF Steps
<1>6. c.v = wanted + 1 /\ c.secret = config.secret /\ c # Nothing /\ c \in Settings' /\ wanted \in Nat
  <2>1. config \in Settings /\ wanted \in Nat /\ secrets \in Nat  BY <1>0, SettingsOnly
  <2> DEFINE w == wanted + 1
  <2>2. w \in 0..w /\ w # 0  BY <2>1
  <2>3. Settings' = [v : 0..w, secret : 0..secrets]  BY <1>1, <1>2 DEF Settings
  <2> HIDE DEF w
  <2>4. LET e == [config EXCEPT !.v = w]
        IN e.v = w /\ e.secret = config.secret /\ e \in [v : 0..w, secret : 0..secrets]
    BY <2>1, <2>2 DEF Settings
  <2>5. Nothing.v = 0  BY DEF Nothing
  <2> QED  BY <2>1, <2>2, <2>3, <2>4, <2>5 DEF w
<1>7. b \in BOOLEAN /\ (hist.disturbed => b) /\ (~b => \A u \in Threads \ {t} : ~Changing(u))
  <2>1. hist.disturbed \in BOOLEAN  BY <1>0 DEF TypeRest, Past
  <2> QED  BY <2>1 DEF Disturbs
<1> HIDE DEF k, p, c, b
<1>8. /\ hist' \in Past /\ hist'.restarted = hist.restarted /\ hist'.panic = hist.panic
      /\ hist'.disturbed = b /\ hist'.torn = hist.torn /\ hist'.raced = hist.raced
  <2>1. hist \in Past  BY <1>0 DEF TypeRest
  <2> QED  BY <1>1, <1>7, <2>1 DEF Past
<1>9. data[t] = Nothing  BY <1>0, <1>3 DEF Control, InHand, p
<1>10. Down' /\ LockHeld' /\ InHand'  BY <1>0, <1>1, <1>3, <1>5, <1>6, <1>9, StepsControl
<1>11. wanted' \in Nat /\ wanted' >= wanted  BY <1>1, <1>6
<1>12. TypeCore'
  <2>1. Settings \subseteq Settings' /\ FileType \subseteq FileType'
    <3>1. 0..wanted \subseteq 0..wanted' /\ secrets' = secrets  BY <1>2, <1>6, <1>11
    <3> QED  BY <3>1 DEF Settings, FileType
  <2>2. file' \in FileType' /\ data[t] \in Settings'  BY <1>0, <1>2, <2>1, SettingsOnly
  <2>3. secrets \in Nat /\ secrets' \in Nat /\ secrets' >= secrets  BY <1>0, <1>2, SettingsOnly
  <2> QED  BY <1>0, <1>1, <1>5, <1>6, <1>11, <2>2, <2>3, StepsType
<1>13. TypeRest'
  <2>1. applied \in 0..wanted'  BY <1>0, <1>6, <1>11 DEF TypeRest
  <2> QED  BY <1>0, <1>2, <1>8, <2>1 DEF TypeRest
<1>14. Plain(t, k)  BY <1>2, <1>3, <1>5, <1>8, Kinds DEF Plain, Steps
<1>15. Secured'
  <2>1. config.secret # 0 \/ hist.torn  BY <1>1, <1>3, <1>4, SecretSet DEF p
  <2> QED  BY <1>1, <1>3, <1>5, <1>6, <1>8, <2>1, StepsSecured DEF p
<1>16. Undisturbed'
  <2> SUFFICES ASSUME ~b
               PROVE  Readable' /\ OneWriter' /\ Prepared' /\ OneChange' /\ InForce' /\ InFile'
    BY <1>8 DEF Undisturbed
  <2>1. Readable /\ OneWriter /\ Prepared /\ OneChange /\ InForce /\ InFile  BY <1>7 DEF IInv, Undisturbed
  <2>2. /\ pc'[t] = k /\ mine'[t] = c /\ data'[t] = data[t]
        /\ \A u \in Threads : u # t => pc'[u] = pc[u] /\ mine'[u] = mine[u] /\ data'[u] = data[u]
    BY <1>0, <1>5, StepsEffect
  <2>3. /\ \A u \in Threads \ {t} : data[u] = Nothing /\ ~Active(u) /\ ~Writing(u)
        /\ \A u \in Patches \ {t} : mine[u] = Nothing /\ ~Saving(u, pc[u])
    BY <1>0, <1>1, <1>7, Unchanging
  <2>4. Readable'  BY <1>2, <1>8, <2>1 DEF Readable
  <2>5. OneWriter'
    <3>1. \A u \in Threads : Writing(u)' <=> Writing(u)  BY <1>0, <1>5, <1>9, StepsWriting
    <3> QED  BY <1>2, <2>1, <3>1 DEF OneWriter
  <2>6. Prepared'
    <3>1. \A u \in Threads : data'[u] = Nothing  BY <1>9, <2>2, <2>3
    <3>2. \A u \in Patches : ~Saving(u, pc'[u])  BY <1>3, <2>2, <2>3, Kinds
    <3> QED  BY <3>1, <3>2 DEF Prepared
  <2>7. OneChange'
    <3>1. \A u \in Threads \ {t} : ~Active(u)'
      <4>1. \A u \in Threads : Active(u)' <=> lock' = u \/ (u \in Patches /\ mine'[u] # Nothing)  BY DEF Active
      <4> QED  BY <1>1, <2>2, <2>3, <4>1
    <3> QED  BY <3>1 DEF OneChange
  <2>8. InForce'  BY <1>1, <1>6 DEF InForce
  <2>9. InFile'  BY <1>3, <1>6, <2>2 DEF InFile
  <2> QED  BY <2>4, <2>5, <2>6, <2>7, <2>8, <2>9
<1> QED  BY <1>2, <1>10, <1>12, <1>13, <1>14, <1>15, <1>16, Composed

\* What a read notes down.
LEMMA ReadPast ==
  ASSUME IInv, NEW t \in Threads, Read(t)
  PROVE  /\ hist' \in Past /\ hist'.restarted = hist.restarted /\ hist'.panic = hist.panic
         /\ hist'.raced = hist.raced /\ (hist'.torn <=> hist.torn \/ file = Torn)
         /\ hist.disturbed => hist'.disturbed
         /\ ~hist'.disturbed => \A u \in Threads \ {t} : ~Changing(u)
<1>0. TypeRest  BY TypeParts DEF IInv, Control
<1> DEFINE b == Disturbs(t)
           r == hist.torn \/ file = Torn
<1>1. hist' = [hist EXCEPT !.disturbed = b, !.torn = r]  BY DEF Read
<1>2. hist \in Past  BY <1>0 DEF TypeRest
<1>3. b \in BOOLEAN /\ (hist.disturbed => b) /\ (~b => \A u \in Threads \ {t} : ~Changing(u))
  <2>1. hist.disturbed \in BOOLEAN  BY <1>2 DEF Past
  <2> QED  BY <2>1 DEF Disturbs
<1>4. r \in BOOLEAN  BY <1>2 DEF Past
<1>5. r <=> hist.torn \/ file = Torn  OBVIOUS
<1> HIDE DEF b, r
<1>6. /\ hist' \in Past /\ hist'.restarted = hist.restarted /\ hist'.panic = hist.panic
      /\ hist'.raced = hist.raced /\ hist'.torn = r /\ hist'.disturbed = b
  BY <1>1, <1>2, <1>3, <1>4 DEF Past
<1> QED  BY <1>3, <1>5, <1>6

\* The file does not parse: a reload ends here, main and a restart go on.
LEMMA ReadTorn == ASSUME IInv, NEW t \in Threads, Read(t), file = Torn PROVE IInv'
<1>0. Control /\ TypeOK /\ TypeRest  BY TypeParts DEF IInv, Control
<1> DEFINE p == pc[t]
           n == IF t \in Reloads THEN End(t) - p ELSE 1
           k == p + n
           m == IF t \in Reloads THEN Nothing ELSE mine[t]
<1>1. /\ process.up /\ Doing(t, p) = "read" /\ lock = "none" /\ Move(t, n, m, Nothing)
      /\ lock' = IF t \in Reloads THEN lock ELSE t
      /\ UNCHANGED <<file, config, secrets, servers, schedule, process, wanted>>
  BY <1>0, Here DEF Read, At
<1>2. UNCHANGED <<file, config, secrets, dns, api, cron, crons, applied, process, wanted>>
  BY <1>1 DEF servers, schedule
<1>3. /\ ~Locking(t, p) /\ t \notin Patches /\ (p = 1 => t = "main") /\ p < End(t) /\ (t \in Restarts => p > 4)
      /\ ~Locking(t, End(t)) /\ Locking(t, p + 1) /\ p + 1 < End(t)
      /\ Doing(t, p + 1) \notin Uses /\ Doing(t, End(t)) \notin Uses
  BY <1>0, <1>1, Positions
<1>4. p \in Nat /\ End(t) \in Nat /\ p >= 1  BY <1>0, Here
<1>5. k \in 1..End(t) /\ p < k /\ (t \in Reloads => k = End(t)) /\ (t \notin Reloads => k = p + 1)
  BY <1>3, <1>4
<1>6. Locking(t, k) <=> t \notin Reloads  BY <1>3, <1>5
<1>7. Doing(t, k) \notin Uses  BY <1>3, <1>5
<1>8. m \in {mine[t], Nothing} /\ (t \in Reloads => m = Nothing)  OBVIOUS
<1>9. Steps(t, k, m, Nothing)
  <2>1. ~(k >= End(t)) \/ m = Nothing  BY <1>3, <1>4, <1>5
  <2> HIDE DEF n, m
  <2>2. pc' = [pc EXCEPT ![t] = k] /\ mine' = [mine EXCEPT ![t] = m] /\ data' = [data EXCEPT ![t] = Nothing]
    BY <1>0, <1>1, <2>1, Moves
  <2> HIDE DEF k
  <2> QED  BY <1>1, <1>2, <1>5, <2>2 DEF Steps
<1> HIDE DEF k, p, m, n
<1>10. lock' = t <=> Locking(t, k)  BY <1>1, <1>6, Kinds
<1>11. Down' /\ LockHeld' /\ InHand'  BY <1>0, <1>1, <1>3, <1>9, <1>10, StepsControl
<1>12. TypeCore'
  <2>1. Settings' = Settings /\ FileType' = FileType  BY <1>2 DEF Settings, FileType
  <2>2. m \in Settings  BY <1>0, <1>8, SettingsOnly
  <2>3. lock' \in Threads \cup {"none"}  BY <1>1
  <2> QED  BY <1>0, <1>2, <1>9, <2>1, <2>2, <2>3, StepsType, SettingsOnly
<1>13. TypeRest'  BY <1>0, <1>2, ReadPast DEF TypeRest
<1>14. Plain(t, k)
  <2>1. /\ hist'.restarted = hist.restarted /\ hist'.panic = hist.panic /\ hist'.raced = hist.raced  BY ReadPast
  <2> QED  BY <1>2, <1>3, <1>7, <1>9, <2>1 DEF Plain, Steps, p
<1>15. Secured'
  <2>1. hist'.torn  BY ReadPast
  <2> QED  BY <1>3, <1>9, <2>1, StepsSecured DEF p
<1>16. Undisturbed'
  <2>1. hist.disturbed  BY DEF IInv, Undisturbed, Readable
  <2>2. hist'.disturbed  BY <2>1, ReadPast
  <2> QED  BY <2>2 DEF Undisturbed
<1> QED  BY <1>2, <1>11, <1>12, <1>13, <1>14, <1>15, <1>16, Composed

\* Load of a file that is not torn always ends with a secret, and makes one up only for a file without.
LEMMA LoadedHas ==
  ASSUME TypeOK, NEW t \in Threads, Read(t), file # Torn
  PROVE  /\ Loaded.v = file.v /\ Loaded.secret # 0 /\ Loaded # Nothing /\ Loaded \in Settings'
         /\ secrets' \in Nat /\ secrets' >= secrets /\ wanted' = wanted
         /\ secrets' # secrets => file.secret = 0
<1> DEFINE s == IF file.secret = 0 THEN secrets + 1 ELSE file.secret
           c == [v |-> file.v, secret |-> s]
<1>1. file.v \in 0..wanted /\ file.secret \in 0..secrets /\ secrets \in Nat /\ wanted \in Nat
  <2>1. file \in FileType /\ secrets \in Nat /\ wanted \in Nat  BY SettingsOnly
  <2> QED  BY <2>1, Files DEF FileType, Torn
<1>2. Loaded = c /\ secrets' = (IF s > secrets THEN secrets + 1 ELSE secrets) /\ wanted' = wanted
  BY DEF Read, Loaded
<1>3. s \in Nat /\ s # 0 /\ s <= secrets' /\ secrets' \in Nat /\ secrets' >= secrets
      /\ (secrets' # secrets => file.secret = 0)
  BY <1>1, <1>2
<1> HIDE DEF s
<1>4. c.v = file.v /\ c.secret = s /\ c \in Settings'  BY <1>1, <1>2, <1>3 DEF Settings
<1>5. Nothing.secret = 0  BY DEF Nothing
<1> QED  BY <1>2, <1>3, <1>4, <1>5

LEMMA ReadWhole == ASSUME IInv, NEW t \in Threads, Read(t), file # Torn PROVE IInv'
<1>0. Control /\ TypeOK /\ TypeRest  BY TypeParts DEF IInv, Control
<1> DEFINE p == pc[t]
           k == p + 1
           c == Loaded
           d == IF file = Absent THEN Nothing ELSE c
<1>1. /\ process.up /\ Doing(t, p) = "read" /\ lock = "none" /\ lock' = t /\ config' = c
      /\ Move(t, 1, mine[t], d)
      /\ UNCHANGED <<file, servers, schedule, process, wanted>>
  BY <1>0, Here DEF Read, At
<1>2. UNCHANGED <<file, dns, api, cron, crons, applied, process, wanted>>  BY <1>1 DEF servers, schedule
<1>3. /\ ~Locking(t, p) /\ Locking(t, k) /\ Saving(t, k) /\ t \notin Patches /\ k < End(t) /\ ~Saving(t, p)
      /\ (p = 1 => t = "main") /\ Doing(t, k) # "write" /\ Doing(t, k) \notin Uses /\ k \in 1..End(t) /\ p < k
      /\ t \in Restarts => p > 4
  BY <1>0, <1>1, Positions
<1>4. p \in Nat /\ End(t) \in Nat /\ k \in Nat /\ ~(k >= End(t))  BY <1>0, <1>3, Here
<1>5. /\ c.v = file.v /\ c.secret # 0 /\ c # Nothing /\ c \in Settings'
      /\ secrets' \in Nat /\ secrets' >= secrets /\ wanted' = wanted
  BY <1>0, LoadedHas
<1> HIDE DEF c
<1>6. d \in {c, Nothing}  OBVIOUS
<1> HIDE DEF d
<1>7. Steps(t, k, mine[t], d)
  <2>1. pc' = [pc EXCEPT ![t] = k] /\ mine' = [mine EXCEPT ![t] = mine[t]] /\ data' = [data EXCEPT ![t] = d]
    BY <1>0, <1>1, <1>4, Moves
  <2> QED  BY <1>1, <1>2, <1>3, <2>1 DEF Steps
<1> HIDE DEF k, p
<1>8. Down' /\ LockHeld' /\ InHand'  BY <1>0, <1>1, <1>3, <1>7, StepsControl
<1>9. TypeCore'
  <2>0. wanted \in Nat /\ secrets \in Nat  BY <1>0, SettingsOnly
  <2>1. Settings \subseteq Settings' /\ FileType \subseteq FileType'
    <3>1. 0..secrets \subseteq 0..secrets' /\ wanted' = wanted  BY <1>5, <2>0
    <3> QED  BY <3>1 DEF Settings, FileType
  <2>2. file' \in FileType' /\ mine[t] \in Settings' /\ Nothing \in Settings'  BY <1>0, <1>2, <2>1, SettingsOnly
  <2>3. d \in Settings' /\ config' \in Settings'  BY <1>1, <1>5, <1>6, <2>2
  <2>4. wanted' \in Nat /\ wanted' >= wanted  BY <1>5, <2>0
  <2> QED  BY <1>0, <1>1, <1>5, <1>7, <2>2, <2>3, <2>4, StepsType
<1>10. TypeRest'
  <2>1. hist' \in Past  BY ReadPast
  <2> QED  BY <1>0, <1>2, <2>1 DEF TypeRest
<1>11. Plain(t, k)
  <2>1. hist'.restarted = hist.restarted /\ hist'.panic = hist.panic /\ hist'.raced = hist.raced  BY ReadPast
  <2> QED  BY <1>2, <1>3, <1>7, <2>1 DEF Plain, Steps, p
<1>12. Secured'
  <2>1. config'.secret # 0  BY <1>1, <1>5
  <2> QED  BY <1>3, <1>7, <2>1, StepsSecured DEF p
<1>13. Undisturbed'
  <2> SUFFICES ASSUME ~hist'.disturbed
               PROVE  Readable' /\ OneWriter' /\ Prepared' /\ OneChange' /\ InForce' /\ InFile'
    BY DEF Undisturbed
  <2>0. ~hist.disturbed /\ (\A u \in Threads \ {t} : ~Changing(u)) /\ (hist'.torn <=> hist.torn)  BY ReadPast
  <2>1. Readable /\ OneWriter /\ Prepared /\ OneChange /\ InForce /\ InFile  BY <2>0 DEF IInv, Undisturbed
  <2>2. /\ pc'[t] = k /\ mine'[t] = mine[t] /\ data'[t] = d
        /\ \A u \in Threads : u # t => pc'[u] = pc[u] /\ mine'[u] = mine[u] /\ data'[u] = data[u]
    BY <1>0, <1>7, StepsEffect
  <2>3. /\ \A u \in Threads \ {t} : data[u] = Nothing /\ ~Active(u) /\ ~Writing(u)
        /\ \A u \in Patches \ {t} : mine[u] = Nothing /\ ~Saving(u, pc[u])
    BY <1>0, <1>1, <2>0, Unchanging
  <2>4. ~Writing(t) /\ ~Writing(t)'
    <3>1. Doing(t, pc[t]) # "write"  BY <1>1 DEF p
    <3> QED  BY <1>0, <1>3, <1>7, <3>1, StepsWriting
  <2>5. file # Empty  BY <2>1, <2>3, <2>4 DEF OneWriter
  <2>6. c.v = wanted
    <3>1. \A u \in Patches : mine[u] = Nothing  BY <1>3, <2>3
    <3> QED  BY <1>5, <2>1, <2>5, <3>1 DEF InFile
  <2>7. Readable'  BY <1>2, <2>0, <2>1 DEF Readable
  <2>8. OneWriter'
    <3>1. \A u \in Threads : Writing(u)' <=> Writing(u)  BY <1>0, <1>7, <2>4, StepsWriting
    <3> QED  BY <1>2, <2>1, <3>1 DEF OneWriter
  <2>9. Prepared'
    <3>1. \A u \in Threads : data'[u] # Nothing => data'[u].secret # 0 /\ data'[u].v = wanted
      BY <1>5, <1>6, <2>2, <2>3, <2>6
    <3>2. \A u \in Patches : ~Saving(u, pc'[u])  BY <1>3, <2>2, <2>3, Kinds
    <3> QED  BY <1>2, <3>1, <3>2 DEF Prepared
  <2>10. OneChange'
    <3>1. \A u \in Threads \ {t} : ~Active(u)'
      <4>1. \A u \in Threads : Active(u)' <=> lock' = u \/ (u \in Patches /\ mine'[u] # Nothing)  BY DEF Active
      <4> QED  BY <1>1, <2>2, <2>3, <4>1
    <3> QED  BY <3>1 DEF OneChange
  <2>11. InForce'  BY <1>1, <1>2, <2>6 DEF InForce
  <2>12. InFile'
    <3>1. file.v = wanted  BY <1>5, <2>6
    <3> QED  BY <1>2, <3>1 DEF InFile
  <2> QED  BY <2>7, <2>8, <2>9, <2>10, <2>11, <2>12
<1> QED  BY <1>2, <1>8, <1>9, <1>10, <1>11, <1>12, <1>13, Composed
-----------------------------------------------------------------------------
\* A goroutine that has not begun or has come to its end.
LEMMA AtRest ==
  ASSUME NEW t \in Threads
  PROVE  \A k \in {1, End(t)} :
           /\ ~(k > 1 /\ k < End(t)) /\ ~Locking(t, k) /\ ~Saving(t, k) /\ (t \in Patches => ~Patching(k))
           /\ Doing(t, k) \notin Uses /\ k \in Nat /\ k \in 1..End(t)
<1> USE DEF Locking, Saving, Patching, Doing, Do, Uses
<1>1. CASE t = "main"  BY <1>1, MainAt, Kinds
<1>2. CASE t \in Restarts  BY <1>2, RestartAt, Kinds
<1>3. CASE t \in Patches  BY <1>3, PatchAt, Kinds
<1>4. CASE t \in Reloads  BY <1>4, ReloadAt, Kinds
<1> QED  BY <1>1, <1>2, <1>3, <1>4, Kinds

\* The end of the process: nothing but the file stays, and it is as it was unless someone was writing it.
LEMMA DieStep ==
  ASSUME IInv, process.up, NEW why \in {"killed", "exit", "cron", "stopCh"}, Die(why),
         why = "killed" => process.crashes < MaxCrashes,
         why = "cron" => hist.raced, why = "stopCh" => hist.restarted
  PROVE  IInv'
<1>0. Control /\ TypeOK /\ TypeCore /\ TypeRest  BY TypeParts DEF IInv, Control
<1>1. /\ \A u \in Threads : mine'[u] = Nothing /\ data'[u] = Nothing
      /\ \A u \in Threads : pc'[u] = IF InFlight(u) \/ u = "main" THEN End(u) ELSE pc[u]
      /\ config' = Nothing /\ lock' = "none" /\ dns' = NewDNS /\ api' = NewAPI
      /\ cron' = 0 /\ crons' = <<>> /\ applied' = 0 /\ secrets' = secrets /\ wanted' = wanted
      /\ file' \in Leftover
  BY DEF Die
<1>2. \A u \in Threads : pc'[u] \in {1, End(u)}
  <2> SUFFICES ASSUME NEW u \in Threads PROVE pc'[u] \in {1, End(u)}  OBVIOUS
  <2>1. pc[u] \in 1..End(u) /\ End(u) \in Nat  BY <1>0, Here
  <2>2. ~InFlight(u) => pc[u] = 1 \/ pc[u] = End(u)  BY <2>1 DEF InFlight
  <2> QED  BY <1>1, <2>2
<1>3. \A u \in Threads : /\ ~(pc'[u] > 1 /\ pc'[u] < End(u)) /\ ~Locking(u, pc'[u]) /\ ~Saving(u, pc'[u])
                         /\ (u \in Patches => ~Patching(pc'[u])) /\ Doing(u, pc'[u]) \notin Uses
                         /\ pc'[u] \in Nat /\ pc'[u] \in 1..End(u)
  BY <1>2, AtRest
<1>4. \A u \in Threads : ~InFlight(u)'
  <2>1. \A u \in Threads : InFlight(u)' <=> pc'[u] > 1 /\ pc'[u] < End(u)  BY DEF InFlight
  <2> QED  BY <1>3, <2>1
<1> DEFINE n == IF why = "killed" THEN process.crashes + 1 ELSE process.crashes
           b == Disturbs("none")
<1>5. process' = [process EXCEPT !.up = FALSE, !.crashes = n] /\ hist' = [hist EXCEPT !.panic = why, !.disturbed = b]
  BY DEF Die
<1>6. n \in 0..MaxCrashes
  <2>1. process.crashes \in 0..MaxCrashes  BY <1>0 DEF TypeCore
  <2>2. MaxCrashes \in Nat  BY LifecycleConstants
  <2> QED  BY <2>1, <2>2
<1>7. b \in BOOLEAN /\ (hist.disturbed => b) /\ (~b => \A u \in Threads : ~Changing(u))
  <2>1. hist.disturbed \in BOOLEAN  BY <1>0 DEF TypeRest, Past
  <2> QED  BY <2>1, Kinds DEF Disturbs
<1> HIDE DEF n, b
<1>8. process' \in [up : BOOLEAN, boots : Nat, crashes : 0..MaxCrashes] /\ ~process'.up
  BY <1>0, <1>5, <1>6 DEF TypeCore
<1>9. /\ hist' \in Past /\ hist'.restarted = hist.restarted /\ hist'.panic = why
      /\ hist'.disturbed = b /\ hist'.torn = hist.torn /\ hist'.raced = hist.raced
  <2>1. hist \in Past  BY <1>0 DEF TypeRest
  <2> QED  BY <1>5, <1>7, <2>1 DEF Past
<1>10. TypeCore'
  <2>1. Settings' = Settings /\ Nothing \in Settings /\ wanted \in Nat /\ secrets \in Nat
    BY <1>0, <1>1, SettingsOnly DEF Settings
  <2>2. mine' \in [Threads -> Settings] /\ data' \in [Threads -> Settings]
    <3>1. mine' = [u \in Threads |-> Nothing] /\ data' = [u \in Threads |-> Nothing]  BY DEF Die
    <3> HIDE DEF Nothing, Settings
    <3> QED  BY <2>1, <3>1
  <2>3. pc' \in [Threads -> Nat] /\ \A u \in Threads : pc'[u] \in 1..End(u)
    <3>1. pc' = [u \in Threads |-> pc'[u]]  BY DEF Die
    <3> QED  BY <1>3, <3>1
  <2>4. file' \in {file, Torn}  BY <1>1 DEF Leftover
  <2> QED  BY <1>0, <1>1, <1>8, <2>1, <2>2, <2>3, <2>4 DEF TypeCore
<1>11. TypeRest'
  <2>1. crons' \in Seq(Cron) /\ Len(crons') = 0  BY <1>1, EmptySeq
  <2>2. dns' \in [running : BOOLEAN, closed : BOOLEAN, gen : Nat, starting : Nat, bound : Nat] /\ dns'.bound <= dns'.gen
    BY <1>1 DEF NewDNS
  <2>3. api' \in [gen : Nat, shut : BOOLEAN, starting : Nat, bound : Nat] /\ api'.bound <= api'.gen
    BY <1>1 DEF NewAPI
  <2>4. wanted' \in Nat  BY <1>0, <1>1, SettingsOnly
  <2> QED  BY <1>1, <1>9, <2>1, <2>2, <2>3, <2>4 DEF TypeRest
<1>12. Down'
  <2>1. pc'["main"] = End("main")  BY <1>1, Kinds
  <2> QED  BY <1>1, <1>4, <2>1 DEF Down
<1>13. LockHeld'  BY <1>1, <1>3, Kinds DEF LockHeld
<1>14. InHand'  BY <1>1, <1>3, Kinds DEF InHand
<1>15. Restarted'  BY <1>4, Kinds DEF Restarted
<1>16. StopOnce'  BY <1>1 DEF StopOnce, NewDNS
<1>17. HasCron'
  <2>1. \A u \in Threads : Doing(u, pc[u])' = Doing(u, pc'[u])  BY DEF Doing, Element
  <2> QED  BY <1>3, <2>1 DEF HasCron, Uses
<1>18. Secured'  BY <1>1, <1>4, <1>8 DEF Secured
<1>19. PanicExplained'  BY <1>9 DEF PanicExplained
<1>20. Undisturbed'
  <2> SUFFICES ASSUME ~b
               PROVE  Readable' /\ OneWriter' /\ Prepared' /\ OneChange' /\ InForce' /\ InFile'
    BY <1>9 DEF Undisturbed
  <2>1. Readable /\ OneWriter /\ Prepared /\ OneChange /\ InForce /\ InFile  BY <1>7 DEF IInv, Undisturbed
  <2>2. (\A u \in Threads : ~Writing(u)) /\ (\A u \in Patches : mine[u] = Nothing)
    BY <1>7, Kinds DEF Changing
  <2>3. file' = file /\ file # Empty  BY <1>1, <2>1, <2>2 DEF Leftover, OneWriter
  <2>4. Readable'  BY <1>9, <2>1, <2>3 DEF Readable
  <2>5. OneWriter'
    <3>1. \A u \in Threads : ~Writing(u)'  BY <1>8 DEF Writing
    <3> QED  BY <2>3, <3>1 DEF OneWriter
  <2>6. Prepared'  BY <1>1, <1>3, Kinds DEF Prepared
  <2>7. OneChange'
    <3>1. \A u \in Threads : ~Active(u)'
      <4>1. \A u \in Threads : Active(u)' <=> lock' = u \/ (u \in Patches /\ mine'[u] # Nothing)  BY DEF Active
      <4> QED  BY <1>1, <4>1, Kinds
    <3> QED  BY <3>1 DEF OneChange
  <2>8. InForce'  BY <1>8 DEF InForce
  <2>9. InFile'
    <3>1. file.v = wanted  BY <2>1, <2>2, <2>3 DEF InFile
    <3> QED  BY <1>1, <2>3, <3>1 DEF InFile
  <2> QED  BY <2>4, <2>5, <2>6, <2>7, <2>8, <2>9
<1>21. TypeOK'  BY <1>10, <1>11 DEF TypeOK, TypeCore, TypeRest, Cron, Past
<1> QED  BY <1>12, <1>13, <1>14, <1>15, <1>16, <1>17, <1>18, <1>19, <1>20, <1>21 DEF IInv, Control

\* A request that panics gives up what it was doing; if it was a PATCH, its change is left half done.
LEMMA RequestPanics ==
  ASSUME IInv, NEW t \in Threads, NEW why, process.up, Doing(t, pc[t]) \in Uses, t \in Requests, Panic(t, why)
  PROVE  IInv'
<1>0. Control /\ TypeOK /\ TypeRest  BY TypeParts DEF IInv, Control
<1> DEFINE k == End(t)
           b == hist.disturbed \/ t \in Patches
<1>1. /\ pc' = [pc EXCEPT ![t] = k] /\ mine' = [mine EXCEPT ![t] = Nothing]
      /\ lock' = IF lock = t THEN "none" ELSE lock
      /\ hist' = [hist EXCEPT !.disturbed = b]
      /\ UNCHANGED <<data, file, config, secrets, dns, api, cron, crons, applied, process, wanted>>
  BY DEF Panic, servers, schedule
<1>2. /\ hist' \in Past /\ hist'.restarted = hist.restarted /\ hist'.panic = hist.panic
      /\ (hist'.disturbed <=> b) /\ hist'.torn = hist.torn /\ hist'.raced = hist.raced
  <2>1. hist \in Past /\ b \in BOOLEAN  BY <1>0 DEF TypeRest, Past
  <2> HIDE DEF b
  <2> QED  BY <1>1, <2>1 DEF Past
<1>3. TypeRest'  BY <1>0, <1>1, <1>2 DEF TypeRest
<1>4. /\ pc[t] \in Nat /\ k \in Nat /\ k \in 1..End(t) /\ pc[t] < k /\ pc[t] # 1 /\ Doing(t, k) \notin Uses
      /\ ~Locking(t, k) /\ ~Saving(t, k) /\ ~Saving(t, pc[t]) /\ t \notin Restarts
      /\ t \in Reloads => ~Locking(t, pc[t]) /\ t \notin Patches
      /\ t \in Patches => ~Patching(k)
      /\ t \in Reloads \/ t \in Patches
  <2>1. pc[t] \in 1..End(t) /\ (t \in Reloads \/ t \in Patches)  BY <1>0, Here DEF Requests
  <2> USE DEF Doing, Do, Uses, Locking, Saving, Patching
  <2>2. CASE t \in Reloads  BY <2>1, <2>2, ReloadAt, Where, Kinds
  <2>3. CASE t \in Patches  BY <2>1, <2>3, PatchAt, Where, Kinds
  <2> QED  BY <2>1, <2>2, <2>3
<1> HIDE DEF k
<1>5. Plain(t, k)  BY <1>1, <1>2, <1>4 DEF Plain, k
<1>6. CASE t \in Reloads
  <2>1. lock' = lock  BY <1>0, <1>1, <1>4, <1>6 DEF Control, LockHeld
  <2>2. hist'.disturbed = hist.disturbed
    <3>1. hist \in Past /\ hist' \in Past /\ (hist'.disturbed <=> hist.disturbed)
      BY <1>0, <1>2, <1>4, <1>6 DEF TypeRest
    <3> QED  BY <3>1 DEF Past
  <2>3. Aside(t, k, Nothing)  BY <1>1, <1>2, <1>4, <1>6, <2>1, <2>2, Kinds DEF Aside, k
  <2>4. StopOnce'  BY <1>1, <1>5, StopKept
  <2> QED  BY <1>3, <1>5, <2>3, <2>4, Together
<1>7. CASE t \in Patches
  <2>1. data[t] = Nothing  BY <1>0, <1>4 DEF Control, InHand
  <2>2. Steps(t, k, Nothing, Nothing)
    <3>1. data' = [data EXCEPT ![t] = Nothing]  BY <1>0, <1>1, <2>1 DEF TypeOK
    <3> QED  BY <1>1, <1>4, <3>1 DEF Steps, k
  <2>3. lock' # t  BY <1>1, Kinds
  <2>4. lock' # lock => lock \in {t, "none"} /\ lock' \in {t, "none"}  BY <1>1
  <2>5. Down' /\ LockHeld' /\ InHand'  BY <1>0, <1>4, <2>2, <2>3, <2>4, StepsControl
  <2>6. TypeCore'
    <3>1. Settings' = Settings /\ FileType' = FileType  BY <1>1 DEF Settings, FileType
    <3>2. lock' \in Threads \cup {"none"}  BY <1>0, <1>1, SettingsOnly
    <3> QED  BY <1>0, <1>1, <2>2, <3>1, <3>2, StepsType, SettingsOnly
  <2>7. Secured'
    <3>1. config.secret # 0 \/ hist.torn  BY <1>4, SecretSet DEF k
    <3> QED  BY <1>1, <1>2, <1>4, <2>2, <3>1, StepsSecured
  <2>8. Undisturbed'  BY <1>2, <1>7 DEF Undisturbed
  <2> QED  BY <1>1, <1>3, <1>5, <2>5, <2>6, <2>7, <2>8, Composed
<1> QED  BY <1>4, <1>6, <1>7

\* Anything else that panics ends the process, and only for the two reasons there are.
LEMMA CronStep ==
  ASSUME IInv, NEW t \in Threads, StopCron(t) \/ AddFunc(t) \/ StartCron(t)
  PROVE  IInv'
<1>0. Control /\ TypeOK /\ TypeRest  BY TypeParts DEF IInv, Control
<1>1. \E what \in Uses, c \in Cron : Use(t, what, c)
  <2>1. CASE StopCron(t)  BY <1>0, <2>1, CurrentType DEF StopCron, Uses
  <2>2. CASE AddFunc(t)  BY <1>0, <2>2, CurrentType DEF AddFunc, Uses
  <2>3. CASE StartCron(t)  BY <1>0, <2>3, CurrentType DEF StartCron, Uses
  <2> QED  BY <2>1, <2>2, <2>3
<1>2. PICK what \in Uses, c \in Cron : Use(t, what, c)  BY <1>1
<1>3. process.up /\ Doing(t, pc[t]) \in Uses  BY <1>0, <1>2, Here DEF Use, At
<1>4. CASE cron # 0  BY <1>2, <1>4, UseStep
<1>5. CASE cron = 0
  <2>1. Panic(t, "cron")  BY <1>2, <1>5 DEF Use
  <2>2. hist.raced  BY <1>3, <1>5 DEF IInv, HasCron
  <2>3. CASE t \in Requests  BY <1>3, <2>1, <2>3, RequestPanics
  <2>4. CASE t \notin Requests
    <3>1. Die("cron")  BY <2>1, <2>4 DEF Panic
    <3> QED  BY <1>3, <2>2, <3>1, DieStep
  <2> QED  BY <2>3, <2>4
<1> QED  BY <1>4, <1>5

LEMMA DNSStopAnyStep == ASSUME IInv, NEW t \in Threads, DNSStop(t) PROVE IInv'
<1>0. Control /\ TypeOK /\ TypeRest  BY TypeParts DEF IInv, Control
<1>1. CASE ~(dns.running /\ dns.closed)  BY <1>1, DNSStopStep
<1>2. CASE dns.running /\ dns.closed
  <2>1. process.up /\ Doing(t, pc[t]) = "dnsStop" /\ Panic(t, "stopCh")  BY <1>0, <1>2, Here DEF DNSStop, At
  <2>2. t \notin Requests  BY <1>0, <2>1, Here, Where, Kinds DEF Requests
  <2>3. Die("stopCh")  BY <2>1, <2>2 DEF Panic
  <2>4. hist.restarted  BY <1>2 DEF IInv, StopOnce
  <2> QED  BY <2>1, <2>3, <2>4, DieStep
<1> QED  BY <1>1, <1>2

LEMMA BootStep == ASSUME IInv, Boot PROVE IInv'
<1>0. Control /\ TypeOK /\ TypeCore /\ TypeRest  BY TypeParts DEF IInv, Control
<1>m. "main" \in Threads  BY Kinds
<1> DEFINE n == process.boots + 1
           b == hist.disturbed
<1>1. /\ ~process.up /\ process' = [process EXCEPT !.up = TRUE, !.boots = n]
      /\ pc' = [pc EXCEPT !["main"] = 1] /\ hist' = [NoHistory EXCEPT !.disturbed = b]
      /\ UNCHANGED <<mine, data, file, config, lock, secrets, dns, api, cron, crons, applied, wanted>>
  BY DEF Boot, store, servers, schedule
<1>2. n \in Nat /\ b \in BOOLEAN  BY <1>0 DEF TypeCore, TypeRest, Past
<1> HIDE DEF n, b
<1>3. process' \in [up : BOOLEAN, boots : Nat, crashes : 0..MaxCrashes] /\ process'.up
  BY <1>0, <1>1, <1>2 DEF TypeCore
<1>4. hist' \in Past /\ hist'.disturbed = b /\ ~hist'.torn /\ ~hist'.raced /\ ~hist'.restarted /\ hist'.panic = "no"
  BY <1>1, <1>2 DEF NoHistory, Past
<1>5. /\ dns = NewDNS /\ api = NewAPI /\ config = Nothing /\ pc["main"] = End("main")
      /\ \A u \in Threads : ~InFlight(u)
  BY <1>0, <1>1 DEF Control, Down
<1>6. pc'["main"] = 1 /\ \A u \in Threads : u # "main" => pc'[u] = pc[u]  BY <1>0, <1>1, <1>m DEF TypeCore
<1>7. \A u \in Threads : pc[u] \in {1, End(u)} /\ pc'[u] \in {1, End(u)}
  <2> SUFFICES ASSUME NEW u \in Threads PROVE pc[u] \in {1, End(u)}  BY <1>6
  <2>1. pc[u] \in 1..End(u) /\ End(u) \in Nat  BY <1>0, Here
  <2> QED  BY <1>5, <2>1 DEF InFlight
<1>8. \A u \in Threads : /\ ~(pc'[u] > 1 /\ pc'[u] < End(u)) /\ ~Locking(u, pc'[u]) /\ ~Saving(u, pc'[u])
                         /\ (u \in Patches => ~Patching(pc'[u])) /\ Doing(u, pc'[u]) \notin Uses
                         /\ pc'[u] \in Nat /\ pc'[u] \in 1..End(u)
                         /\ ~Locking(u, pc[u]) /\ ~Saving(u, pc[u]) /\ (u \in Patches => ~Patching(pc[u]))
  BY <1>7, AtRest
<1>9. \A u \in Threads : ~InFlight(u)'
  <2>1. \A u \in Threads : InFlight(u)' <=> pc'[u] > 1 /\ pc'[u] < End(u)  BY DEF InFlight
  <2> QED  BY <1>8, <2>1
<1>10. /\ \A u \in Threads : data[u] = Nothing /\ lock # u
       /\ \A u \in Patches : mine[u] = Nothing
  BY <1>0, <1>8, Kinds DEF Control, InHand, LockHeld
<1>11. TypeCore'
  <2>1. Settings' = Settings  BY <1>1 DEF Settings
  <2>2. pc' \in [Threads -> Nat]  BY <1>0, <1>1 DEF TypeCore
  <2> QED  BY <1>0, <1>1, <1>3, <1>8, <2>1, <2>2 DEF TypeCore
<1>12. TypeRest'  BY <1>0, <1>1, <1>4 DEF TypeRest
<1>13. Down' /\ LockHeld' /\ InHand'
  <2>1. Down'  BY <1>3 DEF Down
  <2>2. LockHeld'  BY <1>1, <1>8, <1>10 DEF LockHeld
  <2>3. InHand'  BY <1>1, <1>8, <1>10, Kinds DEF InHand
  <2> QED  BY <2>1, <2>2, <2>3
<1>14. Restarted' /\ StopOnce'  BY <1>1, <1>5, <1>9, Kinds DEF Restarted, StopOnce, NewDNS
<1>15. HasCron'
  <2>1. \A u \in Threads : Doing(u, pc[u])' = Doing(u, pc'[u])  BY DEF Doing, Element
  <2> QED  BY <1>8, <2>1 DEF HasCron, Uses
<1>16. Secured'  BY <1>1, <1>4, <1>5, <1>6, <1>9 DEF Secured, Nothing
<1>17. PanicExplained'  BY <1>4 DEF PanicExplained
<1>18. Undisturbed'
  <2> SUFFICES ASSUME ~b
               PROVE  Readable' /\ OneWriter' /\ Prepared' /\ OneChange' /\ InForce' /\ InFile'
    BY <1>4 DEF Undisturbed
  <2>1. Readable /\ OneWriter /\ Prepared /\ OneChange /\ InForce /\ InFile  BY DEF IInv, Undisturbed, b
  <2>2. Readable'  BY <1>1, <1>4, <2>1 DEF Readable
  <2>3. OneWriter'
    <3>1. \A u \in Threads : ~Writing(u) /\ ~Writing(u)'  BY <1>1, <1>10 DEF Writing
    <3> QED  BY <1>1, <2>1, <3>1 DEF OneWriter
  <2>4. Prepared'  BY <1>1, <1>8, <1>10, Kinds DEF Prepared
  <2>5. OneChange'
    <3>1. \A u \in Threads : ~Active(u)'
      <4>1. \A u \in Threads : Active(u)' <=> lock' = u \/ (u \in Patches /\ mine'[u] # Nothing)  BY DEF Active
      <4> QED  BY <1>1, <1>10, <4>1
    <3> QED  BY <3>1 DEF OneChange
  <2>6. InForce'  BY <1>6 DEF InForce
  <2>7. InFile'  BY <1>1, <2>1 DEF InFile
  <2> QED  BY <2>2, <2>3, <2>4, <2>5, <2>6, <2>7
<1>19. TypeOK'  BY <1>11, <1>12 DEF TypeOK, TypeCore, TypeRest, Cron, Past
<1> QED  BY <1>13, <1>14, <1>15, <1>16, <1>17, <1>18, <1>19 DEF IInv, Control

\* What depends on the servers at all.
LEMMA ServersOnly ==
  ASSUME IInv, process.up, TypeRest', Secured', dns'.running = dns.running, dns'.closed = dns.closed,
         UNCHANGED <<proc, store, schedule, process, wanted, hist>>
  PROVE  IInv'
<1> USE DEF proc, store, schedule
<1>0. TypeCore /\ Control  BY TypeParts DEF IInv, Control
<1>1. TypeCore'  BY <1>0 DEF TypeCore, Settings
<1>2. TypeOK'  BY <1>1 DEF TypeOK, TypeCore, TypeRest, Cron, Past
<1>3. Down' /\ LockHeld' /\ InHand'  BY <1>0 DEF Control, Down, LockHeld, InHand
<1>4. \A u \in Threads : (InFlight(u)' <=> InFlight(u)) /\ (Writing(u)' <=> Writing(u)) /\ (Active(u)' <=> Active(u))
  BY DEF InFlight, Writing, Op, Active
<1>5. Restarted' /\ StopOnce'
  <2>1. Restarted'  BY <1>4, Kinds DEF IInv, Restarted
  <2>2. StopOnce'  BY DEF IInv, StopOnce
  <2> QED  BY <2>1, <2>2
<1>6. HasCron'
  <2>1. \A u \in Threads : Doing(u, pc[u])' = Doing(u, pc[u])  BY DEF Doing, Element
  <2> QED  BY <2>1 DEF IInv, HasCron, Uses
<1>7. PanicExplained'  BY DEF IInv, PanicExplained
<1>8. Undisturbed'
  <2> SUFFICES ASSUME ~hist.disturbed
               PROVE  Readable' /\ OneWriter' /\ Prepared' /\ OneChange' /\ InForce' /\ InFile'
    BY DEF Undisturbed
  <2>1. Readable /\ OneWriter /\ Prepared /\ OneChange /\ InForce /\ InFile  BY DEF IInv, Undisturbed
  <2>2. Readable' /\ Prepared' /\ InForce' /\ InFile'  BY <2>1 DEF Readable, Prepared, InForce, InFile
  <2>3. OneWriter' /\ OneChange'  BY <1>4, <2>1 DEF OneWriter, OneChange
  <2> QED  BY <2>2, <2>3
<1> QED  BY <1>2, <1>3, <1>5, <1>6, <1>7, <1>8 DEF IInv, Control

LEMMA DNSBindStep == ASSUME IInv, DNSBind PROVE IInv'
<1>0. TypeRest  BY TypeParts DEF IInv, Control
<1> DEFINE s == dns.starting - 1
           b == IF dns.bound = 0 THEN dns.gen ELSE dns.bound
<1>1. /\ process.up /\ dns.starting > 0 /\ dns' = [dns EXCEPT !.starting = s, !.bound = b]
      /\ UNCHANGED <<proc, store, api, schedule, process, wanted, hist>>
  BY DEF DNSBind
<1>2. dns \in Server /\ dns.bound <= dns.gen  BY <1>0 DEF TypeRest, Server
<1>3. s \in Nat /\ b \in Nat /\ b <= dns.gen  BY <1>1, <1>2, ServerFields
<1> HIDE DEF s, b
<1>4. /\ dns' \in Server /\ dns'.gen = dns.gen /\ dns'.bound = b
      /\ dns'.running = dns.running /\ dns'.closed = dns.closed
  BY <1>1, <1>2, <1>3 DEF Server
<1>5. TypeRest'  BY <1>0, <1>1, <1>3, <1>4 DEF TypeRest, Server, schedule
<1>6. Secured'
  <2>1. \A u \in Threads : InFlight(u)' <=> InFlight(u)  BY <1>1 DEF InFlight, proc
  <2> QED  BY <1>1, <2>1 DEF IInv, Secured, proc, store
<1> QED  BY <1>1, <1>4, <1>5, <1>6, ServersOnly

LEMMA APIBindStep == ASSUME IInv, APIBind PROVE IInv'
<1>0. TypeRest  BY TypeParts DEF IInv, Control
<1> DEFINE s == api.starting - 1
           b == IF api.bound = 0 /\ ~api.shut THEN api.gen ELSE api.bound
<1>1. /\ process.up /\ api.starting > 0 /\ api' = [api EXCEPT !.starting = s, !.bound = b]
      /\ UNCHANGED <<proc, store, dns, schedule, process, wanted, hist>>
  BY DEF APIBind
<1>2. api \in Listener /\ api.bound <= api.gen  BY <1>0 DEF TypeRest, Listener
<1>3. s \in Nat /\ b \in Nat /\ b <= api.gen  BY <1>1, <1>2, ServerFields
<1> HIDE DEF s, b
<1>4. api' \in Listener /\ api'.gen = api.gen /\ api'.bound = b  BY <1>1, <1>2, <1>3 DEF Listener
<1>5. TypeRest'  BY <1>0, <1>1, <1>3, <1>4 DEF TypeRest, Listener, schedule
<1>6. Secured'
  <2>1. config.secret # 0 \/ hist.torn
    <3>1. NewAPI.starting = 0  BY DEF NewAPI
    <3> QED  BY <1>1, <3>1 DEF IInv, Secured
  <2> QED  BY <1>1, <2>1 DEF IInv, Secured, proc, store
<1> QED  BY <1>1, <1>5, <1>6, ServersOnly

LEMMA Unmoved == ASSUME IInv, UNCHANGED vars PROVE IInv'
<1> USE DEF vars, proc, store, servers, schedule
<1>0. TypeCore /\ TypeRest /\ Control  BY TypeParts DEF IInv, Control
<1>1. TypeCore' /\ TypeRest'  BY <1>0 DEF TypeCore, TypeRest, Settings
<1>2. TypeOK'  BY <1>1 DEF TypeOK, TypeCore, TypeRest, Cron, Past
<1>3. \A u \in Threads : (InFlight(u)' <=> InFlight(u)) /\ (Writing(u)' <=> Writing(u)) /\ (Active(u)' <=> Active(u))
  BY DEF InFlight, Writing, Op, Active
<1>4. Down' /\ LockHeld' /\ InHand'  BY <1>0, <1>3 DEF Control, Down, LockHeld, InHand
<1>5. Restarted'  BY <1>3, Kinds DEF IInv, Restarted
<1>6. StopOnce' /\ PanicExplained'  BY DEF IInv, StopOnce, PanicExplained
<1>7. HasCron'
  <2>1. \A u \in Threads : Doing(u, pc[u])' = Doing(u, pc[u])  BY DEF Doing, Element
  <2> QED  BY <2>1 DEF IInv, HasCron, Uses
<1>8. Secured'  BY <1>3 DEF IInv, Secured
<1>9. Undisturbed'
  <2> SUFFICES ASSUME ~hist.disturbed
               PROVE  Readable' /\ OneWriter' /\ Prepared' /\ OneChange' /\ InForce' /\ InFile'
    BY DEF Undisturbed
  <2>1. Readable /\ OneWriter /\ Prepared /\ OneChange /\ InForce /\ InFile  BY DEF IInv, Undisturbed
  <2>2. Readable' /\ Prepared' /\ InForce' /\ InFile'  BY <2>1 DEF Readable, Prepared, InForce, InFile
  <2>3. OneWriter' /\ OneChange'  BY <1>3, <2>1 DEF OneWriter, OneChange
  <2> QED  BY <2>2, <2>3
<1> QED  BY <1>2, <1>4, <1>5, <1>6, <1>7, <1>8, <1>9 DEF IInv, Control
-----------------------------------------------------------------------------
LEMMA StepStep == ASSUME IInv, NEW t \in Threads, Step(t) PROVE IInv'
<1>0. TypeOK  BY DEF IInv, Control
<1>1. CASE Exit(t)
  <2>1. process.up /\ Die("exit")  BY <1>1 DEF Exit, At
  <2> QED  BY <2>1, DieStep
<1>2. CASE Read(t)
  <2>1. CASE file = Torn  BY <1>2, <2>1, ReadTorn
  <2>2. CASE file # Torn  BY <1>2, <2>2, ReadWhole
  <2> QED  BY <2>1, <2>2
<1>3. CASE Unlock(t)  BY <1>3, UnlockStep
<1>4. CASE Truncate(t)  BY <1>4, TruncateStep
<1>5. CASE Write(t)  BY <1>5, WriteStep
<1>6. CASE Get(t)  BY <1>6, GetStep
<1>7. CASE Marshal(t)  BY <1>7, MarshalStep
<1>8. CASE Update(t)  BY <1>8, UpdateStep
<1>9. CASE Check(t)  BY <1>9, CheckStep
<1>10. CASE StopCron(t) \/ AddFunc(t) \/ StartCron(t)  BY <1>10, CronStep
<1>11. CASE NilCron(t)  BY <1>11, NilStep
<1>12. CASE NewCron(t)  BY <1>12, NewStep
<1>13. CASE DNSStart(t)  BY <1>13, DNSStartStep
<1>14. CASE DNSStop(t)  BY <1>14, DNSStopAnyStep
<1>15. CASE APIStart(t) \/ APIStop(t)  BY <1>15, APIStep
<1> QED  BY <1>1, <1>2, <1>3, <1>4, <1>5, <1>6, <1>7, <1>8, <1>9, <1>10, <1>11, <1>12, <1>13, <1>14, <1>15 DEF Step

LEMMA NextStep == ASSUME IInv, [Next]_vars PROVE IInv'
<1>1. CASE \E t \in Threads : Step(t)  BY <1>1, StepStep
<1>2. CASE DNSBind  BY <1>2, DNSBindStep
<1>3. CASE APIBind  BY <1>3, APIBindStep
<1>4. CASE \E t \in Threads : Request(t) \/ Signal(t)  BY <1>4, RequestStep, SignalStep
<1>5. CASE Crash
  <2>1. process.up /\ process.crashes < MaxCrashes /\ Die("killed")  BY <1>5 DEF Crash
  <2> QED  BY <2>1, DieStep
<1>6. CASE Boot  BY <1>6, BootStep
<1>7. CASE Ended \/ UNCHANGED vars  BY <1>7, Unmoved DEF Ended
<1> QED  BY <1>1, <1>2, <1>3, <1>4, <1>5, <1>6, <1>7 DEF Next, Run

LEMMA Inductive == Spec => []IInv
<1>1. IInv /\ [Next]_vars => IInv'  BY NextStep
<1> QED  BY InitStep, <1>1, PTL DEF Spec

\* The type invariant, for any set of requests and any number of starts and crashes.
THEOREM LifecycleTypeOK == Spec => []TypeOK
<1>1. IInv => TypeOK  BY DEF IInv, Control
<1> QED  BY <1>1, Inductive, PTL

\* server.go:117, updater.go:78, 86: stopCh is closed a second time only after POST /restart has
\* stopped the DNS server, and u.cron is used while it is nil only after two goroutines have
\* exchanged the schedule at the same time.
THEOREM LifecyclePanicExplained == Spec => []PanicExplained
<1>1. IInv => PanicExplained  BY DEF IInv
<1> QED  BY <1>1, Inductive, PTL

\* Nobody but main, which waits for a signal, has anything in its hands.
LEMMA QuietHands ==
  ASSUME IInv, Quiet
  PROVE  /\ pc["main"] = 11 /\ \A t \in Threads : ~Writing(t)
         /\ \A t \in Patches : mine[t] = Nothing
<1>0. TypeOK  BY DEF IInv, Control
<1>1. pc["main"] = 11 /\ Doing("main", 11) = "signal"
  <2>1. Len(Startup) = 10  BY DEF Startup, Load
  <2>2. Element("main", 11) = Do("signal")  BY MainAt
  <2> QED  BY <2>1, <2>2 DEF Quiet, Doing, Do
<1>2. \A t \in Threads \ {"main"} : pc[t] \in {1, End(t)}
  <2> SUFFICES ASSUME NEW t \in Threads \ {"main"} PROVE pc[t] \in {1, End(t)}  OBVIOUS
  <2>1. pc[t] \in 1..End(t) /\ End(t) \in Nat /\ ~InFlight(t)  BY <1>0, Here DEF Quiet
  <2> QED  BY <2>1 DEF InFlight
<1>3. \A t \in Threads \ {"main"} : ~Saving(t, pc[t]) /\ (t \in Patches => ~Patching(pc[t]))
  BY <1>2, AtRest
<1>4. \A t \in Threads \ {"main"} : ~Writing(t)
  <2>1. \A t \in Threads \ {"main"} : data[t] = Nothing  BY <1>3 DEF IInv, Control, InHand
  <2> QED  BY <2>1 DEF Writing
<1>5. ~Writing("main")
  <2>1. Op("main")[1] = "signal"  BY <1>0, <1>1, Here, Kinds
  <2> QED  BY <2>1 DEF Writing
<1>6. \A t \in Patches : mine[t] = Nothing  BY <1>3, Kinds DEF IInv, Control, InHand
<1> QED  BY <1>1, <1>4, <1>5, <1>6

\* config.go:198, 229, 240: as long as no change was disturbed, what was accepted last is in force and
\* in the file whenever main waits for a signal and no request is being served, over any number of
\* restarts, reloads, crashes and starts.
THEOREM LifecycleAcceptedKept == Spec => []AcceptedKept
<1>1. ASSUME IInv PROVE AcceptedKept
  <2> SUFFICES ASSUME Quiet, ~hist.disturbed
               PROVE  config.v = wanted /\ (file = Absent \/ (file.kind = "text" /\ file.v = wanted))
    BY DEF AcceptedKept
  <2>1. Readable /\ OneWriter /\ InForce /\ InFile  BY <1>1 DEF IInv, Undisturbed
  <2>2. pc["main"] = 11 /\ (\A t \in Threads : ~Writing(t)) /\ (\A t \in Patches : mine[t] = Nothing)
    BY <1>1, QuietHands
  <2>3. config.v = wanted  BY <2>1, <2>2 DEF InForce, Quiet
  <2>4. file # Empty /\ file # Torn  BY <2>1, <2>2 DEF OneWriter, Readable
  <2>5. file.v = wanted  BY <2>1, <2>2, <2>4 DEF InFile
  <2>6. file = Absent \/ file.kind = "text"
    <3>1. file \in FileType  BY <1>1, SettingsOnly DEF IInv, Control
    <3> QED  BY <2>4, <3>1 DEF FileType
  <2> QED  BY <2>3, <2>5, <2>6
<1>2. IInv => AcceptedKept  BY <1>1
<1> QED  BY <1>2, Inductive, PTL

\* Only Load makes up a secret.
LEMMA SecretMade ==
  ASSUME IInv, [Next]_vars, secrets' # secrets
  PROVE  \E t \in Threads : Read(t) /\ file # Torn
<1>1. ASSUME NEW t \in Threads, Step(t) PROVE Read(t) /\ file # Torn
  <2>1. CASE Exit(t)  BY <2>1 DEF Exit, Die
  <2>2. CASE Read(t)  BY <2>2 DEF Read
  <2>3. CASE Unlock(t) \/ Truncate(t) \/ Write(t) \/ Get(t) \/ Marshal(t) \/ Update(t)
    BY <2>3 DEF Unlock, Truncate, Write, Get, Marshal, Update, store
  <2>4. CASE Check(t) \/ NilCron(t) \/ NewCron(t)  BY <2>4 DEF Check, NilCron, NewCron, Scheduling, store
  <2>5. CASE StopCron(t) \/ AddFunc(t) \/ StartCron(t)
    <3>1. \A what, c : Use(t, what, c) => secrets' = secrets  BY DEF Use, Panic, Die, Scheduling, store
    <3> QED  BY <2>5, <3>1 DEF StopCron, AddFunc, StartCron
  <2>6. CASE DNSStart(t) \/ DNSStop(t) \/ APIStart(t) \/ APIStop(t)
    BY <2>6 DEF DNSStart, DNSStop, APIStart, APIStop, Panic, Die, store
  <2> QED  BY <1>1, <2>1, <2>2, <2>3, <2>4, <2>5, <2>6 DEF Step
<1>2. CASE \E t \in Threads : Step(t)  BY <1>1, <1>2
<1>3. CASE DNSBind \/ APIBind \/ Boot \/ Crash  BY <1>3 DEF DNSBind, APIBind, Boot, Crash, Die, store
<1>4. CASE \E t \in Threads : Request(t) \/ Signal(t)  BY <1>4 DEF Request, Signal, store
<1>5. CASE Ended \/ UNCHANGED vars  BY <1>5 DEF Ended, vars, store
<1> QED  BY <1>2, <1>3, <1>4, <1>5 DEF Next, Run

\* config.go:197, 211, api.go:153: as long as no change was disturbed, a secret is made up only while
\* there is no file, so that clients keep theirs; and the API serves without one only if the file did
\* not parse.
THEOREM LifecycleAccessKept == Spec => AccessKept
<1> DEFINE A == /\ secrets' # secrets => file = Absent \/ hist'.disturbed
                /\ api'.bound # 0 /\ config'.secret = 0 => hist'.torn
<1>1. ASSUME IInv, IInv', [Next]_vars PROVE A
  <2>1. ASSUME secrets' # secrets, ~hist'.disturbed PROVE file = Absent
    <3>1. PICK t \in Threads : Read(t) /\ file # Torn  BY <1>1, <2>1, SecretMade
    <3>2. Control /\ TypeOK  BY <1>1 DEF IInv, Control
    <3>3. ~hist.disturbed /\ \A u \in Threads \ {t} : ~Changing(u)  BY <1>1, <2>1, <3>1, ReadPast
    <3>4. file.secret = 0  BY <2>1, <3>1, <3>2, LoadedHas
    <3>5. Readable /\ OneWriter  BY <1>1, <3>3 DEF IInv, Undisturbed
    <3>6. \A u \in Threads : ~Writing(u)
      <4>1. ~Writing(t)  BY <3>1 DEF Read, At, Writing
      <4> QED  BY <3>3, <4>1 DEF Changing
    <3>7. file # Empty /\ file.kind # "text"  BY <3>4, <3>5, <3>6 DEF OneWriter, Readable
    <3>8. file \in FileType  BY <3>2, SettingsOnly
    <3> QED  BY <3>1, <3>7, <3>8 DEF FileType
  <2>2. ASSUME api'.bound # 0, config'.secret = 0 PROVE hist'.torn
    <3>1. NewAPI.bound = 0  BY DEF NewAPI
    <3> QED  BY <1>1, <2>2, <3>1 DEF IInv, Secured
  <2> QED  BY <2>1, <2>2
<1>2. IInv /\ IInv' /\ [Next]_vars => [A]_vars  BY <1>1
<1> QED  BY <1>2, Inductive, PTL DEF Spec, AccessKept
-----------------------------------------------------------------------------
\* The positions from which a goroutine is yet to exchange the schedule, or main to end it; at which
\* u.cron = cron.New() is next; and from which a new schedule is yet to be started.
Exchanging(t, k) == \/ t = "main" /\ (k <= 5 \/ k >= 12)
                    \/ t \in Restarts /\ k \in 2..14
                    \/ t \in Patches /\ k \in 3..6
                    \/ t \in Reloads /\ k \in 6..9
Renewing(t, k) == (t = "main" /\ k <= 5) \/ Doing(t, k) = "new"
Starting(t, k) == (t = "main" /\ k \in 6..9) \/ Doing(t, k) \in {"add", "start"}
Between == {"stop", "nil", "new", "add", "start"}

\* No request is served before main has started the API.
Alone == process.up /\ pc["main"] <= 10 =>
           /\ api.bound = 0 /\ api.starting = 0
           /\ \A t \in Threads \ {"main"} : ~InFlight(t)

Gone == ~process.up => cron = 0 /\ crons = <<>>

\* Whoever takes the schedule away, or finds that someone has, is followed by one who makes it again:
\* u.cron is nil only as long as a goroutine is to set it, and the last schedule made is not lost.
Renewed == cron = 0 /\ applied \notin Unscheduled => \E t \in Threads : Renewing(t, pc[t])
Lasting == \/ \E t \in Threads : Exchanging(t, pc[t])
           \/ applied \in Unscheduled
           \/ /\ cron # 0
              /\ crons[cron].jobs >= 1 \/ \E t \in Threads : Doing(t, pc[t]) = "add"
              /\ crons[cron].on \/ \E t \in Threads : Starting(t, pc[t])

\* Without a race one goroutine at a time is between two uses of u.cron, and no cron object but
\* that one runs.
Others == \A i \in 1..Len(crons) : i # cron => ~crons[i].on
Single == cron # 0 => crons[cron].jobs <= 1 /\ applied \notin Unscheduled
InOrder == \A t \in Threads :
             /\ Renewing(t, pc[t]) => cron = 0
             /\ Doing(t, pc[t]) = "nil" /\ cron # 0 => ~crons[cron].on
             /\ Doing(t, pc[t]) = "add" => cron # 0 /\ crons[cron].jobs = 0
OneBetween == \A t, u \in Threads : Doing(t, pc[t]) \in Between /\ Doing(u, pc[u]) \in Between => t = u
Orderly == ~hist.raced => Others /\ Single /\ InOrder /\ OneBetween

Kept == process.up => Renewed /\ Lasting /\ Orderly

LEMMA Primed ==
  \A u \in Threads : /\ Doing(u, pc[u])' = Doing(u, pc'[u])
                     /\ Exchanging(u, pc[u])' <=> Exchanging(u, pc'[u])
                     /\ Renewing(u, pc[u])' <=> Renewing(u, pc'[u])
                     /\ Starting(u, pc[u])' <=> Starting(u, pc'[u])
BY DEF Doing, Element, Exchanging, Renewing, Starting

\* What a goroutine does beside the schedule leaves it where it was towards the schedule.
Elsewhere == {"request", "signal", "unlock", "read", "truncate", "write", "get", "marshal", "update",
              "dnsStart", "dnsStop", "apiStart", "apiStop"}
LEMMA WaysBeside ==
  ASSUME NEW t \in Threads, NEW k \in 1..End(t), Doing(t, k) \in Elsewhere,
         NEW j, j = k + 1 \/ (t \in Reloads /\ k = 2 /\ j = End(t))
  PROVE  /\ Exchanging(t, k) => Exchanging(t, j)
         /\ Renewing(t, k) <=> Renewing(t, j)
         /\ Starting(t, k) => Starting(t, j)
         /\ Doing(t, k) # "add" /\ Doing(t, j) \notin {"add", "nil"}
         /\ Doing(t, j) \in Between => t = "main" /\ k = 4
<1> USE DEF Exchanging, Renewing, Starting, Between, Elsewhere, Doing, Do
<1>1. CASE t = "main"
  <2>1. k \in 1..17  BY <1>1, MainAt
  <2> QED  BY <1>1, <2>1, MainAt, Kinds
<1>2. CASE t \in Restarts
  <2>1. k \in 1..18  BY <1>2, RestartAt
  <2> QED  BY <1>2, <2>1, RestartAt, Kinds
<1>3. CASE t \in Patches
  <2>1. k \in 1..13  BY <1>3, PatchAt
  <2> QED  BY <1>3, <2>1, PatchAt, Kinds
<1>4. CASE t \in Reloads
  <2>1. k \in 1..12 /\ End(t) = 12  BY <1>4, ReloadAt
  <2> QED  BY <1>4, <2>1, ReloadAt, Kinds
<1> QED  BY <1>1, <1>2, <1>3, <1>4, Kinds

\* The ways through the exchange.
LEMMA WaysThrough ==
  ASSUME NEW t \in Threads, NEW k \in 1..End(t)
  PROVE  /\ Doing(t, k) \in {"check", "stop", "nil"} /\ Exchanging(t, k) => Exchanging(t, k + 1)
         /\ Doing(t, k) = "check" => /\ Doing(t, k + 1) \in {"stop", "start"}
                                     /\ ~Renewing(t, k) /\ ~Renewing(t, k + 1)
                                     /\ Starting(t, k) => Starting(t, k + 1)
                                     /\ Exchanging(t, k) => Exchanging(t, k + Element(t, k)[2] + 1)
                                     /\ Doing(t, k + Element(t, k)[2] + 1) \notin Between \ {"new"}
         /\ Doing(t, k) = "stop" => /\ Exchanging(t, k) /\ ~Renewing(t, k) /\ ~Renewing(t, k + 1) /\ ~Starting(t, k)
                                    /\ Doing(t, k + 1) \notin {"add", "start", "new", "stop"}
         /\ Doing(t, k) = "nil" => Exchanging(t, k) /\ ~Starting(t, k) /\ Doing(t, k + 1) = "new"
         /\ Doing(t, k) = "new" => /\ Doing(t, k + 1) = "add" /\ ~Renewing(t, k + 1)
                                   /\ ~Renewing(t, k + Element(t, k)[2] + 1)
                                   /\ Doing(t, k + Element(t, k)[2] + 1) \notin Between
         /\ Doing(t, k) = "add" => /\ Starting(t, k + 1) /\ ~Exchanging(t, k) /\ ~Renewing(t, k) /\ ~Renewing(t, k + 1)
                                   /\ Doing(t, k + 1) \notin {"add", "nil", "new", "stop"}
         /\ Doing(t, k) = "start" => /\ ~Exchanging(t, k) /\ ~Renewing(t, k) /\ ~Renewing(t, k + 1)
                                     /\ Doing(t, k + 1) \notin Between
<1> USE DEF Exchanging, Renewing, Starting, Between, Doing, Do
<1>1. CASE t = "main"
  <2>1. k \in 1..17  BY <1>1, MainAt
  <2> QED  BY <1>1, <2>1, MainAt, Kinds
<1>2. CASE t \in Restarts
  <2>1. k \in 1..18  BY <1>2, RestartAt
  <2> QED  BY <1>2, <2>1, RestartAt, Kinds
<1>3. CASE t \in Patches
  <2>1. k \in 1..13  BY <1>3, PatchAt
  <2> QED  BY <1>3, <2>1, PatchAt, Kinds
<1>4. CASE t \in Reloads
  <2>1. k \in 1..12  BY <1>4, ReloadAt
  <2> QED  BY <1>4, <2>1, ReloadAt, Kinds
<1> QED  BY <1>1, <1>2, <1>3, <1>4, Kinds

LEMMA RestBetween ==
  ASSUME TypeOK, NEW t \in Threads, ~InFlight(t)
  PROVE  Doing(t, pc[t]) \notin Between /\ (t # "main" => ~Renewing(t, pc[t]))
<1>1. pc[t] = 1 \/ pc[t] = End(t)
  <2>1. pc[t] \in 1..End(t) /\ End(t) \in Nat  BY Here
  <2> QED  BY <2>1 DEF InFlight
<1> QED  BY <1>1, Kinds, MainAt, RestartAt, PatchAt, ReloadAt DEF Doing, Do, Between, Renewing

\* A goroutine goes on to position k: beside the schedule, or with it.
Goes(t, k) ==
  /\ process.up /\ process' = process /\ k \in 1..End(t) /\ pc[t] < k /\ pc' = [pc EXCEPT ![t] = k]
  /\ api' = api \/ Doing(t, pc[t]) \in {"apiStart", "apiStop"}
  /\ t = "main" \/ pc[t] # 1 \/ api.bound # 0
Passes(t, k) ==
  /\ Goes(t, k) /\ Doing(t, pc[t]) \in Elsewhere /\ (k = pc[t] + 1 \/ (t \in Reloads /\ pc[t] = 2 /\ k = End(t)))
  /\ UNCHANGED <<cron, crons, applied>> /\ hist'.raced = hist.raced
Handles(t, k, what) ==
  /\ Goes(t, k) /\ Doing(t, pc[t]) = what /\ (hist.raced => hist'.raced)
  /\ ~hist'.raced => \A u \in Threads \ {t} : Doing(u, pc[u]) \notin Between

LEMMA GoesTo ==
  ASSUME TypeOK, NEW t \in Threads, NEW k, Goes(t, k)
  PROVE  /\ pc'[t] = k /\ \A u \in Threads : u # t => pc'[u] = pc[u]
         /\ pc[t] \in 1..End(t) /\ k \in Nat /\ pc[t] \in Nat /\ End(t) \in Nat
BY Here DEF Goes, TypeOK

LEMMA AloneGoes ==
  ASSUME TypeOK, Alone, NEW t \in Threads, NEW k, Goes(t, k)
  PROVE  Alone'
<1> SUFFICES ASSUME pc'["main"] <= 10
             PROVE  api'.bound = 0 /\ api'.starting = 0 /\ \A u \in Threads \ {"main"} : ~InFlight(u)'
  BY DEF Alone
<1>0. /\ k \in 1..End(t) /\ pc[t] < k /\ pc'[t] = k /\ pc[t] \in Nat /\ pc[t] >= 1 /\ End(t) \in Nat
      /\ api' = api \/ Doing(t, pc[t]) \in {"apiStart", "apiStop"}
  <2>1. k \in 1..End(t) /\ pc[t] < k /\ (api' = api \/ Doing(t, pc[t]) \in {"apiStart", "apiStop"})  BY DEF Goes
  <2> QED  BY <2>1, GoesTo
<1>1. "main" \in Threads /\ pc["main"] \in Nat /\ pc["main"] <= 10
  <2>1. "main" \in Threads  BY Kinds
  <2>2. pc["main"] \in Nat  BY <2>1, Here
  <2> QED  BY <2>1, <2>2, GoesTo DEF Goes
<1>2. api.bound = 0 /\ api.starting = 0 /\ \A u \in Threads \ {"main"} : ~InFlight(u)
  BY <1>1 DEF Alone, Goes
<1>3. t = "main"
  <2> SUFFICES ASSUME t # "main" PROVE FALSE  OBVIOUS
  <2>1. pc[t] # 1  BY <1>2 DEF Goes
  <2>2. InFlight(t)  BY <1>0, <2>1 DEF InFlight
  <2> QED  BY <1>2, <2>2
<1>4. api' = api
  <2>1. Doing(t, pc[t]) \in {"apiStart", "apiStop"} => pc[t] \in {10, 15}
    BY <1>3, Here, Where, Kinds
  <2> QED  BY <1>0, <1>1, <1>3, <2>1
<1>5. \A u \in Threads \ {"main"} : ~InFlight(u)'
  <2>1. \A u \in Threads : InFlight(u)' <=> pc'[u] > 1 /\ pc'[u] < End(u)  BY DEF InFlight
  <2>2. \A u \in Threads \ {"main"} : pc'[u] = pc[u]  BY <1>3, GoesTo
  <2> QED  BY <1>2, <2>1, <2>2 DEF InFlight
<1> QED  BY <1>2, <1>4, <1>5

LEMMA PassesKept ==
  ASSUME TypeOK, Alone, Kept, NEW t \in Threads, NEW k, Passes(t, k)
  PROVE  Kept'
<1>0. Goes(t, k) /\ process.up  BY DEF Passes, Goes
<1>1. /\ pc'[t] = k /\ \A u \in Threads : u # t => pc'[u] = pc[u]
      /\ pc[t] \in 1..End(t)
  BY <1>0, GoesTo
<1>2. /\ Exchanging(t, pc[t]) => Exchanging(t, k)
      /\ Renewing(t, pc[t]) <=> Renewing(t, k)
      /\ Starting(t, pc[t]) => Starting(t, k)
      /\ Doing(t, pc[t]) # "add" /\ Doing(t, k) \notin {"add", "nil"}
      /\ Doing(t, k) \in Between => t = "main" /\ pc[t] = 4
  BY <1>1, WaysBeside DEF Passes
<1>3. UNCHANGED <<cron, crons, applied>> /\ hist'.raced = hist.raced  BY DEF Passes
<1>4. Renewed'
  <2> SUFFICES ASSUME cron = 0, applied \notin Unscheduled PROVE \E u \in Threads : Renewing(u, pc'[u])
    BY <1>3, Primed DEF Renewed
  <2>1. PICK u \in Threads : Renewing(u, pc[u])  BY <1>0 DEF Kept, Renewed
  <2> QED  BY <1>1, <1>2, <2>1
<1>5. Lasting'
  <2>1. ASSUME NEW u \in Threads
        PROVE  /\ Exchanging(u, pc[u]) => Exchanging(u, pc'[u])
               /\ Starting(u, pc[u]) => Starting(u, pc'[u])
               /\ Doing(u, pc[u]) = "add" => Doing(u, pc'[u]) = "add"
    BY <1>1, <1>2
  <2>2. Lasting  BY <1>0 DEF Kept
  <2> QED  BY <1>3, <2>1, <2>2, Primed DEF Lasting
<1>6. Orderly'
  <2> SUFFICES ASSUME ~hist.raced PROVE Others' /\ Single' /\ InOrder' /\ OneBetween'
    BY <1>3 DEF Orderly
  <2>1. Others /\ Single /\ InOrder /\ OneBetween  BY <1>0 DEF Kept, Orderly
  <2>2. Others' /\ Single'  BY <1>3, <2>1 DEF Others, Single
  <2>3. InOrder'
    <3> SUFFICES ASSUME NEW u \in Threads
                 PROVE  /\ Renewing(u, pc'[u]) => cron = 0
                        /\ Doing(u, pc'[u]) = "nil" /\ cron # 0 => ~crons[cron].on
                        /\ Doing(u, pc'[u]) = "add" => cron # 0 /\ crons[cron].jobs = 0
      BY <1>3, Primed DEF InOrder
    <3>1. CASE u = t  BY <1>1, <1>2, <2>1, <3>1 DEF InOrder
    <3>2. CASE u # t  BY <1>1, <2>1, <3>2 DEF InOrder
    <3> QED  BY <3>1, <3>2
  <2>4. OneBetween'
    <3> SUFFICES ASSUME NEW u \in Threads, NEW w \in Threads, Doing(u, pc'[u]) \in Between,
                        Doing(w, pc'[w]) \in Between, u # w
                 PROVE  FALSE
      BY Primed DEF OneBetween
    <3>1. CASE u # t /\ w # t  BY <1>1, <2>1, <3>1 DEF OneBetween
    <3>2. ASSUME NEW x \in Threads, x # t, Doing(x, pc'[x]) \in Between, Doing(t, pc'[t]) \in Between PROVE FALSE
      <4>1. t = "main" /\ pc[t] = 4  BY <1>1, <1>2, <3>2
      <4>2. ~InFlight(x)  BY <1>0, <3>2, <4>1 DEF Alone
      <4> QED  BY <1>1, <3>2, <4>2, RestBetween
    <3> QED  BY <3>1, <3>2
  <2> QED  BY <2>2, <2>3, <2>4
<1> QED  BY <1>4, <1>5, <1>6 DEF Kept

LEMMA RenewingExchanges ==
  ASSUME NEW t \in Threads, NEW k \in 1..End(t), Renewing(t, k)
  PROVE  Exchanging(t, k)
BY Where, Kinds DEF Renewing, Exchanging

\* Without a race nobody else is about the schedule.
LEMMA InOrderKept ==
  ASSUME TypeOK, Alone, NEW t \in Threads, NEW k, NEW what \in Between \cup {"check"}, Handles(t, k, what), ~hist'.raced,
         Renewing(t, k) => cron' = 0,
         Doing(t, k) = "nil" /\ cron' # 0 => ~crons'[cron'].on,
         Doing(t, k) = "add" => cron' # 0 /\ crons'[cron'].jobs = 0
  PROVE  InOrder' /\ OneBetween'
<1>0. Goes(t, k) /\ process.up /\ Doing(t, pc[t]) = what  BY DEF Handles, Goes
<1>1. pc'[t] = k /\ \A u \in Threads : u # t => pc'[u] = pc[u]  BY <1>0, GoesTo
<1>2. \A u \in Threads \ {t} : Doing(u, pc'[u]) \notin Between  BY <1>1 DEF Handles
<1>3. ASSUME NEW u \in Threads \ {t} PROVE ~Renewing(u, pc'[u])
  <2> SUFFICES ASSUME u = "main", pc[u] <= 5 PROVE FALSE  BY <1>1, <1>2 DEF Renewing, Between
  <2>1. pc["main"] \in Nat  BY Kinds, Here
  <2>2. ~InFlight(t)  BY <1>0, <2>1 DEF Alone
  <2>3. pc[t] # 1  BY <1>0, Followed DEF Between
  <2>4. pc[t] < k /\ k \in 1..End(t) /\ pc[t] \in 1..End(t) /\ End(t) \in Nat
    <3>1. pc[t] < k /\ k \in 1..End(t)  BY <1>0 DEF Goes
    <3> QED  BY <1>0, <3>1, GoesTo
  <2> QED  BY <2>2, <2>3, <2>4 DEF InFlight
<1>4. InOrder'
  <2> SUFFICES ASSUME NEW u \in Threads
               PROVE  /\ Renewing(u, pc'[u]) => cron' = 0
                      /\ Doing(u, pc'[u]) = "nil" /\ cron' # 0 => ~crons'[cron'].on
                      /\ Doing(u, pc'[u]) = "add" => cron' # 0 /\ crons'[cron'].jobs = 0
    BY Primed DEF InOrder
  <2>1. CASE u = t  BY <1>1, <2>1
  <2>2. CASE u # t  BY <1>2, <1>3, <2>2 DEF Between
  <2> QED  BY <2>1, <2>2
<1>5. OneBetween'  BY <1>2, Primed DEF OneBetween
<1> QED  BY <1>4, <1>5

LEMMA CheckKept ==
  ASSUME TypeOK, Alone, Kept, NEW t \in Threads, NEW k, Handles(t, k, "check"),
         k = pc[t] + (IF cron = 0 THEN Element(t, pc[t])[2] + 1 ELSE 1), UNCHANGED <<cron, crons, applied>>
  PROVE  Kept'
<1>0. /\ Goes(t, k) /\ process.up /\ Doing(t, pc[t]) = "check" /\ (hist.raced => hist'.raced)
      /\ Renewed /\ Lasting /\ Orderly
  BY DEF Handles, Goes, Kept
<1>1. pc'[t] = k /\ (\A u \in Threads : u # t => pc'[u] = pc[u]) /\ pc[t] \in 1..End(t)  BY <1>0, GoesTo
<1>2. /\ ~Renewing(t, pc[t]) /\ (Exchanging(t, pc[t]) => Exchanging(t, k))
      /\ cron # 0 => (Starting(t, pc[t]) => Starting(t, k)) /\ ~Renewing(t, k)
      /\ Doing(t, k) \notin {"nil", "add"}
  <2>0. Element(t, pc[t])[2] \in Nat /\ pc[t] \in Nat  BY <1>0, <1>1, Where, GoesTo
  <2>1. CASE cron = 0
    <3>1. k = pc[t] + Element(t, pc[t])[2] + 1  BY <2>0, <2>1
    <3> QED  BY <1>0, <1>1, <2>1, <3>1, WaysThrough DEF Between
  <2>2. CASE cron # 0
    <3>1. k = pc[t] + 1  BY <2>0, <2>2
    <3> QED  BY <1>0, <1>1, <2>2, <3>1, WaysThrough DEF Between
  <2> QED  BY <2>1, <2>2
<1>3. Renewed'  BY <1>0, <1>1, <1>2, Primed DEF Renewed
<1>4. Lasting'
  <2>1. \A u \in Threads : /\ Exchanging(u, pc[u]) => Exchanging(u, pc'[u])
                           /\ Doing(u, pc[u]) = "add" => Doing(u, pc'[u]) = "add"
                           /\ cron # 0 /\ Starting(u, pc[u]) => Starting(u, pc'[u])
    BY <1>0, <1>1, <1>2
  <2> QED  BY <1>0, <2>1, Primed DEF Lasting
<1>5. Orderly'
  <2> SUFFICES ASSUME ~hist'.raced PROVE Others' /\ Single' /\ InOrder' /\ OneBetween'
    BY DEF Orderly
  <2>1. Others' /\ Single'  BY <1>0 DEF Orderly, Others, Single
  <2>2. InOrder' /\ OneBetween'  BY <1>2, InOrderKept
  <2> QED  BY <2>1, <2>2
<1> QED  BY <1>3, <1>4, <1>5 DEF Kept

\* u.cron is used: c is what the cron object is then.
Using(t, k, what, c) ==
  /\ Handles(t, k, what) /\ k = pc[t] + 1 /\ cron # 0
  /\ crons' = [crons EXCEPT ![cron] = c] /\ UNCHANGED <<cron, applied>>

LEMMA UsesOne ==
  ASSUME TypeOK, NEW t \in Threads, NEW k, NEW what, NEW c, Using(t, k, what, c)
  PROVE  /\ cron' = cron /\ cron # 0 /\ crons'[cron] = c /\ Len(crons') = Len(crons)
         /\ \A i \in 1..Len(crons) : i # cron => crons'[i] = crons[i]
         /\ pc'[t] = k /\ (\A u \in Threads : u # t => pc'[u] = pc[u]) /\ pc[t] \in 1..End(t)
         /\ Doing(t, pc[t]) = what /\ process.up /\ (hist.raced => hist'.raced)
<1>1. Goes(t, k) /\ Doing(t, pc[t]) = what /\ process.up /\ (hist.raced => hist'.raced)  BY DEF Using, Handles, Goes
<1>2. crons \in Seq(Cron) /\ cron \in 1..Len(crons)
  <2>1. TypeRest  BY TypeParts
  <2> QED  BY <2>1 DEF TypeRest, Using
<1>3. /\ cron' = cron /\ cron # 0 /\ crons'[cron] = c /\ Len(crons') = Len(crons)
      /\ \A i \in 1..Len(crons) : i # cron => crons'[i] = crons[i]
  BY <1>2 DEF Using
<1> QED  BY <1>1, <1>3, GoesTo

LEMMA StopKeeps ==
  ASSUME TypeOK, Alone, Kept, NEW t \in Threads, NEW k, NEW c, Using(t, k, "stop", c), ~c.on, c.jobs = crons[cron].jobs
  PROVE  Kept'
<1>0. Handles(t, k, "stop") /\ Renewed /\ Lasting /\ Orderly /\ applied' = applied /\ k = pc[t] + 1
  BY DEF Using, Handles, Goes, Kept
<1>1. /\ cron' = cron /\ cron # 0 /\ crons'[cron] = c /\ Len(crons') = Len(crons)
      /\ \A i \in 1..Len(crons) : i # cron => crons'[i] = crons[i]
      /\ pc'[t] = k /\ (\A u \in Threads : u # t => pc'[u] = pc[u]) /\ pc[t] \in 1..End(t)
      /\ Doing(t, pc[t]) = "stop" /\ (hist.raced => hist'.raced)
  BY UsesOne
<1>2. Exchanging(t, k) /\ ~Renewing(t, k) /\ Doing(t, k) # "add"  BY <1>0, <1>1, WaysThrough
<1>3. Renewed'  BY <1>1 DEF Renewed
<1>4. Lasting'  BY <1>1, <1>2, Primed DEF Lasting
<1>5. Orderly'
  <2> SUFFICES ASSUME ~hist'.raced PROVE Others' /\ Single' /\ InOrder' /\ OneBetween'
    BY DEF Orderly
  <2>1. Others' /\ Single'  BY <1>0, <1>1 DEF Orderly, Others, Single
  <2>2. InOrder' /\ OneBetween'
    <3>1. "stop" \in Between \cup {"check"}  BY DEF Between
    <3> QED  BY <1>0, <1>1, <1>2, <3>1, InOrderKept
  <2> QED  BY <2>1, <2>2
<1> QED  BY <1>3, <1>4, <1>5 DEF Kept

LEMMA AddKeeps ==
  ASSUME TypeOK, Alone, Kept, NEW t \in Threads, NEW k, NEW c, Using(t, k, "add", c), c.on = crons[cron].on,
         c.jobs = crons[cron].jobs + 1
  PROVE  Kept'
<1>0. Handles(t, k, "add") /\ Renewed /\ Lasting /\ Orderly /\ applied' = applied /\ k = pc[t] + 1
  BY DEF Using, Handles, Goes, Kept
<1>1. /\ cron' = cron /\ cron # 0 /\ crons'[cron] = c /\ Len(crons') = Len(crons)
      /\ \A i \in 1..Len(crons) : i # cron => crons'[i] = crons[i]
      /\ pc'[t] = k /\ (\A u \in Threads : u # t => pc'[u] = pc[u]) /\ pc[t] \in 1..End(t)
      /\ Doing(t, pc[t]) = "add" /\ (hist.raced => hist'.raced)
  BY UsesOne
<1>2. ~Exchanging(t, pc[t]) /\ Starting(t, k) /\ ~Renewing(t, k) /\ Doing(t, k) \notin {"add", "nil"}
  BY <1>0, <1>1, WaysThrough
<1>3. Renewed'  BY <1>1 DEF Renewed
<1>4. Lasting'
  <2>1. c.jobs >= 1
    <3>1. crons[cron].jobs \in Nat
      <4>1. TypeRest  BY TypeParts
      <4>2. crons[cron] \in Cron  BY <1>1, <4>1 DEF TypeRest
      <4> QED  BY <4>2 DEF Cron
    <3> QED  BY <3>1
  <2>2. \A u \in Threads : /\ Exchanging(u, pc[u]) => Exchanging(u, pc'[u])
                           /\ Starting(u, pc[u]) => Starting(u, pc'[u])
    BY <1>1, <1>2
  <2> QED  BY <1>0, <1>1, <2>1, <2>2, Primed DEF Lasting
<1>5. Orderly'
  <2> SUFFICES ASSUME ~hist'.raced PROVE Others' /\ Single' /\ InOrder' /\ OneBetween'
    BY DEF Orderly
  <2>1. Others' /\ Single'
    <3>1. Others /\ Single /\ crons[cron].jobs = 0  BY <1>0, <1>1 DEF Orderly, InOrder
    <3> QED  BY <1>0, <1>1, <3>1 DEF Others, Single
  <2>2. InOrder' /\ OneBetween'
    <3>1. "add" \in Between \cup {"check"}  BY DEF Between
    <3> QED  BY <1>0, <1>1, <1>2, <3>1, InOrderKept
  <2> QED  BY <2>1, <2>2
<1> QED  BY <1>3, <1>4, <1>5 DEF Kept

LEMMA StartKeeps ==
  ASSUME TypeOK, Alone, Kept, NEW t \in Threads, NEW k, NEW c, Using(t, k, "start", c), c.on, c.jobs = crons[cron].jobs
  PROVE  Kept'
<1>0. Handles(t, k, "start") /\ Renewed /\ Lasting /\ Orderly /\ applied' = applied /\ k = pc[t] + 1
  BY DEF Using, Handles, Goes, Kept
<1>1. /\ cron' = cron /\ cron # 0 /\ crons'[cron] = c /\ Len(crons') = Len(crons)
      /\ \A i \in 1..Len(crons) : i # cron => crons'[i] = crons[i]
      /\ pc'[t] = k /\ (\A u \in Threads : u # t => pc'[u] = pc[u]) /\ pc[t] \in 1..End(t)
      /\ Doing(t, pc[t]) = "start" /\ (hist.raced => hist'.raced)
  BY UsesOne
<1>2. ~Exchanging(t, pc[t]) /\ ~Renewing(t, k) /\ Doing(t, k) \notin {"add", "nil"}
  BY <1>0, <1>1, WaysThrough DEF Between
<1>3. Renewed'  BY <1>1 DEF Renewed
<1>4. Lasting'
  <2>1. \A u \in Threads : /\ Exchanging(u, pc[u]) => Exchanging(u, pc'[u])
                           /\ Doing(u, pc[u]) = "add" => Doing(u, pc'[u]) = "add"
    BY <1>1, <1>2
  <2> QED  BY <1>0, <1>1, <2>1, Primed DEF Lasting
<1>5. Orderly'
  <2> SUFFICES ASSUME ~hist'.raced PROVE Others' /\ Single' /\ InOrder' /\ OneBetween'
    BY DEF Orderly
  <2>1. Others' /\ Single'  BY <1>0, <1>1 DEF Orderly, Others, Single
  <2>2. InOrder' /\ OneBetween'
    <3>1. "start" \in Between \cup {"check"}  BY DEF Between
    <3> QED  BY <1>0, <1>1, <1>2, <3>1, InOrderKept
  <2> QED  BY <2>1, <2>2
<1> QED  BY <1>3, <1>4, <1>5 DEF Kept

LEMMA NilKeeps ==
  ASSUME TypeOK, Alone, Kept, NEW t \in Threads, NEW k, Handles(t, k, "nil"), k = pc[t] + 1, cron' = 0,
         UNCHANGED <<crons, applied>>
  PROVE  Kept'
<1>0. /\ Goes(t, k) /\ process.up /\ Doing(t, pc[t]) = "nil" /\ (hist.raced => hist'.raced)
      /\ Renewed /\ Lasting /\ Orderly
  BY DEF Handles, Goes, Kept
<1>1. pc'[t] = k /\ (\A u \in Threads : u # t => pc'[u] = pc[u]) /\ pc[t] \in 1..End(t)  BY <1>0, GoesTo
<1>2. Exchanging(t, k) /\ Renewing(t, k) /\ Doing(t, k) = "new"
  BY <1>0, <1>1, WaysThrough DEF Renewing
<1>3. Renewed'  BY <1>1, <1>2, Primed DEF Renewed
<1>4. Lasting'  BY <1>1, <1>2, Primed DEF Lasting
<1>5. Orderly'
  <2> SUFFICES ASSUME ~hist'.raced PROVE Others' /\ Single' /\ InOrder' /\ OneBetween'
    BY DEF Orderly
  <2>1. Others' /\ Single'
    <3>1. Others /\ InOrder  BY <1>0 DEF Orderly
    <3> QED  BY <1>0, <3>1 DEF Others, Single, InOrder
  <2>2. InOrder' /\ OneBetween'
    <3>1. "nil" \in Between \cup {"check"}  BY DEF Between
    <3> QED  BY <1>2, <3>1, InOrderKept
  <2> QED  BY <2>1, <2>2
<1> QED  BY <1>3, <1>4, <1>5 DEF Kept

LEMMA NewKeeps ==
  ASSUME TypeOK, Alone, Kept, NEW t \in Threads, NEW k, Handles(t, k, "new"),
         \/ /\ applied' \in Unscheduled /\ k = pc[t] + Element(t, pc[t])[2] + 1 /\ UNCHANGED <<cron, crons>>
         \/ /\ applied' \notin Unscheduled /\ k = pc[t] + 1
            /\ crons' = Append(crons, [on |-> FALSE, jobs |-> 0]) /\ cron' = Len(crons) + 1
  PROVE  Kept'
<1>0. /\ Goes(t, k) /\ process.up /\ Doing(t, pc[t]) = "new" /\ (hist.raced => hist'.raced)
      /\ Renewed /\ Lasting /\ Orderly
  BY DEF Handles, Goes, Kept
<1>1. pc'[t] = k /\ (\A u \in Threads : u # t => pc'[u] = pc[u]) /\ pc[t] \in 1..End(t)  BY <1>0, GoesTo
<1>2. "new" \in Between \cup {"check"}  BY DEF Between
<1>3. ~hist'.raced => cron = 0 /\ Others  BY <1>0 DEF Orderly, InOrder, Renewing
<1>4. CASE applied' \in Unscheduled
  <2>1. /\ UNCHANGED <<cron, crons>> /\ ~Renewing(t, k) /\ Doing(t, k) \notin {"add", "nil"}
    BY <1>0, <1>1, <1>4, WaysThrough DEF Between
  <2>2. Renewed' /\ Lasting'  BY <1>4 DEF Renewed, Lasting
  <2>3. Orderly'
    <3> SUFFICES ASSUME ~hist'.raced PROVE Others' /\ Single' /\ InOrder' /\ OneBetween'
      BY DEF Orderly
    <3>1. Others' /\ Single'  BY <1>3, <2>1 DEF Others, Single
    <3>2. InOrder' /\ OneBetween'  BY <1>2, <2>1, InOrderKept
    <3> QED  BY <3>1, <3>2
  <2> QED  BY <2>2, <2>3 DEF Kept
<1>5. CASE applied' \notin Unscheduled
  <2> DEFINE fresh == [on |-> FALSE, jobs |-> 0]
  <2>1. /\ crons' = Append(crons, fresh) /\ cron' = Len(crons) + 1 /\ ~Renewing(t, k) /\ Doing(t, k) = "add"
    BY <1>0, <1>1, <1>5, WaysThrough
  <2>2. ~fresh.on /\ fresh.jobs = 0  OBVIOUS
  <2> HIDE DEF fresh
  <2>3. /\ cron' # 0 /\ crons'[cron'] = fresh /\ Len(crons') = cron'
        /\ \A i \in 1..Len(crons') : i # cron' => i \in 1..Len(crons) /\ i # 0 /\ crons'[i] = crons[i]
    <3>1. TypeRest  BY TypeParts
    <3>2. crons \in Seq(Cron)  BY <3>1 DEF TypeRest
    <3> QED  BY <2>1, <3>2
  <2>4. Renewed'  BY <2>3 DEF Renewed
  <2>5. Lasting'  BY <1>1, <2>1, <2>3, Primed DEF Lasting, Starting
  <2>6. Orderly'
    <3> SUFFICES ASSUME ~hist'.raced PROVE Others' /\ Single' /\ InOrder' /\ OneBetween'
      BY DEF Orderly
    <3>1. Others' /\ Single'  BY <1>3, <1>5, <2>2, <2>3 DEF Others, Single
    <3>2. InOrder' /\ OneBetween'  BY <1>2, <2>1, <2>2, <2>3, InOrderKept
    <3> QED  BY <3>1, <3>2
  <2> QED  BY <2>4, <2>5, <2>6 DEF Kept
<1> QED  BY <1>4, <1>5

\* A request finds u.cron nil and panics: someone else is to set it.
LEMMA GivingUpKeeps ==
  ASSUME TypeOK, Kept, NEW t \in Threads, NEW k, Goes(t, k), Doing(t, pc[t]) \in Uses, cron = 0,
         UNCHANGED <<cron, crons, applied>>, hist'.raced
  PROVE  Kept'
<1>0. process.up /\ Renewed /\ Lasting  BY DEF Goes, Kept
<1>1. pc'[t] = k /\ (\A u \in Threads : u # t => pc'[u] = pc[u]) /\ pc[t] \in 1..End(t)  BY GoesTo
<1>2. ~Renewing(t, pc[t])  BY <1>1, WaysThrough DEF Uses
<1>3. applied \notin Unscheduled => \E u \in Threads \ {t} : Renewing(u, pc'[u]) /\ Exchanging(u, pc'[u])
  <2>1. \A u \in Threads : pc[u] \in 1..End(u)  BY Here
  <2> QED  BY <1>0, <1>1, <1>2, <2>1, RenewingExchanges DEF Renewed
<1>4. Renewed'  BY <1>3, Primed DEF Renewed
<1>5. Lasting'  BY <1>3, Primed DEF Lasting
<1>6. Orderly'  BY DEF Orderly
<1> QED  BY <1>4, <1>5, <1>6 DEF Kept
-----------------------------------------------------------------------------
LEMMA NotOver ==
  ASSUME TypeOK, NEW t \in Threads, Doing(t, pc[t]) # "over"
  PROVE  pc[t] \in 1..End(t) /\ pc[t] < End(t) /\ End(t) \in Nat /\ pc[t] + 1 \in 1..End(t) /\ pc[t] < pc[t] + 1
<1>1. pc[t] \in 1..End(t) /\ End(t) \in Nat  BY Here
<1>2. pc[t] < End(t)  BY <1>1 DEF Doing, Element, Do
<1> QED  BY <1>1, <1>2

LEMMA OnePast ==
  ASSUME TypeOK, NEW t \in Threads, process.up, process' = process, Doing(t, pc[t]) \in Elsewhere,
         NEW m, NEW d, Move(t, 1, m, d), api' = api \/ Doing(t, pc[t]) \in {"apiStart", "apiStop"},
         Doing(t, pc[t]) = "request" => api.bound # 0, UNCHANGED <<cron, crons, applied>>, hist'.raced = hist.raced
  PROVE  \E k : Passes(t, k)
<1> PICK k : k = pc[t] + 1  OBVIOUS
<1>1. k \in 1..End(t) /\ pc[t] < k  BY NotOver DEF Elsewhere
<1>2. pc' = [pc EXCEPT ![t] = k]  BY Moves
<1>3. t = "main" \/ pc[t] # 1 \/ api.bound # 0
  <2>1. Doing(t, pc[t]) = "read" /\ t # "main" => pc[t] # 1  BY Here, Where
  <2> QED  BY <2>1, Followed
<1>4. Goes(t, k)  BY <1>1, <1>2, <1>3 DEF Goes
<1>5. Passes(t, k)  BY <1>4 DEF Passes
<1> QED  BY <1>5

LEMMA StepsPast ==
  ASSUME IInv, NEW t \in Threads,
         \/ Request(t) \/ Signal(t) \/ Unlock(t) \/ Truncate(t) \/ Write(t) \/ Get(t) \/ Marshal(t)
         \/ DNSStart(t) \/ APIStart(t) \/ APIStop(t)
  PROVE  \E k : Passes(t, k)
<1>0. TypeOK /\ Op(t)[1] = Doing(t, pc[t])  BY Here DEF IInv, Control
<1>1. \E m, d : Move(t, 1, m, d)
  BY DEF Request, Signal, Unlock, Truncate, Write, Get, Marshal, DNSStart, APIStart, APIStop, Jump
<1>2. PICK m, d : Move(t, 1, m, d)  BY <1>1
<1>3. process.up /\ Doing(t, pc[t]) \in Elsewhere
  BY <1>0 DEF Request, Signal, Unlock, Truncate, Write, Get, Marshal, DNSStart, APIStart, APIStop, At, Elsewhere
<1>4. UNCHANGED <<cron, crons, applied>> /\ process' = process /\ hist' = hist
  BY DEF Request, Signal, Unlock, Truncate, Write, Get, Marshal, DNSStart, APIStart, APIStop, schedule
<1>5. Doing(t, pc[t]) = "request" => api.bound # 0
  BY <1>0 DEF Request, Signal, Unlock, Truncate, Write, Get, Marshal, DNSStart, APIStart, APIStop, At
<1>6. api' = api \/ Doing(t, pc[t]) \in {"apiStart", "apiStop"}
  BY <1>0 DEF Request, Signal, Unlock, Truncate, Write, Get, Marshal, DNSStart, APIStart, APIStop, At, servers
<1> QED  BY <1>0, <1>2, <1>3, <1>4, <1>5, <1>6, OnePast

LEMMA ChangesPast ==
  ASSUME IInv, NEW t \in Threads, Update(t) \/ (DNSStop(t) /\ ~(dns.running /\ dns.closed))
  PROVE  \E k : Passes(t, k)
<1>0. TypeOK /\ TypeRest /\ Op(t)[1] = Doing(t, pc[t])  BY Here, TypeParts DEF IInv, Control
<1>1. PICK m, d : Move(t, 1, m, d)  BY DEF Update, DNSStop, Jump
<1>2. process.up /\ Doing(t, pc[t]) \in Elsewhere /\ Doing(t, pc[t]) # "request"
  BY <1>0 DEF Update, DNSStop, At, Elsewhere
<1>3. UNCHANGED <<cron, crons, applied>> /\ process' = process /\ api' = api  BY DEF Update, DNSStop, schedule, servers
<1>4. hist'.raced = hist.raced
  <2>1. \E b : hist' = [hist EXCEPT !.disturbed = b] \/ hist' = [hist EXCEPT !.restarted = b]
    BY DEF Update, DNSStop
  <2> QED  BY <1>0, <2>1 DEF TypeRest, Past
<1> QED  BY <1>0, <1>1, <1>2, <1>3, <1>4, OnePast

LEMMA ReadPasses ==
  ASSUME IInv, NEW t \in Threads, Read(t)
  PROVE  \E k : Passes(t, k)
<1>0. TypeOK /\ TypeRest /\ Op(t)[1] = Doing(t, pc[t])  BY Here, TypeParts DEF IInv, Control
<1>1. /\ process.up /\ Doing(t, pc[t]) = "read" /\ UNCHANGED <<cron, crons, applied>> /\ process' = process
      /\ api' = api
  BY <1>0 DEF Read, At, schedule, servers
<1>2. hist'.raced = hist.raced
  <2>1. \E b, c : hist' = [hist EXCEPT !.disturbed = b, !.torn = c]  BY DEF Read
  <2> QED  BY <1>0, <2>1 DEF TypeRest, Past
<1>3. CASE \E m, d : Move(t, 1, m, d)  BY <1>0, <1>1, <1>2, <1>3, OnePast DEF Elsewhere
<1>4. CASE t \in Reloads /\ Move(t, End(t) - pc[t], Nothing, Nothing)
  <2>1. pc[t] = 2 /\ End(t) = 12  BY <1>0, <1>1, <1>4, Here, Where, Kinds, ReloadAt
  <2>2. pc' = [pc EXCEPT ![t] = pc[t] + (End(t) - pc[t])]  BY <1>0, <1>4, Moves
  <2>3. pc' = [pc EXCEPT ![t] = 12]  BY <2>1, <2>2
  <2>4. Goes(t, 12)  BY <1>1, <2>1, <2>3 DEF Goes
  <2>5. Passes(t, 12)  BY <1>1, <1>2, <1>4, <2>1, <2>4 DEF Passes, Elsewhere
  <2> QED  BY <2>5
<1> QED  BY <1>3, <1>4 DEF Read

LEMMA HandlesIt ==
  ASSUME IInv, NEW t \in Threads, NEW what \in Between \cup {"check"}, Doing(t, pc[t]) = what, process.up,
         NEW n, Jump(t, n), NEW k, k = pc[t] + n, k \in 1..End(t), pc[t] < k, Scheduling(t)
  PROVE  Handles(t, k, what)
<1>0. TypeOK /\ TypeRest  BY TypeParts DEF IInv, Control
<1>1. pc' = [pc EXCEPT ![t] = k]  BY <1>0, Moves DEF Jump
<1>2. process' = process /\ api' = api  BY DEF Scheduling, servers
<1>3. pc[t] # 1  BY <1>0, Followed DEF Between
<1>4. hist'.raced = Races(t)
  <2> DEFINE b == Races(t)
  <2>1. hist \in Past /\ hist' = [hist EXCEPT !.raced = b]  BY <1>0 DEF TypeRest, Scheduling
  <2> HIDE DEF b
  <2>2. hist'.raced = b  BY <2>1 DEF Past
  <2> QED  BY <2>2 DEF b
<1>5. \A u \in Threads : Op(u)[1] = Doing(u, pc[u])  BY <1>0, Here
<1>6. /\ hist.raced => hist'.raced
      /\ ~hist'.raced => \A u \in Threads \ {t} : Doing(u, pc[u]) \notin Between
  BY <1>4, <1>5 DEF Races, Between
<1>7. Goes(t, k)  BY <1>1, <1>2, <1>3 DEF Goes
<1> QED  BY <1>6, <1>7 DEF Handles

LEMMA CheckSchedule == ASSUME IInv, Alone, Kept, NEW t \in Threads, Check(t) PROVE Alone' /\ Kept'
<1>0. TypeOK /\ Op(t) = Element(t, pc[t]) /\ Op(t)[1] = Doing(t, pc[t]) /\ pc[t] \in 1..End(t) /\ End(t) \in Nat
  BY Here DEF IInv, Control
<1> PICK n : n = IF cron = 0 THEN Op(t)[2] + 1 ELSE 1  OBVIOUS
<1>1. process.up /\ Doing(t, pc[t]) = "check" /\ Jump(t, n) /\ UNCHANGED <<cron, crons, applied>> /\ Scheduling(t)
  BY <1>0 DEF Check, At, schedule
<1>2. Op(t)[2] \in {1, 2}  BY <1>0, <1>1, Where
<1> PICK k : k = pc[t] + n  OBVIOUS
<1>3. k \in 1..End(t) /\ pc[t] < k /\ n \in Nat
  <2>1. Ahead(t, pc[t] + 1) /\ Ahead(t, pc[t] + Op(t)[2] + 1)  BY <1>0, <1>1, WaysAhead
  <2>2. k = pc[t] + 1 \/ k = pc[t] + Op(t)[2] + 1  BY <1>0, <1>2
  <2>3. Ahead(t, k)  BY <2>1, <2>2
  <2> QED  BY <1>2, <2>3 DEF Ahead
<1>4. Handles(t, k, "check")  BY <1>1, <1>3, HandlesIt
<1>5. Kept'  BY <1>0, <1>1, <1>4, CheckKept
<1>6. Alone'
  <2>1. Goes(t, k)  BY <1>4 DEF Handles
  <2> QED  BY <1>0, <2>1, AloneGoes
<1> QED  BY <1>5, <1>6

LEMMA NilSchedule == ASSUME IInv, Alone, Kept, NEW t \in Threads, NilCron(t) PROVE Alone' /\ Kept'
<1>0. TypeOK /\ Op(t)[1] = Doing(t, pc[t])  BY Here DEF IInv, Control
<1>1. process.up /\ Doing(t, pc[t]) = "nil" /\ Jump(t, 1) /\ cron' = 0 /\ UNCHANGED <<crons, applied>> /\ Scheduling(t)
  BY <1>0 DEF NilCron, At
<1> PICK k : k = pc[t] + 1  OBVIOUS
<1>2. k \in 1..End(t) /\ pc[t] < k  BY <1>0, <1>1, NotOver
<1>3. Handles(t, k, "nil")  BY <1>1, <1>2, HandlesIt DEF Between
<1>4. Kept'  BY <1>0, <1>1, <1>3, NilKeeps
<1>5. Alone'
  <2>1. Goes(t, k)  BY <1>3 DEF Handles
  <2> QED  BY <1>0, <2>1, AloneGoes
<1> QED  BY <1>4, <1>5

LEMMA NewSchedule == ASSUME IInv, Alone, Kept, NEW t \in Threads, NewCron(t) PROVE Alone' /\ Kept'
<1>0. TypeOK /\ Op(t) = Element(t, pc[t]) /\ Op(t)[1] = Doing(t, pc[t]) /\ pc[t] \in 1..End(t) /\ End(t) \in Nat
  BY Here DEF IInv, Control
<1>1. process.up /\ Doing(t, pc[t]) = "new" /\ applied' = mine[t].v /\ Scheduling(t)
  BY <1>0 DEF NewCron, At
<1>2. Op(t)[2] \in {1, 2}  BY <1>0, <1>1, Where
<1> PICK n : n = IF applied' \in Unscheduled THEN Op(t)[2] + 1 ELSE 1  OBVIOUS
<1> PICK k : k = pc[t] + n  OBVIOUS
<1>3. /\ Jump(t, n)
      /\ \/ applied' \in Unscheduled /\ UNCHANGED <<cron, crons>>
         \/ /\ applied' \notin Unscheduled
            /\ crons' = Append(crons, [on |-> FALSE, jobs |-> 0]) /\ cron' = Len(crons) + 1
  BY <1>1 DEF NewCron
<1>4. k \in 1..End(t) /\ pc[t] < k /\ n \in Nat
  <2>1. Ahead(t, pc[t] + 1) /\ Ahead(t, pc[t] + Op(t)[2] + 1)  BY <1>0, <1>1, WaysAhead
  <2>2. k = pc[t] + 1 \/ k = pc[t] + Op(t)[2] + 1  BY <1>0, <1>2
  <2>3. Ahead(t, k)  BY <2>1, <2>2
  <2> QED  BY <1>2, <2>3 DEF Ahead
<1>5. Handles(t, k, "new")  BY <1>1, <1>3, <1>4, HandlesIt DEF Between
<1>6. Kept'
  <2>1. applied' \in Unscheduled => k = pc[t] + Element(t, pc[t])[2] + 1  BY <1>0, <1>2
  <2>2. applied' \notin Unscheduled => k = pc[t] + 1  BY <1>0
  <2> QED  BY <1>0, <1>3, <1>5, <2>1, <2>2, NewKeeps
<1>7. Alone'
  <2>1. Goes(t, k)  BY <1>5 DEF Handles
  <2> QED  BY <1>0, <2>1, AloneGoes
<1> QED  BY <1>6, <1>7

\* What StopCron, AddFunc and StartCron make of the cron object.
LEMMA CurrentBecomes ==
  ASSUME TypeOK, cron # 0
  PROVE  /\ ~[Current EXCEPT !.on = FALSE].on /\ [Current EXCEPT !.on = FALSE].jobs = crons[cron].jobs
         /\ [Current EXCEPT !.on = TRUE].on /\ [Current EXCEPT !.on = TRUE].jobs = crons[cron].jobs
         /\ [Current EXCEPT !.jobs = @ + 1].on = crons[cron].on
         /\ [Current EXCEPT !.jobs = @ + 1].jobs = crons[cron].jobs + 1
<1>1. TypeRest  BY TypeParts
<1>2. crons[cron] \in Cron  BY <1>1 DEF TypeRest
<1>3. Current = crons[cron]  BY DEF Current
<1> QED  BY <1>2, <1>3 DEF Cron

LEMMA UseSchedule ==
  ASSUME IInv, Alone, Kept, NEW t \in Threads, NEW what \in Uses, NEW c, Use(t, what, c), cron # 0
  PROVE  Alone' /\ \E k : Using(t, k, what, c)
<1>0. TypeOK /\ Op(t)[1] = Doing(t, pc[t])  BY Here DEF IInv, Control
<1>1. /\ process.up /\ Doing(t, pc[t]) = what /\ Jump(t, 1) /\ crons' = [crons EXCEPT ![cron] = c]
      /\ UNCHANGED <<cron, applied>> /\ Scheduling(t)
  BY <1>0 DEF Use, At
<1> PICK k : k = pc[t] + 1  OBVIOUS
<1>2. k \in 1..End(t) /\ pc[t] < k  BY <1>0, <1>1, NotOver DEF Uses
<1>3. what \in Between \cup {"check"}  BY DEF Uses, Between
<1>4. Handles(t, k, what)  BY <1>1, <1>2, <1>3, HandlesIt
<1>5. Using(t, k, what, c)  BY <1>1, <1>4 DEF Using
<1>6. Goes(t, k)  BY <1>4 DEF Handles
<1> QED  BY <1>0, <1>5, <1>6, AloneGoes

LEMMA CronSchedule ==
  ASSUME IInv, Alone, Kept, NEW t \in Threads, StopCron(t) \/ AddFunc(t) \/ StartCron(t), cron # 0
  PROVE  Alone' /\ Kept'
<1>0. TypeOK  BY DEF IInv, Control
<1>1. CASE StopCron(t)
  <2> PICK c : c = [Current EXCEPT !.on = FALSE]  OBVIOUS
  <2>1. Use(t, "stop", c) /\ "stop" \in Uses  BY <1>1 DEF StopCron, Uses
  <2>2. Alone' /\ \E k : Using(t, k, "stop", c)  BY <2>1, UseSchedule
  <2>3. ~c.on /\ c.jobs = crons[cron].jobs  BY <1>0, CurrentBecomes
  <2> QED  BY <1>0, <2>2, <2>3, StopKeeps
<1>2. CASE AddFunc(t)
  <2> PICK c : c = [Current EXCEPT !.jobs = @ + 1]  OBVIOUS
  <2>1. Use(t, "add", c) /\ "add" \in Uses  BY <1>2 DEF AddFunc, Uses
  <2>2. Alone' /\ \E k : Using(t, k, "add", c)  BY <2>1, UseSchedule
  <2>3. c.on = crons[cron].on /\ c.jobs = crons[cron].jobs + 1  BY <1>0, CurrentBecomes
  <2> QED  BY <1>0, <2>2, <2>3, AddKeeps
<1>3. CASE StartCron(t)
  <2> PICK c : c = [Current EXCEPT !.on = TRUE]  OBVIOUS
  <2>1. Use(t, "start", c) /\ "start" \in Uses  BY <1>3 DEF StartCron, Uses
  <2>2. Alone' /\ \E k : Using(t, k, "start", c)  BY <2>1, UseSchedule
  <2>3. c.on /\ c.jobs = crons[cron].jobs  BY <1>0, CurrentBecomes
  <2> QED  BY <1>0, <2>2, <2>3, StartKeeps
<1> QED  BY <1>1, <1>2, <1>3

LEMMA CronPanics ==
  ASSUME IInv, Alone, Kept, NEW t \in Threads, StopCron(t) \/ AddFunc(t) \/ StartCron(t), cron = 0
  PROVE  (Alone' /\ Kept' /\ process'.up) \/ (process.up /\ Die("cron"))
<1>0. TypeOK /\ TypeRest /\ Op(t)[1] = Doing(t, pc[t])  BY Here, TypeParts DEF IInv, Control
<1>1. Panic(t, "cron") /\ process.up /\ Doing(t, pc[t]) \in Uses
  BY <1>0 DEF StopCron, AddFunc, StartCron, Use, At, Uses
<1>2. hist.raced  BY <1>1 DEF IInv, HasCron
<1>3. CASE t \in Requests
  <2> PICK k : k = End(t)  OBVIOUS
  <2>1. /\ pc' = [pc EXCEPT ![t] = k] /\ process' = process /\ api' = api /\ UNCHANGED <<cron, crons, applied>>
        /\ \E b : hist' = [hist EXCEPT !.disturbed = b]
    BY <1>1, <1>3 DEF Panic, servers, schedule
  <2>2. hist'.raced  BY <1>0, <1>2, <2>1 DEF TypeRest, Past
  <2>3. k \in 1..End(t) /\ pc[t] < k  BY <1>0, <1>1, NotOver DEF Uses
  <2>4. pc[t] # 1  BY <1>0, <1>1, Followed DEF Uses
  <2>5. Goes(t, k)  BY <1>1, <2>1, <2>3, <2>4 DEF Goes
  <2>6. Kept'  BY <1>0, <1>1, <2>1, <2>2, <2>5, GivingUpKeeps
  <2>7. Alone'  BY <1>0, <2>5, AloneGoes
  <2> QED  BY <1>1, <2>1, <2>6, <2>7
<1>4. CASE t \notin Requests  BY <1>1, <1>4 DEF Panic
<1> QED  BY <1>3, <1>4

LEMMA RestAt ==
  ASSUME NEW t \in Threads
  PROVE  \A k \in {1, End(t)} : Doing(t, k) \notin Between
BY Kinds, MainAt, RestartAt, PatchAt, ReloadAt DEF Doing, Do, Between

ScheduleKept == Gone /\ Alone /\ Kept

\* Every state a process can start in.
LEMMA Afresh ==
  ASSUME \A u \in Threads : pc[u] \in {1, End(u)}, pc["main"] = 1, api = NewAPI, cron = 0, crons = <<>>, process.up
  PROVE  ScheduleKept
<1>1. "main" \in Threads  BY Kinds
<1>2. \A u \in Threads : Doing(u, pc[u]) \notin Between  BY RestAt
<1>3. Gone  BY DEF Gone
<1>4. Alone
  <2>1. \A u \in Threads : End(u) \in Nat  BY Kinds, MainAt, RestartAt, PatchAt, ReloadAt
  <2> QED  BY <2>1 DEF Alone, NewAPI, InFlight
<1>5. Renewed /\ Lasting  BY <1>1 DEF Renewed, Lasting, Renewing, Exchanging
<1>6. Others /\ Single  BY DEF Others, Single
<1>7. InOrder /\ OneBetween  BY <1>2 DEF InOrder, OneBetween, Between
<1> QED  BY <1>3, <1>4, <1>5, <1>6, <1>7 DEF ScheduleKept, Kept, Orderly

LEMMA InitSchedule == Init => ScheduleKept
<1> SUFFICES ASSUME Init PROVE ScheduleKept  OBVIOUS
<1>1. (\A u \in Threads : pc[u] = 1) /\ pc["main"] = 1  BY Kinds DEF Init
<1>2. api = NewAPI /\ cron = 0 /\ crons = <<>> /\ process.up  BY DEF Init
<1> QED  BY <1>1, <1>2, Afresh

LEMMA BootSchedule == ASSUME IInv, ScheduleKept, Boot PROVE ScheduleKept'
<1>0. TypeCore /\ TypeRest /\ TypeOK /\ Down  BY TypeParts DEF IInv, Control
<1>m. "main" \in Threads  BY Kinds
<1>1. /\ ~process.up /\ pc' = [pc EXCEPT !["main"] = 1] /\ UNCHANGED <<api, cron, crons, applied>>
      /\ process' = [process EXCEPT !.up = TRUE, !.boots = @ + 1]
  BY DEF Boot, servers, schedule
<1>2. process'.up
  <2> DEFINE n == process.boots + 1
  <2>1. process' = [process EXCEPT !.up = TRUE, !.boots = n]  BY <1>1
  <2> HIDE DEF n
  <2> QED  BY <1>0, <2>1 DEF TypeCore
<1>3. api = NewAPI /\ \A u \in Threads : ~InFlight(u)  BY <1>0, <1>1 DEF Down
<1>4. cron = 0 /\ crons = <<>>  BY <1>1 DEF ScheduleKept, Gone
<1>5. pc'["main"] = 1 /\ \A u \in Threads : pc'[u] \in {1, End(u)}
  <2>1. \A u \in Threads : pc[u] \in {1, End(u)}
    <3> SUFFICES ASSUME NEW u \in Threads PROVE pc[u] \in {1, End(u)}  OBVIOUS
    <3>1. pc[u] \in 1..End(u) /\ End(u) \in Nat  BY <1>0, Here
    <3> QED  BY <1>3, <3>1 DEF InFlight
  <2>2. pc'["main"] = 1 /\ \A u \in Threads : u # "main" => pc'[u] = pc[u]  BY <1>0, <1>1, <1>m DEF TypeCore
  <2> QED  BY <2>1, <2>2
<1>6. \A u \in Threads : Doing(u, pc'[u]) \notin Between  BY <1>5, RestAt
<1>7. cron' = 0 /\ crons' = <<>> /\ api' = NewAPI  BY <1>1, <1>3, <1>4
<1>8. Gone'  BY <1>2 DEF Gone
<1>9. Alone'
  <2>1. \A u \in Threads : InFlight(u)' <=> pc'[u] > 1 /\ pc'[u] < End(u)  BY DEF InFlight
  <2>2. \A u \in Threads : ~InFlight(u)'
    <3>1. \A u \in Threads : End(u) \in Nat  BY <1>0, Here
    <3> QED  BY <1>5, <2>1, <3>1
  <2> QED  BY <1>7, <2>2 DEF Alone, NewAPI
<1>10. Renewed' /\ Lasting'
  <2>1. Renewing("main", pc'["main"]) /\ Exchanging("main", pc'["main"])  BY <1>5 DEF Renewing, Exchanging
  <2> QED  BY <1>m, <2>1, Primed DEF Renewed, Lasting
<1>11. Orderly'
  <2>1. Others' /\ Single'  BY <1>7 DEF Others, Single
  <2>2. InOrder' /\ OneBetween'  BY <1>6, <1>7, Primed DEF InOrder, OneBetween, Between
  <2> QED  BY <2>1, <2>2 DEF Orderly
<1> QED  BY <1>8, <1>9, <1>10, <1>11 DEF ScheduleKept, Kept

LEMMA DieSchedule == ASSUME IInv, NEW why, Die(why) PROVE ScheduleKept'
<1>0. TypeCore  BY TypeParts DEF IInv, Control
<1>1. cron' = 0 /\ crons' = <<>>  BY DEF Die
<1>2. ~process'.up
  <2> DEFINE n == IF why = "killed" THEN process.crashes + 1 ELSE process.crashes
  <2>1. process' = [process EXCEPT !.up = FALSE, !.crashes = n]  BY DEF Die
  <2> HIDE DEF n
  <2> QED  BY <1>0, <2>1 DEF TypeCore
<1> QED  BY <1>1, <1>2 DEF ScheduleKept, Gone, Alone, Kept

LEMMA BindSchedule ==
  ASSUME IInv, ScheduleKept, DNSBind \/ APIBind \/ UNCHANGED vars
  PROVE  ScheduleKept'
<1>1. UNCHANGED <<pc, cron, crons, applied, process, hist>> /\ (api' = api \/ (process.up /\ api.starting > 0))
  BY DEF DNSBind, APIBind, vars, proc, schedule, servers
<1>2. Gone'  BY <1>1 DEF ScheduleKept, Gone
<1>3. Alone'
  <2>1. \A u \in Threads : InFlight(u)' <=> InFlight(u)  BY <1>1 DEF InFlight
  <2> QED  BY <1>1, <2>1 DEF ScheduleKept, Alone
<1>4. Kept'
  <2> SUFFICES ASSUME process.up PROVE Renewed' /\ Lasting' /\ Orderly'  BY <1>1 DEF Kept
  <2>1. Renewed /\ Lasting /\ Orderly  BY DEF ScheduleKept, Kept
  <2>2. \A u \in Threads : pc'[u] = pc[u]  BY <1>1
  <2>3. Renewed' /\ Lasting'  BY <1>1, <2>1, <2>2, Primed DEF Renewed, Lasting
  <2>4. Orderly'
    <3>1. Others' <=> Others  BY <1>1 DEF Others
    <3>2. Single' <=> Single  BY <1>1 DEF Single
    <3>3. InOrder' <=> InOrder  BY <1>1, <2>2, Primed DEF InOrder
    <3>4. OneBetween' <=> OneBetween  BY <1>1, <2>2, Primed DEF OneBetween
    <3> QED  BY <1>1, <2>1, <3>1, <3>2, <3>3, <3>4 DEF Orderly
  <2> QED  BY <2>3, <2>4
<1> QED  BY <1>2, <1>3, <1>4 DEF ScheduleKept

LEMMA PassesSchedule ==
  ASSUME IInv, ScheduleKept, NEW t \in Threads, \E k : Passes(t, k)
  PROVE  ScheduleKept'
<1>0. TypeOK /\ Alone /\ Kept  BY DEF IInv, Control, ScheduleKept
<1>1. PICK k : Passes(t, k)  OBVIOUS
<1>2. Goes(t, k) /\ process'.up  BY <1>1 DEF Passes, Goes
<1>3. Alone' /\ Kept'  BY <1>0, <1>1, <1>2, AloneGoes, PassesKept
<1> QED  BY <1>2, <1>3 DEF ScheduleKept, Gone

LEMMA StepSchedule == ASSUME IInv, ScheduleKept, NEW t \in Threads, Step(t) PROVE ScheduleKept'
<1>0. Alone /\ Kept  BY DEF ScheduleKept
<1>1. CASE Exit(t)  BY <1>1, DieSchedule DEF Exit
<1>2. CASE Read(t)  BY <1>2, ReadPasses, PassesSchedule
<1>3. CASE Unlock(t) \/ Truncate(t) \/ Write(t) \/ Get(t) \/ Marshal(t) \/ DNSStart(t) \/ APIStart(t) \/ APIStop(t)
  BY <1>3, StepsPast, PassesSchedule
<1>4. CASE Update(t)  BY <1>4, ChangesPast, PassesSchedule
<1>5. CASE DNSStop(t)
  <2>1. CASE ~(dns.running /\ dns.closed)  BY <1>5, <2>1, ChangesPast, PassesSchedule
  <2>2. CASE dns.running /\ dns.closed
    <3>1. Panic(t, "stopCh") /\ Doing(t, pc[t]) = "dnsStop"  BY <1>5, <2>2, Here DEF DNSStop, At, IInv, Control
    <3>2. t \notin Requests  BY <3>1, Here, Where, Kinds DEF Requests, IInv, Control
    <3>3. Die("stopCh")  BY <3>1, <3>2 DEF Panic
    <3> QED  BY <3>3, DieSchedule
  <2> QED  BY <2>1, <2>2
<1>6. CASE Check(t) \/ NilCron(t) \/ NewCron(t)
  <2>1. Alone' /\ Kept'  BY <1>0, <1>6, CheckSchedule, NilSchedule, NewSchedule
  <2>2. process'.up  BY <1>6 DEF Check, NilCron, NewCron, At, Scheduling
  <2> QED  BY <2>1, <2>2 DEF ScheduleKept, Gone
<1>7. CASE (StopCron(t) \/ AddFunc(t) \/ StartCron(t)) /\ cron # 0
  <2>1. Alone' /\ Kept'  BY <1>0, <1>7, CronSchedule
  <2>2. process'.up  BY <1>7 DEF StopCron, AddFunc, StartCron, Use, At, Scheduling
  <2> QED  BY <2>1, <2>2 DEF ScheduleKept, Gone
<1>8. CASE (StopCron(t) \/ AddFunc(t) \/ StartCron(t)) /\ cron = 0
  <2>1. (Alone' /\ Kept' /\ process'.up) \/ Die("cron")  BY <1>0, <1>8, CronPanics
  <2>2. CASE Die("cron")  BY <2>2, DieSchedule
  <2>3. CASE Alone' /\ Kept' /\ process'.up  BY <2>3 DEF ScheduleKept, Gone
  <2> QED  BY <2>1, <2>2, <2>3
<1> QED  BY <1>1, <1>2, <1>3, <1>4, <1>5, <1>6, <1>7, <1>8 DEF Step

LEMMA NextSchedule == ASSUME IInv, ScheduleKept, [Next]_vars PROVE ScheduleKept'
<1>1. CASE \E t \in Threads : Step(t)  BY <1>1, StepSchedule
<1>2. CASE DNSBind \/ APIBind \/ Ended \/ UNCHANGED vars  BY <1>2, BindSchedule DEF Ended
<1>3. CASE \E t \in Threads : Request(t) \/ Signal(t)  BY <1>3, StepsPast, PassesSchedule
<1>4. CASE Crash  BY <1>4, DieSchedule DEF Crash
<1>5. CASE Boot  BY <1>5, BootSchedule
<1> QED  BY <1>1, <1>2, <1>3, <1>4, <1>5 DEF Next, Run

\* Nobody is about the schedule when main waits for a signal and no request is served.
LEMMA QuietSchedule ==
  ASSUME TypeOK, Quiet
  PROVE  \A t \in Threads : /\ ~Exchanging(t, pc[t]) /\ ~Starting(t, pc[t]) /\ ~Renewing(t, pc[t])
                            /\ Doing(t, pc[t]) # "add"
<1> SUFFICES ASSUME NEW t \in Threads
             PROVE  ~Exchanging(t, pc[t]) /\ ~Starting(t, pc[t]) /\ ~Renewing(t, pc[t]) /\ Doing(t, pc[t]) # "add"
  OBVIOUS
<1>1. CASE t = "main"
  <2>1. pc[t] = 11
    <3>1. Len(Startup) = 10  BY DEF Startup, Load
    <3> QED  BY <1>1, <3>1 DEF Quiet
  <2> QED  BY <1>1, <2>1, MainAt, Kinds DEF Exchanging, Starting, Renewing, Doing, Do
<1>2. CASE t # "main"
  <2>1. pc[t] = 1 \/ pc[t] = End(t)
    <3>1. pc[t] \in 1..End(t) /\ End(t) \in Nat /\ ~InFlight(t)  BY <1>2, Here DEF Quiet
    <3> QED  BY <3>1 DEF InFlight
  <2>2. Doing(t, pc[t]) \notin Between  BY <2>1, RestAt
  <2>3. ~Exchanging(t, pc[t])  BY <1>2, <2>1, Kinds, RestartAt, PatchAt, ReloadAt DEF Exchanging
  <2> QED  BY <1>2, <2>2, <2>3 DEF Starting, Renewing, Between
<1> QED  BY <1>1, <1>2

LEMMA JobsAre ==
  ASSUME TypeOK
  PROVE  /\ cron # 0 /\ crons[cron].on /\ crons[cron].jobs >= 1 => Jobs # {}
         /\ Others /\ cron = 0 => Jobs = {}
         /\ Others /\ cron # 0 /\ crons[cron].on /\ crons[cron].jobs = 1 => Jobs = {<<cron, 1>>}
<1>0. crons \in Seq(Cron) /\ cron \in 0..Len(crons)
  <2>1. TypeRest  BY TypeParts
  <2> QED  BY <2>1 DEF TypeRest
<1>1. DOMAIN crons = 1..Len(crons) /\ \A i \in 1..Len(crons) : crons[i].jobs \in Nat
  <2>1. \A i \in 1..Len(crons) : crons[i] \in Cron  BY <1>0
  <2> QED  BY <1>0, <2>1 DEF Cron
<1>2. ASSUME cron # 0, crons[cron].on, crons[cron].jobs >= 1 PROVE Jobs # {}
  <2>1. cron \in 1..Len(crons) /\ 1 \in 1..crons[cron].jobs  BY <1>0, <1>1, <1>2
  <2>2. <<cron, 1>> \in {cron} \X (1..crons[cron].jobs)  BY <2>1
  <2>3. cron \in {j \in DOMAIN crons : crons[j].on}  BY <1>1, <1>2, <2>1
  <2>4. <<cron, 1>> \in Jobs  BY <2>2, <2>3 DEF Jobs
  <2> QED  BY <2>4
<1>3. ASSUME Others, cron = 0 PROVE Jobs = {}
  <2>1. {j \in DOMAIN crons : crons[j].on} = {}  BY <1>1, <1>3 DEF Others
  <2> QED  BY <2>1 DEF Jobs
<1>4. ASSUME Others, cron # 0, crons[cron].on, crons[cron].jobs = 1 PROVE Jobs = {<<cron, 1>>}
  <2>1. {j \in DOMAIN crons : crons[j].on} = {cron}  BY <1>0, <1>1, <1>4 DEF Others
  <2>2. Jobs = {cron} \X (1..crons[cron].jobs)  BY <2>1 DEF Jobs
  <2>3. 1..crons[cron].jobs = {1}  BY <1>4
  <2> QED  BY <2>2, <2>3
<1> QED  BY <1>2, <1>3, <1>4

\* updater.go:71-110: whenever main waits for a signal and no request is being served the configured
\* schedule runs, however many goroutines have exchanged it at the same time; and unless two have, it
\* runs once and nothing runs that is not configured.
THEOREM LifecycleScheduledOnce == Spec => []ScheduledOnce
<1>1. ASSUME IInv, ScheduleKept PROVE ScheduledOnce
  <2> SUFFICES ASSUME Quiet
               PROVE  /\ applied \notin Unscheduled => Jobs # {}
                      /\ ~hist.raced => Cardinality(Jobs) = IF applied \in Unscheduled THEN 0 ELSE 1
    BY DEF ScheduledOnce
  <2>1. TypeOK /\ TypeRest /\ process.up  BY <1>1, TypeParts DEF IInv, Control, Quiet
  <2>2. Renewed /\ Lasting /\ Orderly  BY <1>1, <2>1 DEF ScheduleKept, Kept
  <2>3. applied \notin Unscheduled => cron # 0 /\ crons[cron].on /\ crons[cron].jobs >= 1
    BY <2>1, <2>2, QuietSchedule DEF Lasting
  <2>4. applied \notin Unscheduled => Jobs # {}  BY <2>1, <2>3, JobsAre
  <2>5. ASSUME ~hist.raced, applied \in Unscheduled PROVE Cardinality(Jobs) = 0
    <3>1. Others /\ cron = 0  BY <2>2, <2>5 DEF Orderly, Single
    <3> QED  BY <2>1, <3>1, JobsAre, FS_EmptySet
  <2>6. ASSUME ~hist.raced, applied \notin Unscheduled PROVE Cardinality(Jobs) = 1
    <3>1. Others /\ crons[cron].jobs <= 1  BY <2>2, <2>3, <2>6 DEF Orderly, Single
    <3>2. crons[cron].jobs \in Nat
      <4>1. crons[cron] \in Cron  BY <2>1, <2>3, <2>6 DEF TypeRest
      <4> QED  BY <4>1 DEF Cron
    <3>3. crons[cron].jobs = 1  BY <2>3, <2>6, <3>1, <3>2
    <3>4. Jobs = {<<cron, 1>>}  BY <2>1, <2>3, <2>6, <3>1, <3>3, JobsAre
    <3> QED  BY <3>4, FS_Singleton
  <2> QED  BY <2>4, <2>5, <2>6
<1>2. IInv /\ ScheduleKept /\ [Next]_vars => ScheduleKept'  BY NextSchedule
<1>3. IInv /\ ScheduleKept => ScheduledOnce  BY <1>1
<1>4. Spec => []IInv  BY Inductive
<1> QED  BY InitSchedule, <1>2, <1>3, <1>4, PTL DEF Spec
=============================================================================
