--------------------------- MODULE GeoUpdateProofs ---------------------------
(***************************************************************************)
(* What holds of Geo updates for every number of goroutines, targets and   *)
(* sources, for bodies of every length and after any number of crashes.    *)
(***************************************************************************)
EXTENDS GeoUpdate, SequenceTheorems, WellFoundedInduction, TLAPS

\* An update has targets of the list to go through, or none.
LEMMA UpdateTargetType ==
  ASSUME NEW name PROVE UpdateTarget(name) \in Seq(Target)
BY GeoUpdateConstants DEF UpdateTarget, Target

Job == [at : Places, todo : Seq(Target), urls : URLLists, i : Nat,
        off : 0..Chunks, fd : {"none", "tmp", "dest"}]

\* Resting and NextTarget are states of a goroutine.
LEMMA RestingType == /\ Resting \in Job /\ [Resting EXCEPT !.at = "done"] \in Job
                     /\ Resting.todo = <<>> /\ Resting.fd = "none"
<1>1. <<>> \in URLLists /\ <<>> \in Seq(Target)  BY EmptySeq DEF URLLists
<1>2. 0 \in 0..Chunks  BY GeoUpdateConstants
<1> QED  BY <1>1, <1>2 DEF Resting, Job, Places

LEMMA NextTargetType ==
  ASSUME NEW r \in Job, r.todo # <<>>
  PROVE  /\ NextTarget(r) \in Job
         /\ NextTarget(r).at \in {"begin", "done"} /\ NextTarget(r).fd = "none"
         /\ (NextTarget(r).todo = <<>> <=> NextTarget(r).at = "done")
<1>1. r.todo \in Seq(Target)  BY DEF Job
<1>2. Len(r.todo) # 1 => Tail(r.todo) \in Seq(Target) /\ Tail(r.todo) # <<>>
  <2>1. Tail(r.todo) \in Seq(Target) /\ Len(Tail(r.todo)) = Len(r.todo) - 1
    BY <1>1, HeadTailProperties
  <2>2. Len(r.todo) \in Nat /\ Len(r.todo) # 0  BY <1>1, EmptySeq
  <2>3. Tail(r.todo) = <<>> => Len(Tail(r.todo)) = 0  BY <2>1, EmptySeq
  <2>4. Len(r.todo) # 1 => Len(Tail(r.todo)) # 0  BY <2>1, <2>2
  <2> QED  BY <2>1, <2>3, <2>4
<1>3. /\ 0 \in 0..Chunks /\ <<>> \in URLLists /\ <<>> \in Seq(Target)
  BY GeoUpdateConstants, EmptySeq DEF URLLists
<1> QED  BY <1>2, <1>3 DEF NextTarget, Resting, Job, Places

\* A chunk written to a body makes a body.
LEMMA WrittenType ==
  ASSUME NEW body \in Body, NEW off \in Nat, NEW c \in Origin
  PROVE  \E b \in Body : Written(File(body), off, c) = File(b)
<1> DEFINE n == IF Len(body) > off THEN Len(body) ELSE off + 1
           b == [k \in 1..n |-> IF k = off + 1 THEN c ELSE IF k <= Len(body) THEN body[k] ELSE Hole]
<1>1. n \in Nat /\ Len(body) \in Nat  BY DEF Body
<1>2. \A k \in 1..Len(body) : body[k] \in Origin \cup {Hole}  BY DEF Body
<1>3. b \in [1..n -> Origin \cup {Hole}]  BY <1>1, <1>2
<1>4. b \in Body  BY <1>1, <1>3 DEF Body
<1> QED  BY <1>4 DEF Written, File

Record == [target : Target, status : {"success", "failed"}, by : Origin]
\* A goroutine and its targets: none before the update and after it.
Fits(r) == r \in Job /\ (r.todo = <<>> <=> r.at \in {"idle", "done"})

\* Where a goroutine is at work it has a target and a source.
LEMMA AtWork ==
  ASSUME TypeOK, NEW j \in Jobs, job[j].at \notin {"idle", "done"}
  PROVE  /\ job[j] \in Job /\ job[j].todo # <<>> /\ On(j) \in Target
         /\ <<j, Url(j)>> \in Origin
<1>1. job[j] \in Job /\ job[j].todo # <<>>  BY DEF TypeOK, Job
<1>2. On(j) \in Target
  <2>1. job[j].todo \in Seq(Target)  BY <1>1 DEF Job
  <2> QED  BY <2>1, <1>1, HeadTailProperties DEF On
<1>3. job[j].urls \in URLLists /\ job[j].i \in Nat  BY <1>1 DEF Job
<1> QED  BY <1>1, <1>2, <1>3 DEF Origin, Url

\* The history stays a list of entries.
LEMMA AddHistoryType ==
  ASSUME TypeOK, NEW e \in Record, AddHistory(e)
  PROVE  history' \in Seq(Record)
<1> DEFINE h == Append(history, e)
<1>1. history \in Seq(Record)  BY DEF TypeOK, Record
<1>2. h \in Seq(Record) /\ Len(h) = Len(history) + 1  BY <1>1, AppendProperties
<1>3. Len(history) \in Nat  BY <1>1
<1>4. maxHistoryEntries \in Nat \ {0}  BY GeoUpdateConstants
<1>5. CASE Len(h) > maxHistoryEntries
  <2> HIDE DEF h
  <2>1. SubSeq(h, Len(h) - maxHistoryEntries + 1, Len(h)) \in Seq(Record)
    BY <1>2, <1>3, <1>4, <1>5, SubSeqProperties
  <2> QED  BY <2>1, <1>5 DEF AddHistory, h
<1>6. CASE ~(Len(h) > maxHistoryEntries)  BY <1>6, <1>2 DEF AddHistory
<1> QED  BY <1>5, <1>6

\* What a step of one goroutine does to the goroutines.
Goroutines == job \in [Jobs -> Job] /\ \A j \in Jobs : Fits(job[j])
LEMMA OneGoroutine ==
  ASSUME Goroutines, NEW j \in Jobs, NEW r, Fits(r), job' = [job EXCEPT ![j] = r]
  PROVE  Goroutines'
BY DEF Goroutines, Fits

\* The rest of the type invariant: the files, and what the process keeps in memory.
FilesType ==
  /\ tmp \in [Target -> [there : BOOLEAN, body : Body]]
  /\ dest \in [Target -> [there : BOOLEAN, body : Body]]
  /\ \A t \in Target : (~tmp[t].there => tmp[t] = Missing) /\ (~dest[t].there => dest[t] = Missing)
MemoryType ==
  /\ cfg \in Settings /\ crashes \in 0..MaxCrashes
  /\ overlapped \subseteq Target /\ unread \subseteq Target
  /\ loaded \in [Target -> Body]
  /\ progress \in [Target -> {"none", "downloading", "loading", "completed", "failed"}]
  /\ history \in Seq(Record)
LEMMA TypeParts == TypeOK <=> Goroutines /\ FilesType /\ MemoryType
BY DEF TypeOK, Goroutines, Fits, Job, FilesType, MemoryType, Record

\* A goroutine at work goes on with its target.
LEMMA GoesOn ==
  ASSUME TypeOK, NEW j \in Jobs, NEW r \in Job,
         job[j].at \notin {"idle", "done"}, r.at \notin {"idle", "done"}, r.todo = job[j].todo,
         job' = [job EXCEPT ![j] = r]
  PROVE  Goroutines'
BY AtWork, TypeParts, OneGoroutine DEF Fits

LEMMA PlacesAre ==
  /\ {"begin", "request", "reading", "rename", "load", "finish", "failed", "done"} \subseteq Places
BY DEF Places

LEMMA GoroutinesStep == TypeOK /\ [Next]_vars => Goroutines'
<1> SUFFICES ASSUME TypeOK, [Next]_vars PROVE Goroutines'  OBVIOUS
<1>0. Goroutines  BY TypeParts
<1>c. Chunks \in Nat \ {0} /\ 0 \in 0..Chunks  BY GeoUpdateConstants
<1>1. ASSUME NEW j \in Jobs, NEW name, Start(j, name) PROVE Goroutines'
  <2> DEFINE place == IF UpdateTarget(name) = <<>> THEN "done" ELSE "begin"
             r == [job[j] EXCEPT !.todo = UpdateTarget(name), !.at = place]
  <2>1. UpdateTarget(name) \in Seq(Target)  BY UpdateTargetType
  <2>2. job[j] \in Job  BY <1>0 DEF Goroutines
  <2>3. place \in Places  BY PlacesAre
  <2>4. UpdateTarget(name) = <<>> <=> place \in {"idle", "done"}  OBVIOUS
  <2>5. job' = [job EXCEPT ![j] = r]  BY <1>1 DEF Start
  <2> HIDE DEF place
  <2>6. r \in Job /\ r.at = place /\ r.todo = UpdateTarget(name)  BY <2>1, <2>2, <2>3 DEF Job
  <2>7. Fits(r)  BY <2>4, <2>6 DEF Fits
  <2> QED  BY <1>0, <2>5, <2>7, OneGoroutine
<1>2. ASSUME NEW j \in Jobs, job[j].at \notin {"idle", "done"}, job' = [job EXCEPT ![j] = NextTarget(@)]
      PROVE  Goroutines'
  <2>1. Fits(NextTarget(job[j]))  BY <1>2, AtWork, NextTargetType DEF Fits
  <2> QED  BY <1>0, <1>2, <2>1, OneGoroutine
<1>3. ASSUME NEW j \in Jobs, Work(j) PROVE Goroutines'
  <2>1. job[j].at \notin {"idle", "done"}
    BY <1>3 DEF Work, At, Begin, RequestFails, Create, EndOfBody, Copy, BreakOff, Rename,
                RenameFails, Load, LoadFails, Finish, FailOver
  <2>2. job[j] \in Job /\ On(j) \in Target  BY <2>1, AtWork
  <2>3. job[j].i + 1 \in Nat /\ job[j].off \in 0..Chunks  BY <2>2 DEF Job
  <2>4. ASSUME Begin(j) PROVE Goroutines'
    <3>1. buildURLList(cfg[On(j)]) \in URLLists  BY <2>2 DEF URLLists, TypeOK
    <3> DEFINE r == [job[j] EXCEPT !.at = "request", !.urls = buildURLList(cfg[On(j)]), !.i = 1]
    <3>2. r \in Job /\ r.todo = job[j].todo /\ r.at = "request"  BY <2>2, <3>1, PlacesAre DEF Job
    <3>3. job' = [job EXCEPT ![j] = NextTarget(@)] \/ job' = [job EXCEPT ![j] = r]
      BY <2>4 DEF Begin
    <3> HIDE DEF r
    <3> QED  BY <1>2, <2>1, <3>2, <3>3, GoesOn
  <2>5. ASSUME SourceFailed(j) PROVE Goroutines'
    <3> DEFINE r == [job[j] EXCEPT !.at = "failed", !.fd = "none"]
    <3>1. r \in Job /\ r.todo = job[j].todo /\ r.at = "failed"  BY <2>2, PlacesAre DEF Job
    <3>2. job' = [job EXCEPT ![j] = r]  BY <2>5 DEF SourceFailed
    <3> HIDE DEF r
    <3> QED  BY <2>1, <3>1, <3>2, GoesOn
  <2>6. ASSUME Create(j) PROVE Goroutines'
    <3> DEFINE r == [job[j] EXCEPT !.at = "reading", !.off = 0, !.fd = "tmp"]
    <3>1. r \in Job /\ r.todo = job[j].todo /\ r.at = "reading"  BY <1>c, <2>2, PlacesAre DEF Job
    <3>2. job' = [job EXCEPT ![j] = r]  BY <2>6 DEF Create
    <3> HIDE DEF r
    <3> QED  BY <2>1, <3>1, <3>2, GoesOn
  <2>7. ASSUME EndOfBody(j) PROVE Goroutines'
    <3> DEFINE r == [job[j] EXCEPT !.at = "rename", !.fd = "none"]
    <3>1. r \in Job /\ r.todo = job[j].todo /\ r.at = "rename"  BY <2>2, PlacesAre DEF Job
    <3>2. job' = [job EXCEPT ![j] = r]  BY <2>7 DEF EndOfBody
    <3> HIDE DEF r
    <3> QED  BY <2>1, <3>1, <3>2, GoesOn
  <2>8. ASSUME NEW report, Copy(j, report) PROVE Goroutines'
    <3> DEFINE r == [job[j] EXCEPT !.off = @ + 1]
    <3>1. job[j].off + 1 \in 0..Chunks  BY <1>c, <2>3, <2>8 DEF Copy
    <3>2. r \in Job /\ r.todo = job[j].todo /\ r.at = job[j].at  BY <2>2, <3>1 DEF Job
    <3>3. job' = [job EXCEPT ![j] = r]  BY <2>8 DEF Copy
    <3> HIDE DEF r
    <3> QED  BY <2>1, <3>2, <3>3, GoesOn
  <2>9. ASSUME Load(j) PROVE Goroutines'
    <3> DEFINE r == [job[j] EXCEPT !.at = "finish"]
    <3>1. r \in Job /\ r.todo = job[j].todo /\ r.at = "finish"  BY <2>2, PlacesAre DEF Job
    <3>2. job' = [job EXCEPT ![j] = r]  BY <2>9 DEF Load, Go
    <3> HIDE DEF r
    <3> QED  BY <2>1, <3>1, <3>2, GoesOn
  <2>10. ASSUME FailOver(j) PROVE Goroutines'
    <3> DEFINE r == [job[j] EXCEPT !.at = "request", !.i = @ + 1]
    <3>1. r \in Job /\ r.todo = job[j].todo /\ r.at = "request"  BY <2>2, <2>3, PlacesAre DEF Job
    <3>2. job' = [job EXCEPT ![j] = NextTarget(@)] \/ job' = [job EXCEPT ![j] = r]
      BY <2>10 DEF FailOver
    <3> HIDE DEF r
    <3> QED  BY <1>2, <2>1, <3>1, <3>2, GoesOn
  <2>11. ASSUME NEW q \in [Jobs -> Job], NEW place \in {"failed", "load"}, NEW fd \in {"none", "tmp", "dest"},
                \A k \in Jobs : q[k].at = job[k].at /\ q[k].todo = job[k].todo,
                \/ job' = [q EXCEPT ![j] = [@ EXCEPT !.at = place, !.fd = fd]]
                \/ job' = [q EXCEPT ![j] = [@ EXCEPT !.at = place]]
         PROVE  Goroutines'
    <3> DEFINE r == IF job' = [q EXCEPT ![j] = [@ EXCEPT !.at = place]] THEN [q[j] EXCEPT !.at = place]
                    ELSE [q[j] EXCEPT !.at = place, !.fd = fd]
    <3>0. job' = [q EXCEPT ![j] = r]  BY <2>11
    <3>1. r \in Job /\ r.todo = job[j].todo /\ r.at = place  BY <2>11, PlacesAre DEF Job
    <3>2. Fits(r)  BY <2>1, <2>2, <1>0, <3>1 DEF Fits, Goroutines
    <3>3. \A k \in Jobs : Fits(q[k])  BY <2>11, <1>0 DEF Fits, Goroutines
    <3> HIDE DEF r
    <3> QED  BY <2>11, <3>0, <3>2, <3>3 DEF Goroutines, Fits
  <2>u. /\ Unlinked(On(j)) \in [Jobs -> Job]
        /\ \A k \in Jobs : Unlinked(On(j))[k].at = job[k].at /\ Unlinked(On(j))[k].todo = job[k].todo
    BY <1>0 DEF Unlinked, Goroutines, Job
  <2>12. ASSUME NEW report, BreakOff(j, report) PROVE Goroutines'
    <3>1. job' = [Unlinked(On(j)) EXCEPT ![j] = [@ EXCEPT !.at = "failed", !.fd = "none"]]
      BY <2>12 DEF BreakOff
    <3> QED  BY <2>u, <2>11, <3>1
  <2>13. ASSUME RenameFails(j) PROVE Goroutines'
    <3>1. job' = [Unlinked(On(j)) EXCEPT ![j] = [@ EXCEPT !.at = "failed"]]
      BY <2>13 DEF RenameFails
    <3> QED  BY <2>u, <2>11, <3>1
  <2>14. ASSUME Rename(j) PROVE Goroutines'
    <3> DEFINE moved(k) == CASE job[k].fd = "tmp" -> "dest" [] OTHER -> "none"
               q == [k \in Jobs |-> IF Updating(k, On(j)) THEN [job[k] EXCEPT !.fd = moved(k)] ELSE job[k]]
    <3>1. /\ q \in [Jobs -> Job]
          /\ \A k \in Jobs : q[k].at = job[k].at /\ q[k].todo = job[k].todo
      BY <1>0 DEF Goroutines, Job
    <3>2. job' = [q EXCEPT ![j] = [@ EXCEPT !.at = "load"]]  BY <2>14 DEF Rename
    <3> HIDE DEF q
    <3> QED  BY <2>11, <3>1, <3>2
  <2> QED  BY <1>2, <1>3, <2>1, <2>4, <2>5, <2>6, <2>7, <2>8, <2>9, <2>10, <2>12, <2>13, <2>14
           DEF Work, RequestFails, LoadFails, Finish
<1>4. ASSUME Restart PROVE Goroutines'
  <2>1. Fits(Resting) /\ Fits([Resting EXCEPT !.at = "done"])
    BY RestingType DEF Fits, Resting
  <2> QED  BY <1>4, <2>1 DEF Restart, Goroutines, Fits
<1>5. ASSUME UNCHANGED job PROVE Goroutines'  BY <1>0, <1>5 DEF Goroutines
<1> QED  BY <1>1, <1>3, <1>4, <1>5 DEF Next, vars, Reconfigure

LEMMA FilesStep == TypeOK /\ [Next]_vars => FilesType'
<1> SUFFICES ASSUME TypeOK, [Next]_vars PROVE FilesType'  OBVIOUS
<1> DEFINE Inode == [there : BOOLEAN, body : Body]
<1>0. FilesType  BY TypeParts
<1>1. /\ Missing \in Inode /\ File(<<>>) \in Inode /\ File(<<>>).there
  BY EmptySeq DEF Missing, File, Body
<1>2. ASSUME UNCHANGED files PROVE FilesType'  BY <1>0, <1>2 DEF FilesType, files
<1>3. ASSUME NEW j \in Jobs, Create(j) PROVE FilesType'
  BY <1>0, <1>1, <1>3, AtWork DEF FilesType, Create, At
<1>4. ASSUME NEW j \in Jobs, NEW report, Copy(j, report) PROVE FilesType'
  <2> DEFINE c == <<j, Url(j)>>
  <2>1. On(j) \in Target /\ c \in Origin /\ job[j] \in Job  BY <1>4, AtWork DEF Copy, At
  <2>2. job[j].off \in Nat  BY <2>1, GeoUpdateConstants DEF Job
  <2>3. \A f \in Inode : Written(f, job[j].off, c) \in Inode /\ Written(f, job[j].off, c).there
    <3> SUFFICES ASSUME NEW f \in Inode
                 PROVE  Written(f, job[j].off, c) \in Inode /\ Written(f, job[j].off, c).there
      OBVIOUS
    <3>1. Written(f, job[j].off, c) = Written(File(f.body), job[j].off, c)  BY DEF Written, File
    <3>2. PICK b \in Body : Written(f, job[j].off, c) = File(b)  BY <2>1, <2>2, <3>1, WrittenType
    <3>3. File(b) \in Inode /\ File(b).there  BY DEF File
    <3> QED  BY <3>2, <3>3, Zenon
  <2>4. tmp' = tmp \/ tmp' = [tmp EXCEPT ![On(j)] = Written(@, job[j].off, c)]  BY <1>4 DEF Copy
  <2>5. dest' = dest \/ dest' = [dest EXCEPT ![On(j)] = Written(@, job[j].off, c)]  BY <1>4 DEF Copy
  <2> DEFINE w(f) == Written(f, job[j].off, c)
  <2>6. tmp' = tmp \/ tmp' = [tmp EXCEPT ![On(j)] = w(tmp[On(j)])]  BY <2>4
  <2>7. dest' = dest \/ dest' = [dest EXCEPT ![On(j)] = w(dest[On(j)])]  BY <2>5
  <2>8. tmp \in [Target -> Inode] /\ dest \in [Target -> Inode]  BY <1>0 DEF FilesType
  <2>9. /\ w(tmp[On(j)]) \in Inode /\ w(tmp[On(j)]).there
        /\ w(dest[On(j)]) \in Inode /\ w(dest[On(j)]).there
    BY <2>1, <2>3, <2>8
  <2> HIDE DEF w
  <2> QED  BY <1>0, <2>1, <2>6, <2>7, <2>9 DEF FilesType
<1>5. ASSUME NEW j \in Jobs, job[j].at \notin {"idle", "done"}, tmp' = [tmp EXCEPT ![On(j)] = Missing],
             dest' = dest \/ dest' = [dest EXCEPT ![On(j)] = tmp[On(j)]]
      PROVE  FilesType'
  <2>1. On(j) \in Target  BY <1>5, AtWork
  <2>2. tmp[On(j)] \in Inode /\ (~tmp[On(j)].there => tmp[On(j)] = Missing)  BY <1>0, <2>1 DEF FilesType
  <2> QED  BY <1>0, <1>1, <1>5, <2>1, <2>2 DEF FilesType
<1>6. ASSUME NEW j \in Jobs, \/ \E report \in BOOLEAN : BreakOff(j, report)
                             \/ Rename(j) \/ RenameFails(j)
      PROVE  FilesType'
  BY <1>5, <1>6 DEF BreakOff, Rename, RenameFails, At
<1> QED
  BY <1>2, <1>3, <1>4, <1>6 DEF Next, vars, files, Start, Work, Begin, RequestFails, EndOfBody, Load,
     LoadFails, Finish, FailOver, Reconfigure, Restart

LEMMA MemoryStep == TypeOK /\ [Next]_vars => MemoryType'
<1> SUFFICES ASSUME TypeOK, [Next]_vars PROVE MemoryType'  OBVIOUS
<1>0. MemoryType /\ FilesType  BY TypeParts
<1> DEFINE Status == {"none", "downloading", "loading", "completed", "failed"}
<1>1. ASSUME NEW j \in Jobs, Work(j) PROVE MemoryType'
  <2>1. job[j].at \notin {"idle", "done"}
    BY <1>1 DEF Work, At, Begin, RequestFails, Create, EndOfBody, Copy, BreakOff, Rename,
                RenameFails, Load, LoadFails, Finish, FailOver
  <2>2. On(j) \in Target /\ <<j, Url(j)>> \in Origin /\ <<j, 0>> \in Origin
    BY <2>1, AtWork DEF Origin
  <2>3. cfg' = cfg /\ crashes' = crashes
    BY <1>1 DEF Work, Begin, RequestFails, Create, EndOfBody, Copy, BreakOff, Rename,
                RenameFails, Load, LoadFails, Finish, FailOver
  <2>4. overlapped' \subseteq Target /\ unread' \subseteq Target
    BY <1>0, <1>1, <2>2 DEF MemoryType, Work, Begin, RequestFails, Create, EndOfBody, Copy, BreakOff,
       Rename, RenameFails, Load, LoadFails, Finish, FailOver
  <2>5. loaded' = loaded \/ loaded' = [loaded EXCEPT ![On(j)] = dest[On(j)].body]
    BY <1>1 DEF Work, Begin, RequestFails, Create, EndOfBody, Copy, BreakOff, Rename,
                RenameFails, Load, LoadFails, Finish, FailOver
  <2>6. loaded' \in [Target -> Body]
    BY <1>0, <2>2, <2>5 DEF MemoryType, FilesType
  <2>7. progress' = progress \/ \E st \in Status : progress' = [progress EXCEPT ![On(j)] = st]
    BY <1>1 DEF Work, Begin, RequestFails, Create, EndOfBody, Copy, BreakOff, Rename,
                RenameFails, Load, LoadFails, Finish, FailOver, SetProgress
  <2>8. progress' \in [Target -> Status]
    BY <1>0, <2>7 DEF MemoryType
  <2>9. history' = history \/ \E e \in Record : AddHistory(e)
    BY <1>1, <2>2 DEF Record, Work, Begin, RequestFails, Create, EndOfBody, Copy, BreakOff, Rename,
                RenameFails, Load, LoadFails, Finish, FailOver
  <2>10. history' \in Seq(Record)  BY <1>0, <2>9, AddHistoryType DEF MemoryType
  <2> QED  BY <1>0, <2>3, <2>4, <2>6, <2>8, <2>10 DEF MemoryType
<1>2. ASSUME Restart PROVE MemoryType'
  <2>1. <<>> \in Body /\ <<>> \in Seq(Record)  BY EmptySeq DEF Body
  <2>2. loaded' \in [Target -> Body]  BY <1>0, <1>2, <2>1 DEF Restart, FilesType
  <2>3. crashes' \in 0..MaxCrashes  BY <1>0, <1>2, GeoUpdateConstants DEF Restart, MemoryType
  <2> QED  BY <1>0, <1>2, <2>1, <2>2, <2>3 DEF Restart, MemoryType
<1>3. CASE UNCHANGED vars  BY <1>0, <1>3 DEF vars, MemoryType
<1>4. ASSUME NEW j \in Jobs, NEW name, Start(j, name) PROVE MemoryType'
  BY <1>0, <1>4 DEF Start, MemoryType
<1>5. ASSUME NEW c \in Settings, Reconfigure(c) PROVE MemoryType'
  BY <1>0, <1>5 DEF Reconfigure, MemoryType
<1> QED  BY <1>1, <1>2, <1>3, <1>4, <1>5 DEF Next

LEMMA GeoTypeInit == Init => TypeOK
<1> SUFFICES ASSUME Init PROVE TypeOK  OBVIOUS
<1>1. <<>> \in Body /\ <<>> \in Seq(Record)  BY EmptySeq DEF Body
<1>2. Goroutines  BY RestingType DEF Init, Goroutines, Fits, Resting
<1>3. FilesType  BY <1>1 DEF Init, FilesType, Missing
<1>4. MemoryType  BY <1>1, GeoUpdateConstants DEF Init, MemoryType
<1> QED  BY <1>2, <1>3, <1>4, TypeParts

LEMMA GeoTypeStep == TypeOK /\ [Next]_vars => TypeOK'
<1> SUFFICES ASSUME TypeOK, [Next]_vars PROVE TypeOK'  OBVIOUS
<1>1. Goroutines' /\ FilesType' /\ MemoryType'  BY GoroutinesStep, FilesStep, MemoryStep
<1> QED  BY <1>1 DEF TypeOK, Goroutines, Fits, Job, FilesType, MemoryType, Record
-----------------------------------------------------------------------------
Active(j) == job[j].at \in {"request", "reading", "rename", "load", "finish", "failed"}
Chunk(j) == <<j, Url(j)>>
\* The body is n chunks of one download.
Filled(body, n, c) == Len(body) = n /\ \A k \in 1..n : body[k] = c

\* Unless updates of a target overlapped, one goroutine at most is past its first step on it.
Apart == \A j, k \in Jobs :
  Active(j) /\ Active(k) /\ On(j) = On(k) /\ On(j) \notin overlapped => j = k

\* What a goroutine has got so far is where it expects it.
InPlace(j) ==
  LET t == On(j) IN
  /\ At(j, "reading") => /\ job[j].fd = "tmp" /\ tmp[t].there
                         /\ Filled(tmp[t].body, job[j].off, Chunk(j))
  /\ At(j, "rename") => tmp[t].there /\ Filled(tmp[t].body, Chunks, Chunk(j))
  /\ At(j, "load") \/ At(j, "finish") => dest[t].there /\ Filled(dest[t].body, Chunks, Chunk(j))
  /\ At(j, "finish") => Filled(loaded[t], Chunks, Chunk(j))
AllInPlace == \A j \in Jobs : Active(j) /\ On(j) \notin overlapped => InPlace(j)

WholeFiles == \A t \in Target \ overlapped :
  /\ dest[t].there => \E c \in Origin : Filled(dest[t].body, Chunks, c)
  /\ loaded[t] # <<>> => dest[t].there /\ \E c \in Origin : Filled(loaded[t], Chunks, c)

\* No file is left behind and no progress is shown unless someone is at it.
Attended == \A t \in Target :
  /\ tmp[t].there /\ crashes = 0 => \E j \in Jobs : job[j].at \in {"reading", "rename"} /\ On(j) = t
  /\ progress[t] \in {"none", "completed", "failed"} \/ \E j \in Jobs : Active(j) /\ On(j) = t

\* The newest entry of a target, and what it says.
IsLast(h, n, t) == /\ n \in 1..Len(h) /\ h[n].target = t
                   /\ \A m \in 1..Len(h) : m > n => h[m].target # t
EntryIsTrue == \A t \in Target \ overlapped, n \in 1..Len(history) :
  /\ IsLast(history, n, t) /\ history[n].status = "success"
  /\ \A j \in Jobs : At(j, "finish") => On(j) # t
  => Filled(loaded[t], Chunks, history[n].by)

IInv == TypeOK /\ Apart /\ AllInPlace /\ WholeFiles /\ RestartAgrees /\ Attended /\ EntryIsTrue

\* What every action leaves alone: the other targets, and of the other goroutines all but
\* the descriptors of those that update the same target.
LEMMA Frame ==
  ASSUME TypeOK, NEW j \in Jobs, Work(j)
  PROVE  /\ job[j].at \notin {"idle", "done"} /\ On(j) \in Target
         /\ \A t \in Target : t # On(j) => /\ tmp'[t] = tmp[t] /\ dest'[t] = dest[t]
                                           /\ loaded'[t] = loaded[t] /\ progress'[t] = progress[t]
         /\ crashes' = crashes /\ overlapped \subseteq overlapped'
         /\ \A k \in Jobs : k # j =>
              /\ job'[k].at = job[k].at /\ job'[k].todo = job[k].todo /\ job'[k].urls = job[k].urls
              /\ job'[k].i = job[k].i /\ job'[k].off = job[k].off
              /\ On(k) # On(j) => job'[k].fd = job[k].fd
<1>1. job[j].at \notin {"idle", "done"}
  BY DEF Work, At, Begin, RequestFails, Create, EndOfBody, Copy, BreakOff, Rename,
         RenameFails, Load, LoadFails, Finish, FailOver
<1>2. On(j) \in Target  BY <1>1, AtWork
<1>3. ASSUME NEW t \in Target, t # On(j)
      PROVE  tmp'[t] = tmp[t] /\ dest'[t] = dest[t] /\ loaded'[t] = loaded[t] /\ progress'[t] = progress[t]
  BY <1>2, <1>3 DEF TypeOK, Work, Begin, RequestFails, Create, EndOfBody, Copy, BreakOff, Rename,
     RenameFails, Load, LoadFails, Finish, FailOver, SetProgress, files
<1>4. crashes' = crashes /\ overlapped \subseteq overlapped'
  BY DEF Work, Begin, RequestFails, Create, EndOfBody, Copy, BreakOff, Rename,
         RenameFails, Load, LoadFails, Finish, FailOver
<1>5. ASSUME NEW k \in Jobs, k # j
      PROVE  /\ job'[k].at = job[k].at /\ job'[k].todo = job[k].todo /\ job'[k].urls = job[k].urls
             /\ job'[k].i = job[k].i /\ job'[k].off = job[k].off
             /\ On(k) # On(j) => job'[k].fd = job[k].fd
  <2>1. job \in [Jobs -> Job] /\ job[k] \in Job  BY TypeParts DEF Goroutines
  <2>2. CASE job'[k] = job[k]  BY <2>2
  <2>3. CASE \/ \E report \in BOOLEAN : BreakOff(j, report)
             \/ RenameFails(j)
    <3>1. job'[k] = IF Updating(k, On(j)) /\ job[k].fd = "tmp"
                    THEN [job[k] EXCEPT !.fd = "none"] ELSE job[k]
      BY <1>5, <2>3 DEF BreakOff, RenameFails, Unlinked
    <3> QED  BY <2>1, <3>1 DEF Job, Updating
  <2>4. CASE Rename(j)
    <3>1. job'[k] = job[k] \/ \E fd : Updating(k, On(j)) /\ job'[k] = [job[k] EXCEPT !.fd = fd]
      BY <1>5, <2>4 DEF Rename
    <3> QED  BY <2>1, <3>1 DEF Job, Updating
  <2> QED
    BY <1>5, <2>1, <2>2, <2>3, <2>4 DEF Work, Begin, RequestFails, Create, EndOfBody, Copy,
       Load, LoadFails, Finish, FailOver, SourceFailed, Go
<1> QED  BY <1>1, <1>2, <1>3, <1>4, <1>5

\* What every action does to its own goroutine.
Keeps(j) == job'[j].todo = job[j].todo /\ job'[j].urls = job[j].urls /\ job'[j].i = job[j].i
LEMMA Own ==
  ASSUME TypeOK, NEW j \in Jobs
  PROVE  /\ Begin(j) => \/ job'[j].at = "request" /\ job'[j].todo = job[j].todo
                        \/ job'[j].at \in {"begin", "done"}
         /\ RequestFails(j) => job'[j].at = "failed" /\ Keeps(j)
         /\ Create(j) => job'[j].at = "reading" /\ job'[j].off = 0 /\ job'[j].fd = "tmp" /\ Keeps(j)
         /\ \A report : Copy(j, report) => /\ job'[j].at = "reading" /\ job'[j].off = job[j].off + 1
                                           /\ job'[j].fd = job[j].fd /\ Keeps(j)
         /\ EndOfBody(j) => job'[j].at = "rename" /\ Keeps(j)
         /\ \A report : BreakOff(j, report) => job'[j].at = "failed" /\ Keeps(j)
         /\ Rename(j) => job'[j].at = "load" /\ Keeps(j)
         /\ RenameFails(j) => job'[j].at = "failed" /\ Keeps(j)
         /\ Load(j) => job'[j].at = "finish" /\ Keeps(j)
         /\ LoadFails(j) => job'[j].at = "failed" /\ Keeps(j)
         /\ Finish(j) => job'[j].at \in {"begin", "done"}
         /\ FailOver(j) => \/ job'[j].at = "request" /\ job'[j].todo = job[j].todo
                           \/ job'[j].at \in {"begin", "done"}
<1>1. job \in [Jobs -> Job] /\ job[j] \in Job  BY TypeParts DEF Goroutines
<1>2. job[j].at \notin {"idle", "done"} => NextTarget(job[j]).at \in {"begin", "done"}
  BY AtWork, NextTargetType
<1>3. Begin(j) => \/ job'[j].at = "request" /\ job'[j].todo = job[j].todo
                  \/ job'[j].at \in {"begin", "done"}
  BY <1>1, <1>2 DEF Begin, Job, At
<1>4. /\ RequestFails(j) \/ LoadFails(j) => job'[j].at = "failed" /\ Keeps(j)
      /\ Create(j) => job'[j].at = "reading" /\ job'[j].off = 0 /\ job'[j].fd = "tmp" /\ Keeps(j)
      /\ EndOfBody(j) => job'[j].at = "rename" /\ Keeps(j)
      /\ Load(j) => job'[j].at = "finish" /\ Keeps(j)
  BY <1>1 DEF RequestFails, LoadFails, Create, EndOfBody, Load, Job, Keeps, SourceFailed, Go
<1>5. \A report : Copy(j, report) => /\ job'[j].at = "reading" /\ job'[j].off = job[j].off + 1
                                     /\ job'[j].fd = job[j].fd /\ Keeps(j)
  BY <1>1 DEF Copy, Job, Keeps, At
<1>6. Finish(j) => job'[j].at \in {"begin", "done"}  BY <1>1, <1>2 DEF Finish, At
<1>7. FailOver(j) => \/ job'[j].at = "request" /\ job'[j].todo = job[j].todo
                     \/ job'[j].at \in {"begin", "done"}
  BY <1>1, <1>2 DEF FailOver, At, Job
<1>8. ASSUME NEW q \in [Jobs -> Job], NEW place, NEW fd \in {"none", "tmp", "dest"},
             q[j].todo = job[j].todo /\ q[j].urls = job[j].urls /\ q[j].i = job[j].i,
             \/ job' = [q EXCEPT ![j].at = place, ![j].fd = fd]
             \/ job' = [q EXCEPT ![j].at = place]
      PROVE  job'[j].at = place /\ Keeps(j)
  <2>1. job'[j] = [q[j] EXCEPT !.at = place, !.fd = fd] \/ job'[j] = [q[j] EXCEPT !.at = place]
    BY <1>8
  <2>2. q[j] \in Job  BY <1>8
  <2> QED  BY <1>8, <2>1, <2>2 DEF Keeps, Job
<1>9. /\ \A report : BreakOff(j, report) => job'[j].at = "failed" /\ Keeps(j)
      /\ RenameFails(j) => job'[j].at = "failed" /\ Keeps(j)
  <2> DEFINE q == Unlinked(On(j))
  <2>1. /\ q \in [Jobs -> Job]
        /\ q[j].todo = job[j].todo /\ q[j].urls = job[j].urls /\ q[j].i = job[j].i
    BY <1>1 DEF Unlinked, Job
  <2> QED  BY <1>8, <2>1 DEF BreakOff, RenameFails
<1>10. Rename(j) => job'[j].at = "load" /\ Keeps(j)
  <2> DEFINE moved(k) == CASE job[k].fd = "tmp" -> "dest" [] OTHER -> "none"
             q == [k \in Jobs |-> IF Updating(k, On(j)) THEN [job[k] EXCEPT !.fd = moved(k)] ELSE job[k]]
  <2>1. /\ q \in [Jobs -> Job]
        /\ q[j].todo = job[j].todo /\ q[j].urls = job[j].urls /\ q[j].i = job[j].i
    BY <1>1 DEF Job
  <2>2. Rename(j) => job' = [q EXCEPT ![j].at = "load"]  BY DEF Rename
  <2> HIDE DEF q
  <2> QED  BY <1>8, <2>1, <2>2
<1> QED  BY <1>3, <1>4, <1>5, <1>6, <1>7, <1>9, <1>10

\* A goroutine that is active after its step was so before, or begins.
LEMMA StaysActive ==
  ASSUME TypeOK, NEW j \in Jobs, Work(j), Active(j)'
  PROVE  On(j)' = On(j) /\ (Active(j) \/ Begin(j))
BY Own DEF Work, Active, On, Keeps, At, RequestFails, Create, EndOfBody, Copy, BreakOff, Rename,
   RenameFails, Load, LoadFails, Finish, FailOver

\* The steps that are not the work of a goroutine at its target.
LEMMA Elsewhere ==
  ASSUME TypeOK, [Next]_vars, \A j \in Jobs : ~Work(j)
  PROVE  \/ /\ \A k \in Jobs : Active(k) \/ Active(k)' => job'[k] = job[k]
            /\ UNCHANGED <<tmp, dest, loaded, progress, history, crashes, overlapped, unread>>
         \/ Restart /\ \A k \in Jobs : job'[k].at \in {"idle", "done"}
<1>1. job \in [Jobs -> Job]  BY TypeParts DEF Goroutines
<1>2. ASSUME NEW j \in Jobs, NEW name, Start(j, name)
      PROVE  /\ \A k \in Jobs : Active(k) \/ Active(k)' => job'[k] = job[k]
             /\ UNCHANGED <<tmp, dest, loaded, progress, history, crashes, overlapped, unread>>
  <2>1. \A k \in Jobs : k # j => job'[k] = job[k]  BY <1>1, <1>2 DEF Start
  <2>2. job'[j].at \in {"begin", "done"} /\ job[j].at = "idle"  BY <1>1, <1>2 DEF Start, Job, At
  <2>3. ~Active(j) /\ ~Active(j)'  BY <2>2 DEF Active
  <2>4. UNCHANGED <<tmp, dest, loaded, progress, history, crashes, overlapped, unread>>
    BY <1>2 DEF Start, files
  <2>5. \A k \in Jobs : k # j => (Active(k)' <=> Active(k))  BY <2>1 DEF Active
  <2> QED  BY <2>1, <2>3, <2>4, <2>5
<1>3. ASSUME Restart PROVE \A k \in Jobs : job'[k].at \in {"idle", "done"}
  BY <1>3 DEF Restart, Resting
<1>4. ASSUME NEW c, Reconfigure(c)
      PROVE  UNCHANGED <<job, tmp, dest, loaded, progress, history, crashes, overlapped, unread>>
  BY <1>4 DEF Reconfigure, files
<1>5. ASSUME UNCHANGED vars
      PROVE  UNCHANGED <<job, tmp, dest, loaded, progress, history, crashes, overlapped, unread>>
  BY <1>5 DEF vars, files
<1>6. ASSUME UNCHANGED job PROVE \A k \in Jobs : job'[k] = job[k] /\ (Active(k)' <=> Active(k))
  BY <1>6 DEF Active
<1> QED  BY <1>2, <1>3, <1>4, <1>5, <1>6 DEF Next

LEMMA ApartStep == TypeOK /\ Apart /\ [Next]_vars => Apart'
<1> SUFFICES ASSUME TypeOK, Apart, [Next]_vars, NEW h \in Jobs, NEW k \in Jobs,
                    Active(h)', Active(k)', On(h)' = On(k)', (On(h) \notin overlapped)', h # k
             PROVE  FALSE
  BY DEF Apart
<1>1. CASE \A j \in Jobs : ~Work(j)
  BY <1>1, Elsewhere DEF Apart, Active, On
<1>2. ASSUME NEW j \in Jobs, Work(j) PROVE FALSE
  <2>1. \A i \in Jobs : i # j => On(i)' = On(i) /\ (Active(i)' => Active(i))
    BY <1>2, Frame DEF On, Active
  <2>2. overlapped \subseteq overlapped'  BY <1>2, Frame
  <2>3. Active(j)' => On(j)' = On(j) /\ (Active(j) \/ Begin(j))  BY <1>2, StaysActive
  <2>4. CASE h # j /\ k # j  BY <2>1, <2>2, <2>4 DEF Apart
  <2>5. ASSUME NEW i \in Jobs, i # j, Active(i), On(i) = On(j), Begin(j) PROVE On(j) \in overlapped'
    BY <2>5 DEF Begin, Updating, Active
  <2>6. ASSUME NEW i \in Jobs, i # j, Active(i), On(i) = On(j), Active(j) PROVE On(j) \in overlapped'
    BY <2>2, <2>6 DEF Apart
  <2> QED  BY <2>1, <2>3, <2>4, <2>5, <2>6
<1> QED  BY <1>1, <1>2

\* A goroutine that is alone on its target does not meet the steps of the others.
LEMMA Undisturbed ==
  ASSUME TypeOK, Apart, NEW j \in Jobs, Work(j), NEW k \in Jobs, k # j,
         Active(k), On(k) \notin overlapped'
  PROVE  On(k) # On(j)
<1>1. overlapped \subseteq overlapped' /\ job[j].at \notin {"idle", "done"}  BY Frame
<1>2. Active(j) \/ Begin(j)
  BY DEF Work, Active, At, RequestFails, Create, EndOfBody, Copy, BreakOff, Rename,
     RenameFails, Load, LoadFails, Finish, FailOver
<1>3. CASE Active(j)  BY <1>1, <1>3 DEF Apart
<1>4. CASE Begin(j)  BY <1>4 DEF Begin, Updating, Active
<1> QED  BY <1>2, <1>3, <1>4

\* A round of the copy loop adds a chunk at the end of a file that holds those before it.
LEMMA WrittenFills ==
  ASSUME NEW f, f.body \in Body, NEW off \in Nat, NEW c, Filled(f.body, off, c)
  PROVE  Written(f, off, c).there /\ Filled(Written(f, off, c).body, off + 1, c)
<1> DEFINE b == [k \in 1..IF Len(f.body) > off THEN Len(f.body) ELSE off + 1 |->
                   IF k = off + 1 THEN c ELSE IF k <= Len(f.body) THEN f.body[k] ELSE Hole]
<1>1. b = [k \in 1..(off + 1) |-> c]  BY DEF Filled
<1>2. Filled([k \in 1..(off + 1) |-> c], off + 1, c)  BY DEF Filled
<1>3. Written(f, off, c).there /\ Written(f, off, c).body = b  BY DEF Written, File
<1> QED  BY <1>1, <1>2, <1>3

LEMMA AllInPlaceStep == TypeOK /\ Apart /\ AllInPlace /\ [Next]_vars => AllInPlace'
<1> SUFFICES ASSUME TypeOK, Apart, AllInPlace, [Next]_vars, NEW k \in Jobs,
                    Active(k)', On(k)' \notin overlapped'
             PROVE  InPlace(k)'
  BY DEF AllInPlace
<1>0. Chunks \in Nat \ {0}  BY GeoUpdateConstants
<1>1. CASE \A j \in Jobs : ~Work(j)
  <2>1. /\ job'[k] = job[k] /\ Active(k)
        /\ UNCHANGED <<tmp, dest, loaded, overlapped>>
    BY <1>1, Elsewhere DEF Active
  <2>2. InPlace(k)  BY <2>1 DEF AllInPlace, On
  <2> QED  BY <2>1, <2>2 DEF InPlace, On, At, Chunk, Url
<1>2. ASSUME NEW j \in Jobs, Work(j), k # j PROVE InPlace(k)'
  <2>1. /\ job'[k].at = job[k].at /\ job'[k].todo = job[k].todo /\ job'[k].urls = job[k].urls
        /\ job'[k].i = job[k].i /\ job'[k].off = job[k].off
        /\ On(k) # On(j) => job'[k].fd = job[k].fd
    BY <1>2, Frame
  <2>2. Active(k) /\ On(k)' = On(k)  BY <2>1 DEF Active, On
  <2>3. On(k) # On(j) /\ On(k) \notin overlapped  BY <1>2, <2>2, Undisturbed, Frame
  <2>4. On(k) \in Target  BY <2>2, AtWork DEF Active
  <2>5. tmp'[On(k)] = tmp[On(k)] /\ dest'[On(k)] = dest[On(k)] /\ loaded'[On(k)] = loaded[On(k)]
    BY <1>2, <2>3, <2>4, Frame
  <2>6. InPlace(k)  BY <2>2, <2>3 DEF AllInPlace
  <2> QED  BY <2>1, <2>2, <2>3, <2>5, <2>6 DEF InPlace, At, Chunk, Url
<1>3. ASSUME Work(k) PROVE InPlace(k)'
  <2>1. On(k)' = On(k) /\ On(k) \in Target /\ On(k) \notin overlapped /\ (Active(k) \/ Begin(k))
    BY <1>3, StaysActive, Frame
  <2>2. Active(k) => InPlace(k)  BY <2>1 DEF AllInPlace
  <2>3. Keeps(k) => Chunk(k)' = Chunk(k)  BY DEF Keeps, Chunk, Url
  <2>4. tmp \in [Target -> [there : BOOLEAN, body : Body]] /\ dest \in [Target -> [there : BOOLEAN, body : Body]]
        /\ loaded \in [Target -> Body]
    BY TypeParts DEF FilesType, MemoryType
  <2>5. CASE job'[k].at \in {"request", "failed"}  BY <2>5 DEF InPlace, At
  <2>6. CASE Create(k)
    <3>1. job'[k].at = "reading" /\ job'[k].off = 0 /\ job'[k].fd = "tmp" /\ Keeps(k)  BY <2>6, Own
    <3>2. tmp'[On(k)] = File(<<>>)  BY <2>1, <2>4, <2>6 DEF Create
    <3>3. File(<<>>).there /\ Filled(File(<<>>).body, 0, Chunk(k))  BY DEF File, Filled
    <3> QED  BY <2>1, <2>3, <3>1, <3>2, <3>3 DEF InPlace, At
  <2>7. ASSUME NEW report, Copy(k, report) PROVE InPlace(k)'
    <3>1. /\ job'[k].at = "reading" /\ job'[k].off = job[k].off + 1 /\ job'[k].fd = job[k].fd /\ Keeps(k)
      BY <2>7, Own
    <3>2. Active(k) /\ job[k].fd = "tmp" /\ Filled(tmp[On(k)].body, job[k].off, Chunk(k))
      BY <2>2, <2>7 DEF Copy, Active, InPlace, At
    <3>3. tmp'[On(k)] = Written(tmp[On(k)], job[k].off, Chunk(k))
      BY <2>1, <2>4, <2>7, <3>2 DEF Copy, Chunk
    <3>4. job[k].off \in Nat /\ tmp[On(k)].body \in Body  BY <2>1, <2>4, <1>0 DEF TypeOK
    <3>5. tmp'[On(k)].there /\ Filled(tmp'[On(k)].body, job[k].off + 1, Chunk(k))
      BY <3>2, <3>3, <3>4, WrittenFills
    <3> QED  BY <2>1, <2>3, <3>1, <3>2, <3>5 DEF InPlace, At
  <2>8. CASE EndOfBody(k)
    <3>1. job'[k].at = "rename" /\ Keeps(k)  BY <2>8, Own
    <3>2. tmp[On(k)].there /\ Filled(tmp[On(k)].body, Chunks, Chunk(k))
      BY <2>2, <2>8 DEF EndOfBody, Active, InPlace, At
    <3>3. tmp' = tmp  BY <2>8 DEF EndOfBody, files
    <3> QED  BY <2>1, <2>3, <3>1, <3>2, <3>3 DEF InPlace, At
  <2>9. CASE Rename(k)
    <3>1. job'[k].at = "load" /\ Keeps(k)  BY <2>9, Own
    <3>2. tmp[On(k)].there /\ Filled(tmp[On(k)].body, Chunks, Chunk(k))
      BY <2>2, <2>9 DEF Rename, Active, InPlace, At
    <3>3. dest'[On(k)] = tmp[On(k)]  BY <2>1, <2>4, <2>9 DEF Rename
    <3> QED  BY <2>1, <2>3, <3>1, <3>2, <3>3 DEF InPlace, At
  <2>10. CASE Load(k)
    <3>1. job'[k].at = "finish" /\ Keeps(k)  BY <2>10, Own
    <3>2. dest[On(k)].there /\ Filled(dest[On(k)].body, Chunks, Chunk(k))
      BY <2>2, <2>10 DEF Load, Active, InPlace, At
    <3>3. loaded'[On(k)] = dest[On(k)].body /\ dest' = dest  BY <2>1, <2>4, <2>10 DEF Load, files
    <3> QED  BY <2>1, <2>3, <3>1, <3>2, <3>3 DEF InPlace, At
  <2>11. CASE Begin(k) \/ FailOver(k) \/ Finish(k)  BY <2>5, <2>11, Own DEF Active
  <2>12. CASE \/ RequestFails(k) \/ RenameFails(k) \/ LoadFails(k)
              \/ \E report \in BOOLEAN : BreakOff(k, report)
    BY <2>5, <2>12, Own
  <2> QED  BY <1>3, <2>6, <2>7, <2>8, <2>9, <2>10, <2>11, <2>12 DEF Work
<1> QED  BY <1>1, <1>2, <1>3

\* How the file and the data in force of a target without overlapping updates change.
LEMMA Changes ==
  ASSUME TypeOK, Apart, AllInPlace, NEW j \in Jobs, Work(j), NEW t \in Target \ overlapped'
  PROVE  /\ \/ dest'[t] = dest[t]
            \/ /\ Rename(j) /\ On(j) = t /\ dest'[t].there
               /\ Filled(dest'[t].body, Chunks, Chunk(j))
         /\ \/ loaded'[t] = loaded[t]
            \/ /\ Load(j) /\ On(j) = t /\ dest'[t].there /\ loaded'[t] = dest'[t].body
               /\ Filled(loaded'[t], Chunks, Chunk(j))
<1>1. t \notin overlapped  BY Frame
<1>2. CASE t # On(j)  BY <1>2, Frame
<1>3. CASE t = On(j)
  <2>1. Active(j) => InPlace(j)  BY <1>1, <1>3 DEF AllInPlace
  <2>2. tmp \in [Target -> [there : BOOLEAN, body : Body]] /\ dest \in [Target -> [there : BOOLEAN, body : Body]]
        /\ loaded \in [Target -> Body]
    BY TypeParts DEF FilesType, MemoryType
  <2>3. CASE Rename(j)
    <3>1. dest'[t] = tmp[t] /\ loaded' = loaded  BY <1>3, <2>2, <2>3 DEF Rename
    <3>2. tmp[t].there /\ Filled(tmp[t].body, Chunks, Chunk(j))
      BY <1>3, <2>1, <2>3 DEF Rename, Active, InPlace, At
    <3> QED  BY <1>3, <2>3, <3>1, <3>2
  <2>4. CASE Load(j)
    <3>1. loaded'[t] = dest[t].body /\ dest' = dest  BY <1>3, <2>2, <2>4 DEF Load, files
    <3>2. dest[t].there /\ Filled(dest[t].body, Chunks, Chunk(j))
      BY <1>3, <2>1, <2>4 DEF Load, Active, InPlace, At
    <3> QED  BY <1>3, <2>4, <3>1, <3>2
  <2>5. ASSUME NEW report, Copy(j, report) PROVE dest' = dest /\ loaded' = loaded
    BY <2>1, <2>5 DEF Copy, Active, InPlace, At
  <2>6. CASE \/ Begin(j) \/ RequestFails(j) \/ Create(j) \/ EndOfBody(j) \/ RenameFails(j)
             \/ LoadFails(j) \/ Finish(j) \/ FailOver(j)
             \/ \E report \in BOOLEAN : BreakOff(j, report)
    BY <2>6 DEF Begin, RequestFails, Create, EndOfBody, RenameFails, LoadFails, Finish, FailOver,
       BreakOff, files
  <2> QED  BY <2>3, <2>4, <2>5, <2>6 DEF Work
<1> QED  BY <1>2, <1>3

LEMMA WholeFilesStep == TypeOK /\ Apart /\ AllInPlace /\ WholeFiles /\ [Next]_vars => WholeFiles'
<1> SUFFICES ASSUME TypeOK, Apart, AllInPlace, WholeFiles, [Next]_vars,
                    NEW t \in Target \ overlapped'
             PROVE  /\ dest'[t].there => \E c \in Origin : Filled(dest'[t].body, Chunks, c)
                    /\ loaded'[t] # <<>> =>
                         dest'[t].there /\ \E c \in Origin : Filled(loaded'[t], Chunks, c)
  BY DEF WholeFiles
<1>1. CASE \A j \in Jobs : ~Work(j)
  <2>1. CASE UNCHANGED <<tmp, dest, loaded, progress, history, crashes, overlapped, unread>>
    BY <2>1 DEF WholeFiles
  <2>2. CASE Restart
    <3>1. dest' = dest /\ overlapped' = overlapped  BY <2>2 DEF Restart, files
    <3>2. loaded'[t] = IF dest[t].there THEN dest[t].body ELSE <<>>  BY <2>2 DEF Restart
    <3> QED  BY <3>1, <3>2 DEF WholeFiles
  <2> QED  BY <1>1, <2>1, <2>2, Elsewhere
<1>2. ASSUME NEW j \in Jobs, Work(j)
      PROVE  /\ dest'[t].there => \E c \in Origin : Filled(dest'[t].body, Chunks, c)
             /\ loaded'[t] # <<>> =>
                  dest'[t].there /\ \E c \in Origin : Filled(loaded'[t], Chunks, c)
  <2>1. Chunk(j) \in Origin /\ t \notin overlapped  BY <1>2, Frame, AtWork DEF Chunk
  <2>2. /\ dest[t].there => \E c \in Origin : Filled(dest[t].body, Chunks, c)
        /\ loaded[t] # <<>> => dest[t].there /\ \E c \in Origin : Filled(loaded[t], Chunks, c)
    BY <2>1 DEF WholeFiles
  <2> QED  BY <1>2, <2>1, <2>2, Changes
<1> QED  BY <1>1, <1>2

LEMMA RestartAgreesStep == TypeOK /\ Apart /\ AllInPlace /\ RestartAgrees /\ [Next]_vars => RestartAgrees'
<1> SUFFICES ASSUME TypeOK, Apart, AllInPlace, RestartAgrees, [Next]_vars,
                    NEW t \in Target \ overlapped', t \notin unread',
                    \A k \in Jobs : job'[k].at = "load" => On(k)' # t
             PROVE  loaded'[t] = dest'[t].body
  BY DEF RestartAgrees, At
<1>1. CASE \A j \in Jobs : ~Work(j)
  <2>1. CASE /\ \A k \in Jobs : Active(k) \/ Active(k)' => job'[k] = job[k]
             /\ UNCHANGED <<tmp, dest, loaded, progress, history, crashes, overlapped, unread>>
    <3>1. \A k \in Jobs : job[k].at = "load" => On(k) # t  BY <2>1 DEF Active, On
    <3> QED  BY <2>1, <3>1 DEF RestartAgrees, At
  <2>2. CASE Restart
    <3>1. dest' = dest  BY <2>2 DEF Restart, files
    <3>2. loaded'[t] = IF dest[t].there THEN dest[t].body ELSE <<>>  BY <2>2 DEF Restart
    <3>3. ~dest[t].there => dest[t].body = <<>>  BY DEF TypeOK, Missing
    <3> QED  BY <3>1, <3>2, <3>3
  <2> QED  BY <1>1, <2>1, <2>2, Elsewhere
<1>2. ASSUME NEW j \in Jobs, Work(j) PROVE loaded'[t] = dest'[t].body
  <2>1. t \notin overlapped  BY <1>2, Frame
  <2>2. \A k \in Jobs : k # j => job'[k].at = job[k].at /\ On(k)' = On(k)  BY <1>2, Frame DEF On
  <2>3. CASE Rename(j) /\ On(j) = t  BY <2>3, Own DEF Keeps, On
  <2>4. CASE Load(j) /\ On(j) = t
    <3>1. loaded'[t] = dest[t].body /\ dest' = dest  BY <2>4 DEF Load, files, TypeOK
    <3> QED  BY <3>1
  <2>5. CASE LoadFails(j) /\ On(j) = t  BY <2>5 DEF LoadFails
  <2>6. CASE ~(On(j) = t /\ (Rename(j) \/ Load(j) \/ LoadFails(j)))
    <3>1. dest'[t] = dest[t] /\ loaded'[t] = loaded[t]  BY <1>2, <2>6, Changes
    <3>2. At(j, "load") /\ On(j) = t => Load(j) \/ LoadFails(j)
      BY <1>2 DEF At, Work, Begin, RequestFails, Create, EndOfBody, Copy, BreakOff, Rename,
         RenameFails, Finish, FailOver
    <3>3. \A k \in Jobs : At(k, "load") => On(k) # t  BY <2>2, <2>6, <3>2 DEF At
    <3>4. t \notin unread
      BY <1>2, <2>6 DEF Work, Begin, RequestFails, Create, EndOfBody, Copy, BreakOff, Rename,
         RenameFails, Load, LoadFails, Finish, FailOver
    <3> QED  BY <2>1, <3>1, <3>3, <3>4 DEF RestartAgrees
  <2> QED  BY <2>3, <2>4, <2>5, <2>6
<1> QED  BY <1>1, <1>2

\* The two parts of Attended, for one target.
TmpAttended(t) ==
  tmp[t].there /\ crashes = 0 => \E j \in Jobs : job[j].at \in {"reading", "rename"} /\ On(j) = t
ProgressAttended(t) ==
  progress[t] \in {"none", "completed", "failed"} \/ \E j \in Jobs : Active(j) /\ On(j) = t

LEMMA AttendedStep == TypeOK /\ Attended /\ [Next]_vars => Attended'
<1> SUFFICES ASSUME TypeOK, Attended, [Next]_vars, NEW t \in Target
             PROVE  TmpAttended(t)' /\ ProgressAttended(t)'
  BY DEF Attended, TmpAttended, ProgressAttended
<1>0. TmpAttended(t) /\ ProgressAttended(t)  BY DEF Attended, TmpAttended, ProgressAttended
<1>1. CASE \A j \in Jobs : ~Work(j)
  <2>1. CASE /\ \A k \in Jobs : Active(k) \/ Active(k)' => job'[k] = job[k]
             /\ UNCHANGED <<tmp, dest, loaded, progress, history, crashes, overlapped, unread>>
    BY <1>0, <2>1 DEF TmpAttended, ProgressAttended, Active, On
  <2>2. CASE Restart
    <3>1. crashes' # 0  BY <2>2 DEF Restart, TypeOK
    <3>2. progress'[t] = "none"  BY <2>2 DEF Restart
    <3> QED  BY <3>1, <3>2 DEF TmpAttended, ProgressAttended
  <2> QED  BY <1>1, <2>1, <2>2, Elsewhere
<1>2. ASSUME NEW j \in Jobs, Work(j) PROVE TmpAttended(t)' /\ ProgressAttended(t)'
  <2>1. \A k \in Jobs : k # j => job'[k].at = job[k].at /\ On(k)' = On(k) /\ (Active(k)' <=> Active(k))
    BY <1>2, Frame DEF On, Active
  <2>2. crashes' = crashes  BY <1>2, Frame
  <2>3. CASE t # On(j)
    <3>1. tmp'[t] = tmp[t] /\ progress'[t] = progress[t]  BY <1>2, <2>3, Frame
    <3> QED  BY <1>0, <2>1, <2>2, <2>3, <3>1 DEF TmpAttended, ProgressAttended
  <2>4. CASE t = On(j)
    <3>1. TmpAttended(t)'
      <4>1. CASE Create(j) \/ EndOfBody(j) \/ \E report \in BOOLEAN : Copy(j, report)
        <5>1. job'[j].at \in {"reading", "rename"} /\ On(j)' = t  BY <2>4, <4>1, Own DEF Keeps, On
        <5> QED  BY <5>1 DEF TmpAttended
      <4>2. CASE Rename(j) \/ RenameFails(j) \/ \E report \in BOOLEAN : BreakOff(j, report)
        <5>1. tmp'[t] = Missing  BY <2>4, <4>2 DEF Rename, RenameFails, BreakOff, TypeOK
        <5> QED  BY <5>1 DEF TmpAttended, Missing
      <4>3. CASE Begin(j) \/ RequestFails(j) \/ Load(j) \/ LoadFails(j) \/ Finish(j) \/ FailOver(j)
        <5>1. tmp' = tmp /\ job[j].at \notin {"reading", "rename"}
          BY <4>3 DEF Begin, RequestFails, Load, LoadFails, Finish, FailOver, files, At
        <5> QED  BY <1>0, <2>1, <2>2, <5>1 DEF TmpAttended
      <4> QED  BY <1>2, <4>1, <4>2, <4>3 DEF Work
    <3>2. ProgressAttended(t)'
      <4>0. progress \in [Target -> {"none", "downloading", "loading", "completed", "failed"}]
        BY DEF TypeOK
      <4>1. CASE Begin(j)
        <5>1. CASE progress' = progress
          <6>1. ~Active(j)  BY <4>1 DEF Begin, At, Active
          <6> QED  BY <1>0, <2>1, <5>1, <6>1 DEF ProgressAttended
        <5>2. CASE progress' # progress
          <6>1. job' = [job EXCEPT ![j].at = "request", ![j].urls = buildURLList(cfg[t]), ![j].i = 1]
            BY <2>4, <4>1, <5>2 DEF Begin
          <6>2. job'[j].at = "request" /\ job'[j].todo = job[j].todo  BY <6>1 DEF TypeOK
          <6> QED  BY <2>4, <6>2 DEF ProgressAttended, Active, On
        <5> QED  BY <5>1, <5>2
      <4>2. CASE Finish(j)
        <5>1. progress'[t] = "completed"  BY <2>4, <4>0, <4>2 DEF Finish, SetProgress
        <5> QED  BY <5>1 DEF ProgressAttended
      <4>3. CASE FailOver(j)
        <5>1. CASE job[j].i < Len(job[j].urls)
          <6>1. job' = [job EXCEPT ![j].at = "request", ![j].i = @ + 1]  BY <4>3, <5>1 DEF FailOver
          <6>2. job'[j].at = "request" /\ job'[j].todo = job[j].todo  BY <6>1 DEF TypeOK
          <6> QED  BY <2>4, <6>2 DEF ProgressAttended, Active, On
        <5>2. CASE ~(job[j].i < Len(job[j].urls))
          <6>1. progress'[t] = "failed"  BY <2>4, <4>0, <4>3, <5>2 DEF FailOver, SetProgress
          <6> QED  BY <6>1 DEF ProgressAttended
        <5> QED  BY <5>1, <5>2
      <4>4. CASE ~(Begin(j) \/ Finish(j) \/ FailOver(j))
        <5>1. Active(j)' /\ On(j)' = t
          BY <1>2, <2>4, <4>4, Own DEF Work, Keeps, On, Active
        <5> QED  BY <5>1 DEF ProgressAttended
      <4> QED  BY <4>1, <4>2, <4>3, <4>4
    <3> QED  BY <3>1, <3>2
  <2> QED  BY <2>3, <2>4
<1> QED  BY <1>1, <1>2

\* AddHistory puts the entry at the end; what was the newest entry of another target still is,
\* unless it has been dropped.
LEMMA AddHistoryLast ==
  ASSUME TypeOK, NEW e \in Record, AddHistory(e), NEW n, NEW t, IsLast(history', n, t)
  PROVE  \/ t = e.target /\ history'[n] = e
         \/ t # e.target /\ \E m : IsLast(history, m, t) /\ history[m] = history'[n]
<1> DEFINE h == Append(history, e)
           len == Len(history)
           d == IF len + 1 > maxHistoryEntries THEN len + 1 - maxHistoryEntries ELSE 0
<1>1. history \in Seq(Record) /\ len \in Nat  BY DEF TypeOK, Record
<1>2. maxHistoryEntries \in Nat \ {0}  BY GeoUpdateConstants
<1>3. h \in Seq(Record) /\ Len(h) = len + 1 /\ h[len + 1] = e /\ \A i \in 1..len : h[i] = history[i]
  BY <1>1, AppendProperties
<1>4. d \in 0..len  BY <1>1, <1>2
<1>5. Len(history') = len + 1 - d /\ \A i \in 1..(len + 1 - d) : history'[i] = h[i + d]
  <2>1. CASE len + 1 > maxHistoryEntries
    <3>0. history' = IF Len(h) > maxHistoryEntries
                     THEN SubSeq(h, Len(h) - maxHistoryEntries + 1, Len(h)) ELSE h
      BY DEF AddHistory
    <3> HIDE DEF h, len
    <3>a. Len(h) = len + 1  BY <1>3
    <3>b. Len(h) > maxHistoryEntries  BY <2>1, <3>a
    <3>c. history' = SubSeq(h, Len(h) - maxHistoryEntries + 1, Len(h))  BY <3>0, <3>b, Zenon
    <3>1. \A i \in (Len(h) - maxHistoryEntries + 1)..Len(h) : h[i] \in Record
      BY <1>1, <1>2, <1>3, <3>b
    <3>2. /\ Len(history') = maxHistoryEntries
          /\ \A i \in 1..maxHistoryEntries : history'[i] = h[(Len(h) - maxHistoryEntries + 1) + i - 1]
      BY <1>1, <1>2, <3>a, <3>b, <3>c, <3>1, SubSeqProperties
    <3>3. d = Len(h) - maxHistoryEntries  BY <1>1, <1>2, <2>1, <3>a
    <3> HIDE DEF d
    <3> QED  BY <1>1, <1>2, <1>4, <3>a, <3>2, <3>3
  <2>2. CASE ~(len + 1 > maxHistoryEntries)
    <3>1. history' = h  BY <1>3, <2>2 DEF AddHistory
    <3> HIDE DEF h
    <3> QED  BY <1>1, <1>3, <2>2, <3>1
  <2> QED  BY <2>1, <2>2
<1> HIDE DEF h, d
<1>6. n \in 1..(len + 1 - d) /\ history'[n] = h[n + d] /\ n + d \in 1..(len + 1) /\ h[n + d].target = t
  BY <1>1, <1>4, <1>5 DEF IsLast
<1>7. \A i \in 1..(len + 1) : i > n + d => h[i].target # t
  <2> SUFFICES ASSUME NEW i \in 1..(len + 1), i > n + d PROVE h[i].target # t  OBVIOUS
  <2>1. i - d \in 1..(len + 1 - d) /\ i - d > n /\ (i - d) + d = i  BY <1>1, <1>4, <1>6
  <2> QED  BY <1>5, <2>1 DEF IsLast
<1>8. CASE n + d = len + 1  BY <1>3, <1>6, <1>8
<1>9. CASE n + d \in 1..len
  <2>1. t # e.target  BY <1>1, <1>3, <1>7, <1>9
  <2>2. history[n + d] = history'[n]  BY <1>3, <1>6, <1>9
  <2>3. IsLast(history, n + d, t)
    <3>1. history[n + d].target = t  BY <1>6, <2>2
    <3>2. \A i \in 1..len : i > n + d => history[i].target # t  BY <1>1, <1>3, <1>7
    <3> QED  BY <1>9, <3>1, <3>2 DEF IsLast
  <2> QED  BY <2>1, <2>2, <2>3
<1> QED  BY <1>1, <1>4, <1>6, <1>8, <1>9

LEMMA EntryIsTrueStep == TypeOK /\ Apart /\ AllInPlace /\ EntryIsTrue /\ [Next]_vars => EntryIsTrue'
<1> SUFFICES ASSUME TypeOK, Apart, AllInPlace, EntryIsTrue, [Next]_vars,
                    NEW t \in Target \ overlapped', NEW n \in 1..Len(history'),
                    IsLast(history', n, t), history'[n].status = "success",
                    \A k \in Jobs : job'[k].at = "finish" => On(k)' # t
             PROVE  Filled(loaded'[t], Chunks, history'[n].by)
  BY DEF EntryIsTrue, At
<1>1. CASE \A j \in Jobs : ~Work(j)
  <2>1. CASE /\ \A k \in Jobs : Active(k) \/ Active(k)' => job'[k] = job[k]
             /\ UNCHANGED <<tmp, dest, loaded, progress, history, crashes, overlapped, unread>>
    <3>1. \A k \in Jobs : At(k, "finish") => On(k) # t  BY <2>1 DEF Active, On, At
    <3> QED  BY <2>1, <3>1 DEF EntryIsTrue
  <2>2. CASE Restart
    <3>1. history' = <<>>  BY <2>2 DEF Restart
    <3> QED  BY <3>1
  <2> QED  BY <1>1, <2>1, <2>2, Elsewhere
<1>2. ASSUME NEW j \in Jobs, Work(j) PROVE Filled(loaded'[t], Chunks, history'[n].by)
  <2>1. t \notin overlapped /\ On(j) \in Target /\ job[j].at \notin {"idle", "done"}  BY <1>2, Frame
  <2>2. \A k \in Jobs : k # j => job'[k].at = job[k].at /\ On(k)' = On(k)  BY <1>2, Frame DEF On
  <2>3. <<j, Url(j)>> \in Origin /\ <<j, 0>> \in Origin  BY <2>1, AtWork DEF Origin
  <2>4. CASE Load(j) /\ On(j) = t  BY <2>4, Own DEF Keeps, On
  <2>5. CASE ~(Load(j) /\ On(j) = t)
    <3>1. loaded'[t] = loaded[t]  BY <1>2, <2>5, Changes
    <3>2. CASE history' = history /\ ~At(j, "finish")
      <4>1. \A k \in Jobs : At(k, "finish") => On(k) # t  BY <2>2, <3>2 DEF At
      <4> QED  BY <2>1, <3>1, <3>2, <4>1 DEF EntryIsTrue
    <3>3. ASSUME NEW e \in Record, AddHistory(e), e.target = On(j),
                 \/ e.status = "failed" /\ ~At(j, "finish")
                 \/ At(j, "finish") /\ e.by = Chunk(j)
          PROVE  Filled(loaded'[t], Chunks, history'[n].by)
      <4>1. CASE t = On(j)
        <5>1. history'[n] = e  BY <3>3, <4>1, AddHistoryLast
        <5>2. At(j, "finish") /\ e.by = Chunk(j)  BY <3>3, <5>1
        <5>3. InPlace(j)  BY <2>1, <4>1, <5>2 DEF AllInPlace, Active, At
        <5> QED  BY <3>1, <4>1, <5>1, <5>2, <5>3 DEF InPlace
      <4>2. CASE t # On(j)
        <5>1. PICK m : IsLast(history, m, t) /\ history[m] = history'[n]  BY <3>3, <4>2, AddHistoryLast
        <5>2. \A k \in Jobs : At(k, "finish") => On(k) # t  BY <2>2, <4>2 DEF At
        <5>3. m \in 1..Len(history)  BY <5>1 DEF IsLast
        <5> QED  BY <2>1, <3>1, <5>1, <5>2, <5>3 DEF EntryIsTrue
      <4> QED  BY <4>1, <4>2
    <3>4. CASE Finish(j)
      <4> DEFINE e == [target |-> On(j), status |-> "success", by |-> <<j, Url(j)>>]
      <4>1. e \in Record /\ AddHistory(e)  BY <2>1, <2>3, <3>4 DEF Finish, Record
      <4> QED  BY <3>3, <3>4, <4>1 DEF Finish, Chunk
    <3>5. CASE FailOver(j)
      <4> DEFINE e == [target |-> On(j), status |-> "failed", by |-> <<j, Url(j)>>]
      <4>1. e \in Record /\ AddHistory(e)  BY <2>1, <2>3, <3>5 DEF FailOver, Record
      <4> QED  BY <3>3, <3>5, <4>1 DEF FailOver, At
    <3>6. CASE Begin(j) /\ history' # history
      <4> DEFINE e == [target |-> On(j), status |-> "failed", by |-> <<j, 0>>]
      <4>1. e \in Record /\ AddHistory(e)  BY <2>1, <2>3, <3>6 DEF Begin, Record
      <4> QED  BY <3>3, <3>6, <4>1 DEF Begin, At
    <3>7. Finish(j) \/ FailOver(j) \/ Begin(j) \/ (history' = history /\ ~At(j, "finish"))
      BY <1>2 DEF Work, At, RequestFails, Create, EndOfBody, Copy, BreakOff, Rename,
         RenameFails, Load, LoadFails
    <3> QED  BY <3>2, <3>4, <3>5, <3>6, <3>7 DEF Begin, At
  <2> QED  BY <2>4, <2>5
<1> QED  BY <1>1, <1>2

\* The newest entry that SelectLastInSeq finds is the newest one.
LEMMA LastEntryIsLast ==
  ASSUME TypeOK, NEW t, LastEntry(t) # 0
  PROVE  IsLast(history, LastEntry(t), t)
<1> DEFINE I == {i \in 1..Len(history) : history[i].target = t}
           D == {Len(history) - i : i \in I}
<1>1. Len(history) \in Nat  BY DEF TypeOK
<1>2. LastEntry(t) = IF I # {} THEN Max(I) ELSE 0  BY DEF LastEntry, SelectLastInSeq
<1>3. I # {}  BY <1>2
<1>4. D \subseteq Nat /\ D # {}  BY <1>1, <1>3
<1>5. PICK d \in D : \A e \in D : ~(<<e, d>> \in OpToRel(<, Nat))
  BY <1>4, WFMin, NatLessThanWellFounded
<1>6. PICK x \in I : d = Len(history) - x  BY <1>5
<1>7. \A y \in I : x >= y
  <2> SUFFICES ASSUME NEW y \in I, y > x PROVE FALSE  BY <1>1
  <2>1. Len(history) - y \in D /\ Len(history) - y < d /\ Len(history) - y \in Nat /\ d \in Nat
    BY <1>1, <1>4, <1>6
  <2> QED  BY <1>5, <2>1 DEF OpToRel
<1>8. Max(I) \in I /\ \A y \in I : Max(I) >= y  BY <1>7 DEF Max
<1> HIDE DEF I
<1>9. LastEntry(t) \in I /\ \A y \in I : LastEntry(t) >= y  BY <1>2, <1>3, <1>8
<1> QED  BY <1>1, <1>9 DEF I, IsLast

LEMMA GeoInvInit == Init => IInv
<1> SUFFICES ASSUME Init PROVE IInv  OBVIOUS
<1>1. TypeOK  BY GeoTypeInit
<1>2. \A j \in Jobs : ~Active(j)  BY DEF Init, Active, Resting
<1>3. Apart /\ AllInPlace  BY <1>2 DEF Apart, AllInPlace
<1>4. WholeFiles /\ RestartAgrees /\ Attended  BY DEF Init, WholeFiles, RestartAgrees, Attended, Missing
<1>5. history = <<>>  BY DEF Init
<1>6. EntryIsTrue  BY <1>5 DEF EntryIsTrue
<1> QED  BY <1>1, <1>3, <1>4, <1>6 DEF IInv

LEMMA GeoInvStep == IInv /\ [Next]_vars => IInv'
<1> SUFFICES ASSUME IInv, [Next]_vars PROVE IInv'  OBVIOUS
<1>1. TypeOK'  BY GeoTypeStep DEF IInv
<1>2. Apart'  BY ApartStep DEF IInv
<1>3. AllInPlace'  BY AllInPlaceStep DEF IInv
<1>4. WholeFiles'  BY WholeFilesStep DEF IInv
<1>5. RestartAgrees'  BY RestartAgreesStep DEF IInv
<1>6. Attended'  BY AttendedStep DEF IInv
<1>7. EntryIsTrue'  BY EntryIsTrueStep DEF IInv
<1> QED  BY <1>1, <1>2, <1>3, <1>4, <1>5, <1>6, <1>7 DEF IInv

LEMMA GeoInvariant == Spec => []IInv
BY GeoInvInit, GeoInvStep, PTL DEF Spec

\* The type invariant.
THEOREM GeoTypeOK == Spec => []TypeOK
<1>1. IInv => TypeOK  BY DEF IInv
<1> QED  BY <1>1, GeoInvariant, PTL

\* A body that is n chunks of one download is a whole one.
LEMMA FilledIsWhole ==
  ASSUME NEW body \in Body, NEW c, Filled(body, Chunks, c)
  PROVE  body = [k \in 1..Chunks |-> c] /\ Whole(body)
<1>1. Chunks \in Nat \ {0}  BY GeoUpdateConstants
<1>2. body = [k \in 1..Chunks |-> c]  BY <1>1 DEF Filled, Body
<1>3. c \in ToSet(body)
  <2>1. 1 \in DOMAIN body /\ body[1] = c  BY <1>1, <1>2
  <2> QED  BY <2>1 DEF ToSet
<1> QED  BY <1>2, <1>3 DEF Whole

\* updater.go:304-368: the file of a target and the data in force are one whole download each.
THEOREM GeoWholeDownload == Spec => []WholeDownload
<1>1. IInv => WholeDownload
  <2> SUFFICES ASSUME IInv, NEW t \in Target \ overlapped
               PROVE  IF dest[t].there
                      THEN Whole(dest[t].body) /\ (loaded[t] = <<>> \/ Whole(loaded[t]))
                      ELSE loaded[t] = <<>>
    BY DEF WholeDownload
  <2>1. dest[t].body \in Body /\ loaded[t] \in Body  BY DEF IInv, TypeOK
  <2>2. /\ dest[t].there => \E c \in Origin : Filled(dest[t].body, Chunks, c)
        /\ loaded[t] # <<>> => dest[t].there /\ \E c \in Origin : Filled(loaded[t], Chunks, c)
    BY DEF IInv, WholeFiles
  <2> QED  BY <2>1, <2>2, FilledIsWhole
<1> QED  BY <1>1, GeoInvariant, PTL

\* updater.go:223, geodata.go:355: a restart finds on disk what is in force.
THEOREM GeoRestartAgrees == Spec => []RestartAgrees
<1>1. IInv => RestartAgrees  BY DEF IInv
<1> QED  BY <1>1, GeoInvariant, PTL

\* updater.go:241: the newest entry of the history, if it reports a success, names the source
\* of the data in force.
THEOREM GeoHonestHistory == Spec => []HonestHistory
<1>1. IInv => HonestHistory
  <2> SUFFICES ASSUME IInv, NEW t \in Target \ overlapped,
                      LastEntry(t) # 0, history[LastEntry(t)].status = "success",
                      \A j \in Jobs : ~Updating(j, t)
               PROVE  loaded[t] = [k \in 1..Chunks |-> history[LastEntry(t)].by]
    BY DEF HonestHistory
  <2>1. IsLast(history, LastEntry(t), t)  BY LastEntryIsLast DEF IInv
  <2>2. \A j \in Jobs : At(j, "finish") => On(j) # t  BY DEF At, Updating
  <2>3. Filled(loaded[t], Chunks, history[LastEntry(t)].by)
    BY <2>1, <2>2 DEF IInv, EntryIsTrue, IsLast
  <2>4. loaded[t] \in Body  BY DEF IInv, TypeOK
  <2> QED  BY <2>3, <2>4, FilledIsWhole
<1> QED  BY <1>1, GeoInvariant, PTL

\* updater.go:250, 264, 320, 361, 369: once no update of a target is under way, none is shown,
\* and no .tmp file is left but by a crash.
THEOREM GeoCleanEnd == Spec => []CleanEnd
<1>1. IInv => CleanEnd
  <2> SUFFICES ASSUME IInv, NEW t \in Target, \A j \in Jobs : ~Updating(j, t)
               PROVE  /\ progress[t] \in {"none", "completed", "failed"}
                      /\ tmp[t].there => crashes > 0
    BY DEF CleanEnd
  <2>1. \A j \in Jobs : Active(j) \/ job[j].at \in {"reading", "rename"} => On(j) # t
    BY DEF Active, Updating
  <2>2. crashes \in Nat  BY GeoUpdateConstants DEF IInv, TypeOK
  <2> QED  BY <2>1, <2>2 DEF IInv, Attended
<1> QED  BY <1>1, GeoInvariant, PTL
=============================================================================
