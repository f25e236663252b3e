------------------------------ MODULE GeoUpdate ------------------------------
(***************************************************************************)
(* The Geo updater: updates of the GeoSite, GeoIP and ad filter files by   *)
(* POST /geo/update and by the scheduler, each in a goroutine of its own   *)
(* that nothing keeps apart, their failover from source to source, the     *)
(* .tmp file they write and rename, and the process dying in between.      *)
(*                                                                         *)
(* A file is a body of chunks.  A chunk is named after the job and the     *)
(* source it came from, so that a mixture can be told from a download; the *)
(* loaders take any bytes, so the data in force is the body they read.     *)
(*                                                                         *)
(* An open file is the inode, not the path: when the file is renamed or    *)
(* removed, whoever has it open goes on writing to where it is now.        *)
(***************************************************************************)
EXTENDS Integers, Sequences, SequencesExt, FiniteSets

CONSTANTS Jobs,        \* the goroutines; each runs one update
          Targets,     \* the targets, in the order of UpdateAll
          Settings,    \* the source settings that are configured, by target
          Chunks,      \* how many reads a whole body takes
          maxHistoryEntries,
          MaxCrashes   \* bound: how often the process dies

\* A setting is a primary URL and backup URLs; 0 is the empty string.
Setting == [primary : Nat, backups : Seq(Nat)]

ASSUME GeoUpdateConstants ==
  /\ Targets \in Seq(ToSet(Targets)) /\ Targets # <<>> /\ IsInjective(Targets)
  /\ \A s \in Settings : DOMAIN s = ToSet(Targets)
                         /\ \A t \in ToSet(Targets) : s[t].primary \in Nat
  /\ Chunks \in Nat \ {0} /\ maxHistoryEntries \in Nat \ {0} /\ MaxCrashes \in Nat

VARIABLES cfg,         \* u.cfg
          job,         \* every goroutine
          tmp, dest,   \* the files, by target
          loaded,      \* the data in force
          progress, history,
          crashes,
          overlapped,  \* the targets that two jobs have updated at the same time
          unread       \* the targets whose file has been replaced but could not be loaded

files == <<tmp, dest>>
vars == <<cfg, job, files, loaded, progress, history, crashes, overlapped, unread>>

Target == ToSet(Targets)
Missing == [there |-> FALSE, body |-> <<>>]
File(body) == [there |-> TRUE, body |-> body]
Hole == <<>>

\* buildURLList: the primary and the backups that are not empty and differ from it.
buildURLList(s) == <<s.primary>> \o SelectSeq(s.backups, LAMBDA b : b # 0 /\ b # s.primary)

\* UpdateTarget: one target, all of them in order, or an unknown one.
UpdateTarget(name) ==
  IF name = "all" THEN Targets ELSE IF name \in Target THEN <<name>> ELSE <<>>

Resting == [at |-> "idle", todo |-> <<>>, urls |-> <<>>, i |-> 0, off |-> 0, fd |-> "none"]

Init == /\ cfg \in Settings
        /\ job = [j \in Jobs |-> Resting]
        /\ tmp = [t \in Target |-> Missing] /\ dest = [t \in Target |-> Missing]
        /\ loaded = [t \in Target |-> <<>>]
        /\ progress = [t \in Target |-> "none"]
        /\ history = <<>>
        /\ crashes = 0 /\ overlapped = {} /\ unread = {}
-----------------------------------------------------------------------------
At(j, place) == job[j].at = place
On(j) == Head(job[j].todo)
Updating(j, t) == job[j].at \notin {"idle", "done"} /\ On(j) = t
Url(j) == job[j].urls[job[j].i]
Go(j, place) == job' = [job EXCEPT ![j].at = place]

\* AddHistory keeps the newest entries.
AddHistory(entry) ==
  LET h == Append(history, entry)
  IN  history' = IF Len(h) > maxHistoryEntries
                 THEN SubSeq(h, Len(h) - maxHistoryEntries + 1, Len(h)) ELSE h
SetProgress(t, status) == progress' = [progress EXCEPT ![t] = status]

\* The job is through with its target: on to the next one, or the goroutine ends.
NextTarget(r) == IF Len(r.todo) = 1 THEN [Resting EXCEPT !.at = "done"]
                 ELSE [Resting EXCEPT !.at = "begin", !.todo = Tail(r.todo)]

\* handleGeoUpdate and the scheduler start a goroutine.
Start(j, name) ==
  /\ At(j, "idle")
  /\ job' = [job EXCEPT ![j].todo = UpdateTarget(name),
                        ![j].at = IF UpdateTarget(name) = <<>> THEN "done" ELSE "begin"]
  /\ UNCHANGED <<cfg, files, loaded, progress, history, crashes, overlapped, unread>>

\* updateWithFailover up to the first request.
Begin(j) ==
  LET t == On(j)
      urls == buildURLList(cfg[t])
  IN /\ At(j, "begin")
     /\ IF urls[1] = 0
        THEN /\ AddHistory([target |-> t, status |-> "failed", by |-> <<j, 0>>])
             /\ job' = [job EXCEPT ![j] = NextTarget(@)]
             /\ UNCHANGED progress
        ELSE /\ job' = [job EXCEPT ![j].at = "request", ![j].urls = urls, ![j].i = 1]
             /\ SetProgress(t, "downloading")
             /\ UNCHANGED history
     /\ overlapped' = IF \E k \in Jobs \ {j} : Updating(k, t) THEN overlapped \cup {t}
                      ELSE overlapped
     /\ UNCHANGED <<cfg, files, loaded, crashes, unread>>

SourceFailed(j) == job' = [job EXCEPT ![j].at = "failed", ![j].fd = "none"]

\* No directory, no answer, a status other than 200, or no .tmp file.
RequestFails(j) ==
  /\ At(j, "request")
  /\ SourceFailed(j)
  /\ UNCHANGED <<cfg, files, loaded, progress, history, crashes, overlapped, unread>>

\* Mutant: the body is written to the file itself.
CreateInPlace(j) ==
  /\ At(j, "request")
  /\ dest' = [dest EXCEPT ![On(j)] = File(<<>>)]
  /\ job' = [job EXCEPT ![j].at = "reading", ![j].off = 0, ![j].fd = "dest"]
  /\ UNCHANGED <<cfg, tmp, loaded, progress, history, crashes, overlapped, unread>>

\* os.Create: a new file, or the one that is there cut to nothing.
Create(j) ==
  /\ At(j, "request")
  /\ tmp' = [tmp EXCEPT ![On(j)] = File(<<>>)]
  /\ job' = [job EXCEPT ![j].at = "reading", ![j].off = 0, ![j].fd = "tmp"]
  /\ UNCHANGED <<cfg, dest, loaded, progress, history, crashes, overlapped, unread>>

\* A chunk written at an offset; what lies before it is a hole if the file is shorter.
Written(file, off, chunk) ==
  File([k \in 1..IF Len(file.body) > off THEN Len(file.body) ELSE off + 1 |->
          IF k = off + 1 THEN chunk
          ELSE IF k <= Len(file.body) THEN file.body[k] ELSE Hole])

\* One round of the copy loop; the progress is reported five times a second at most.
Copy(j, report) ==
  LET t == On(j)
      chunk == <<j, Url(j)>>
  IN /\ At(j, "reading") /\ job[j].off < Chunks
     /\ tmp' = IF job[j].fd = "tmp" THEN [tmp EXCEPT ![t] = Written(@, job[j].off, chunk)] ELSE tmp
     /\ dest' = IF job[j].fd = "dest" THEN [dest EXCEPT ![t] = Written(@, job[j].off, chunk)] ELSE dest
     /\ job' = [job EXCEPT ![j].off = @ + 1]
     /\ IF report THEN SetProgress(t, "downloading") ELSE UNCHANGED progress
     /\ UNCHANGED <<cfg, loaded, history, crashes, overlapped, unread>>

\* The end of the body: the file is closed.
EndOfBody(j) ==
  /\ At(j, "reading") /\ job[j].off = Chunks
  /\ SetProgress(On(j), "downloading")
  /\ job' = [job EXCEPT ![j].at = "rename", ![j].fd = "none"]
  /\ UNCHANGED <<cfg, files, loaded, history, crashes, overlapped, unread>>

\* os.Remove(tmpPath): whoever has the file open keeps writing to no path.
Unlinked(t) == [k \in Jobs |-> IF Updating(k, t) /\ job[k].fd = "tmp"
                               THEN [job[k] EXCEPT !.fd = "none"] ELSE job[k]]

\* Mutant: the .tmp file stays behind.
BreakOffLeaving(j, report) ==
  /\ At(j, "reading")
  /\ SourceFailed(j)
  /\ IF report THEN SetProgress(On(j), "downloading") ELSE UNCHANGED progress
  /\ UNCHANGED <<cfg, files, loaded, history, crashes, overlapped, unread>>

\* A read error, which is reported, or a write error, which is not.
BreakOff(j, report) ==
  /\ At(j, "reading")
  /\ tmp' = [tmp EXCEPT ![On(j)] = Missing]
  /\ job' = [Unlinked(On(j)) EXCEPT ![j].at = "failed", ![j].fd = "none"]
  /\ IF report THEN SetProgress(On(j), "downloading") ELSE UNCHANGED progress
  /\ UNCHANGED <<cfg, dest, loaded, history, crashes, overlapped, unread>>

\* os.Rename: the file under the path .tmp, whoever wrote it, takes the place of
\* the file in use; then loading is announced.
Rename(j) ==
  LET t == On(j)
      moved(k) == CASE job[k].fd = "tmp" -> "dest" [] OTHER -> "none"
  IN /\ At(j, "rename") /\ tmp[t].there
     /\ dest' = [dest EXCEPT ![t] = tmp[t]]
     /\ tmp' = [tmp EXCEPT ![t] = Missing]
     /\ job' = [[k \in Jobs |-> IF Updating(k, t) THEN [job[k] EXCEPT !.fd = moved(k)] ELSE job[k]]
                  EXCEPT ![j].at = "load"]
     /\ SetProgress(t, "loading")
     /\ UNCHANGED <<cfg, loaded, history, crashes, overlapped, unread>>

\* There is no .tmp any more, or it cannot be moved; it is removed.
RenameFails(j) ==
  /\ At(j, "rename")
  /\ tmp' = [tmp EXCEPT ![On(j)] = Missing]
  /\ job' = [Unlinked(On(j)) EXCEPT ![j].at = "failed"]
  /\ UNCHANGED <<cfg, dest, loaded, progress, history, crashes, overlapped, unread>>

\* LoadGeosite, LoadGeoip, LoadAdFilter: read the file and put it in force.
Load(j) ==
  /\ At(j, "load")
  /\ loaded' = [loaded EXCEPT ![On(j)] = dest[On(j)].body]
  /\ unread' = unread \ {On(j)}
  /\ Go(j, "finish")
  /\ UNCHANGED <<cfg, files, progress, history, crashes, overlapped>>

\* The file cannot be read: the data in force stays.
LoadFails(j) ==
  /\ At(j, "load")
  /\ unread' = unread \cup {On(j)}
  /\ SourceFailed(j)
  /\ UNCHANGED <<cfg, files, loaded, progress, history, crashes, overlapped>>

\* Mutant: the entry names the first source.
FinishFirst(j) ==
  /\ At(j, "finish")
  /\ AddHistory([target |-> On(j), status |-> "success",
                 by |-> <<j, job[j].urls[1]>>])
  /\ SetProgress(On(j), "completed")
  /\ job' = [job EXCEPT ![j] = NextTarget(@)]
  /\ UNCHANGED <<cfg, files, loaded, crashes, overlapped, unread>>

Finish(j) ==
  /\ At(j, "finish")
  /\ AddHistory([target |-> On(j), status |-> "success", by |-> <<j, Url(j)>>])
  /\ SetProgress(On(j), "completed")
  /\ job' = [job EXCEPT ![j] = NextTarget(@)]
  /\ UNCHANGED <<cfg, files, loaded, crashes, overlapped, unread>>

\* Mutant: the loop starts again with the first source.
FailOverForever(j) ==
  /\ At(j, "failed")
  /\ AddHistory([target |-> On(j), status |-> "failed", by |-> <<j, Url(j)>>])
  /\ job' = [job EXCEPT ![j].at = "request", ![j].i = 1]
  /\ SetProgress(On(j), "downloading")
  /\ UNCHANGED <<cfg, files, loaded, crashes, overlapped, unread>>

\* The source failed: the next one, or none is left.
FailOver(j) ==
  /\ At(j, "failed")
  /\ AddHistory([target |-> On(j), status |-> "failed", by |-> <<j, Url(j)>>])
  /\ IF job[j].i < Len(job[j].urls)
     THEN /\ job' = [job EXCEPT ![j].at = "request", ![j].i = @ + 1]
          /\ SetProgress(On(j), "downloading")
     ELSE /\ job' = [job EXCEPT ![j] = NextTarget(@)]
          /\ SetProgress(On(j), "failed")
  /\ UNCHANGED <<cfg, files, loaded, crashes, overlapped, unread>>

\* Reconfigure changes the sources; a target under way keeps the ones it has.
Reconfigure(s) ==
  /\ cfg' = s
  /\ UNCHANGED <<job, files, loaded, progress, history, crashes, overlapped, unread>>

\* Mutant: the next start does not look for files.
RestartEmpty ==
  /\ crashes < MaxCrashes /\ crashes' = crashes + 1
  /\ job' = [j \in Jobs |-> IF At(j, "idle") THEN Resting ELSE [Resting EXCEPT !.at = "done"]]
  /\ loaded' = [t \in Target |-> <<>>]
  /\ progress' = [t \in Target |-> "none"] /\ history' = <<>> /\ unread' = {}
  /\ UNCHANGED <<cfg, files, overlapped>>

\* The process dies and is started again: NewManager, and LoadAll puts the files
\* that are there in force.
Restart ==
  /\ crashes < MaxCrashes /\ crashes' = crashes + 1
  /\ job' = [j \in Jobs |-> IF At(j, "idle") THEN Resting ELSE [Resting EXCEPT !.at = "done"]]
  /\ loaded' = [t \in Target |-> IF dest[t].there THEN dest[t].body ELSE <<>>]
  /\ progress' = [t \in Target |-> "none"] /\ history' = <<>> /\ unread' = {}
  /\ UNCHANGED <<cfg, files, overlapped>>

Work(j) == \/ Begin(j) \/ RequestFails(j) \/ Create(j) \/ EndOfBody(j)
           \/ \E report \in BOOLEAN : Copy(j, report) \/ BreakOff(j, report)
           \/ Rename(j) \/ RenameFails(j) \/ Load(j) \/ LoadFails(j) \/ Finish(j) \/ FailOver(j)

Next == \/ \E j \in Jobs, name \in Target \cup {"all", "other"} : Start(j, name)
        \/ \E j \in Jobs : Work(j)
        \/ \E s \in Settings : Reconfigure(s)
        \/ Restart

Spec == Init /\ [][Next]_vars

\* A goroutine goes on: the HTTP client ends every request after ten minutes.
FairSpec == Spec /\ \A j \in Jobs : WF_vars(Work(j))
-----------------------------------------------------------------------------
Places == {"idle", "begin", "request", "reading", "rename", "load", "finish", "failed", "done"}

\* The lists of sources there are, and what a chunk or an entry of the history is named after.
URLLists == {buildURLList(s[t]) : s \in Settings, t \in Target} \cup {<<>>}
Origin == Jobs \X ({urls[i] : urls \in URLLists, i \in Nat} \cup {0})
Body == Seq(Origin \cup {Hole})

TypeOK ==
  /\ cfg \in Settings /\ crashes \in 0..MaxCrashes
  /\ overlapped \subseteq Target /\ unread \subseteq Target
  /\ job \in [Jobs -> [at : Places, todo : Seq(Target), urls : URLLists, i : Nat,
                      off : 0..Chunks, fd : {"none", "tmp", "dest"}]]
  /\ \A j \in Jobs : job[j].todo = <<>> <=> job[j].at \in {"idle", "done"}
  /\ tmp \in [Target -> [there : BOOLEAN, body : Body]]
  /\ dest \in [Target -> [there : BOOLEAN, body : Body]]
  /\ \A t \in Target : (~tmp[t].there => tmp[t] = Missing) /\ (~dest[t].there => dest[t] = Missing)
  /\ loaded \in [Target -> Body]
  /\ progress \in [Target -> {"none", "downloading", "loading", "completed", "failed"}]
  /\ history \in Seq([target : Target, status : {"success", "failed"}, by : Origin])

Whole(body) == \E c \in ToSet(body) : body = [k \in 1..Chunks |-> c]

\* updater.go:304-368: unless two updates of a target ran at the same time, its file and the
\* data in force are one whole download each, through failing sources and crashes at any
\* point, and nothing is in force without a file.
WholeDownload ==
  \A t \in Target \ overlapped :
    IF dest[t].there THEN Whole(dest[t].body) /\ (loaded[t] = <<>> \/ Whole(loaded[t]))
    ELSE loaded[t] = <<>>

\* updater.go:223, geodata.go:355: while no update is between the rename and the load, a restart
\* would find on disk what is in force; but for overlapping updates and a file that
\* could not be read.
RestartAgrees ==
  \A t \in Target \ (overlapped \cup unread) :
    (\A j \in Jobs : At(j, "load") => On(j) # t) => loaded[t] = dest[t].body

\* updater.go:241: the source that the newest entry of GET /geo/history reports as successful
\* is the one whose data is in force.
LastEntry(t) == SelectLastInSeq(history, LAMBDA e : e.target = t)
HonestHistory ==
  \A t \in Target \ overlapped :
    /\ LastEntry(t) # 0 /\ history[LastEntry(t)].status = "success"
    /\ \A j \in Jobs : ~Updating(j, t)
    => loaded[t] = [k \in 1..Chunks |-> history[LastEntry(t)].by]

\* updater.go:250, 264, 320, 361, 369: once no update of a target is under way, overlapping or not,
\* GET /geo/progress shows none, and no .tmp file is left but by a crash.
CleanEnd ==
  \A t \in Target : (\A j \in Jobs : ~Updating(j, t)) =>
    /\ progress[t] \in {"none", "completed", "failed"}
    /\ tmp[t].there => crashes > 0

\* updater.go:179: every update comes to its end, whatever its sources do.
EveryUpdateEnds == \A j \in Jobs : At(j, "begin") ~> At(j, "done")
=============================================================================
