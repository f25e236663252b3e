------------------------------- MODULE Logger --------------------------------
(***************************************************************************)
(* The logger: goroutines hand entries to a bounded queue, flushLoop       *)
(* writes each entry to the outputs and offers it to the subscribers of    *)
(* GET /stream/logs, and the log file is rotated under it.                 *)
(*                                                                         *)
(* flushLoop copies the slice headers l.outputs and l.subscribers under    *)
(* the lock and uses them without it.  SetOutputs and AddOutput never      *)
(* write to elements a copied header covers, so the outputs are a value;   *)
(* Unsubscribe shifts the elements of the shared array in place, so the    *)
(* subscribers are an array of which the header covers the first n.        *)
(*                                                                         *)
(* An entry is its number, in the order of the calls.  A call below the    *)
(* level returns at once and is not a step.  Every line has the same size, *)
(* and a file is the sequence of its lines.                                *)
(***************************************************************************)
EXTENDS Integers, Sequences, SequencesExt, FiniteSets

CONSTANTS Streams,     \* the handlers of GET /stream/logs; each subscribes once
          Writers,     \* the rotating writers that are created, in this order: 1..n
          QueueCap,    \* capacity of l.ch
          StreamCap,   \* capacity of a subscriber's channel
          maxSize,     \* of the log file, in lines
          OpenFails,   \* whether the log file may be impossible to open
          RenameFails, \* whether it may be impossible to rename
          MaxEntries   \* bound: entries that are logged

ASSUME LoggerConstants ==
  /\ {QueueCap, StreamCap, maxSize} \subseteq Nat \ {0}
  /\ MaxEntries \in Nat /\ Writers \in Nat /\ {OpenFails, RenameFails} \subseteq BOOLEAN

VARIABLES count,       \* how many entries have been logged
          dropped,     \* l.dropped: the ones that found the queue full
          queue,       \* l.ch
          closing,     \* how far Close is: "no", "closed" (the queue), "done"
          outputs,     \* l.outputs
          array,       \* the array behind l.subscribers, up to its capacity
          len,         \* the length of l.subscribers
          stream,      \* every handler of GET /stream/logs and its channel
          flush,       \* flushLoop
          console,     \* the lines on the console
          path, backup, \* the log file and its backup
          writer,      \* the rotating writers
          kept,        \* the lines written to the log file so far
          split,       \* whether a writer has rotated the file away from another
          unmoved,     \* how often the file could not be renamed since it last was
          panic        \* why the process has died: "no", "flush", "log"

subscription == <<array, len, stream>>
logfile == <<path, backup, writer, kept, split, unmoved>>
vars == <<count, dropped, queue, closing, outputs, subscription, flush, console, logfile, panic>>

Missing == [there |-> FALSE, lines |-> <<>>]
File(lines) == [there |-> TRUE, lines |-> lines]
Stdout == 0

\* flushLoop between two entries.
Waiting == [at |-> "idle", item |-> 0, outs |-> <<>>, view |-> <<>>, shared |-> FALSE, k |-> 0,
            sub |-> "none", members |-> {}, offered |-> [s \in Streams |-> 0], disturbed |-> FALSE]

Init == /\ count = 0 /\ dropped = 0 /\ queue = <<>> /\ closing = "no"
        /\ outputs = <<Stdout>>
        /\ array = <<>> /\ len = 0
        /\ stream = [s \in Streams |-> [at |-> "new", buf |-> <<>>]]
        /\ flush = Waiting
        /\ console = <<>>
        /\ path = Missing /\ backup = Missing
        /\ writer = [w \in 1..Writers |-> [fd |-> "none", size |-> 0]]
        /\ kept = <<>> /\ split = FALSE /\ unmoved = 0
        /\ panic = "no"

Alive == panic = "no"
-----------------------------------------------------------------------------
\* Mutant: a full queue pushes the oldest entry out.
LogPushing ==
  /\ Alive /\ count < MaxEntries /\ count' = count + 1
  /\ queue' = Append(IF Len(queue) = QueueCap THEN Tail(queue) ELSE queue, count + 1)
  /\ UNCHANGED <<dropped, closing, outputs, subscription, flush, console, logfile, panic>>

\* log, logWithColor, logWithColorMulti: the entry goes into the queue or is
\* dropped; on the closed channel the send panics.
Log ==
  /\ Alive /\ count < MaxEntries /\ count' = count + 1
  /\ IF closing = "no"
     THEN /\ queue' = IF Len(queue) < QueueCap THEN Append(queue, count + 1) ELSE queue
          /\ dropped' = IF Len(queue) < QueueCap THEN dropped ELSE dropped + 1
          /\ UNCHANGED panic
     ELSE panic' = "log" /\ UNCHANGED <<queue, dropped>>
  /\ UNCHANGED <<closing, outputs, subscription, flush, console, logfile>>
-----------------------------------------------------------------------------
\* Go's append doubles the array when it is full.
Grown == IF len < Len(array) THEN array
         ELSE array \o [i \in 1..IF Len(array) = 0 THEN 1 ELSE Len(array) |-> "none"]

\* flushLoop keeps what it sees of the old array when a new one takes its place.
KeepView == IF flush.shared /\ len = Len(array)
            THEN [flush EXCEPT !.shared = FALSE, !.view = SubSeq(array, 1, Len(@))]
            ELSE flush

\* Mutant: the new channel goes to the front.
SubscribeFront(s) ==
  /\ Alive /\ stream[s].at = "new"
  /\ array' = <<s>> \o array
  /\ len' = len + 1
  /\ stream' = [stream EXCEPT ![s].at = "on"]
  /\ UNCHANGED <<count, dropped, queue, closing, outputs, flush, console, logfile, panic>>

\* Subscribe: append(l.subscribers, ch).
Subscribe(s) ==
  /\ Alive /\ stream[s].at = "new"
  /\ array' = [Grown EXCEPT ![len + 1] = s]
  /\ len' = len + 1
  /\ flush' = KeepView
  /\ stream' = [stream EXCEPT ![s].at = "on"]
  /\ UNCHANGED <<count, dropped, queue, closing, outputs, console, logfile, panic>>

\* append(a[:i], a[i+1:]...): the elements behind i move down, the last one stays
\* where it was as well.
Shifted(a, n, i) == [k \in 1..Len(a) |-> IF k >= i /\ k < n THEN a[k + 1] ELSE a[k]]

\* Mutant: the channel is closed and stays in the list.
UnsubscribeClosing(s) ==
  /\ Alive /\ stream[s].at = "on"
  /\ stream' = [stream EXCEPT ![s].at = "closed", ![s].buf = <<>>]
  /\ flush' = [flush EXCEPT !.disturbed = flush.at # "idle"]
  /\ UNCHANGED <<count, dropped, queue, closing, outputs, array, len, console, logfile, panic>>

\* Unsubscribe: out of the array, in place, and close(ch).
Unsubscribe(s) ==
  /\ Alive /\ stream[s].at = "on"
  /\ array' = Shifted(array, len, SelectInSeq(array, LAMBDA x : x = s))
  /\ len' = len - 1
  /\ stream' = [stream EXCEPT ![s].at = "closed", ![s].buf = <<>>]
  /\ flush' = [flush EXCEPT !.disturbed = flush.at # "idle"]
  /\ UNCHANGED <<count, dropped, queue, closing, outputs, console, logfile, panic>>

\* handleStreamLogs takes an entry and sends it to its client.
Receive(s) ==
  /\ Alive /\ stream[s].at = "on" /\ stream[s].buf # <<>>
  /\ stream' = [stream EXCEPT ![s].buf = Tail(@)]
  /\ UNCHANGED <<count, dropped, queue, closing, outputs, array, len, flush, console, logfile, panic>>
-----------------------------------------------------------------------------
\* flushLoop takes an entry and copies the two slice headers.
Take ==
  /\ Alive /\ flush.at = "idle" /\ queue # <<>>
  /\ queue' = Tail(queue)
  /\ flush' = [Waiting EXCEPT !.at = "writing", !.item = Head(queue), !.outs = outputs,
                              !.view = SubSeq(array, 1, len), !.shared = len > 0,
                              !.members = {s \in Streams : stream[s].at = "on"}]
  /\ UNCHANGED <<count, dropped, closing, outputs, subscription, console, logfile, panic>>

\* The output is written; after the last one the subscribers follow.
Wrote == flush' = [flush EXCEPT !.outs = Tail(@),
                                !.at = IF Len(flush.outs) = 1 THEN "offering" ELSE "writing"]

WriteConsole ==
  /\ Alive /\ flush.at = "writing" /\ Head(flush.outs) = Stdout
  /\ console' = Append(console, flush.item)
  /\ Wrote
  /\ UNCHANGED <<count, dropped, queue, closing, outputs, subscription, logfile, panic>>

\* The file behind the descriptor of a writer gets the line, after a rotation or not.
Put(w, fds, size, p, b) ==
  /\ path' = IF fds[w] = "path" THEN File(Append(p.lines, flush.item)) ELSE p
  /\ backup' = IF fds[w] = "backup" THEN File(Append(b.lines, flush.item)) ELSE b
  /\ writer' = [v \in 1..Writers |->
                  [fd |-> fds[v], size |-> IF v = w /\ fds[w] # "closed" THEN size + 1
                                           ELSE writer[v].size]]
  /\ kept' = IF fds[w] = "closed" THEN kept ELSE Append(kept, flush.item)

\* The line does not fit into the file any more.
Full(w) == writer[w].size + 1 > maxSize

\* os.Rename(path, path.1), if it works: the old backup is gone, whoever has the
\* file open writes to the backup from now on.
Moved(moves) == [v \in 1..Writers |->
                   CASE moves /\ path.there /\ writer[v].fd = "path" -> "backup"
                     [] moves /\ path.there /\ writer[v].fd = "backup" -> "gone"
                     [] OTHER -> writer[v].fd]

\* Mutant: the file is cut instead of moved away.
RotateCutting(w, moves, opens) ==
  LET fds == [Moved(moves) EXCEPT ![w] = IF opens THEN "path" ELSE "closed"]
  IN /\ Put(w, fds, IF opens THEN 0 ELSE writer[w].size, IF opens THEN File(<<>>) ELSE Missing, backup)
     /\ split' = (split \/ \E v \in 1..Writers \ {w} : writer[v].fd = "path")
     /\ unmoved' = 0

\* rotate: close, rename, open again.  The error of the rename is ignored: the
\* file is opened again as it is, with its size.  A file that cannot be opened
\* leaves the writer with the closed one and the old size.
Rotate(w, moves, opens) ==
  LET fds == [Moved(moves) EXCEPT ![w] = IF opens THEN "path" ELSE "closed"]
      left == IF moves THEN Missing ELSE path
  IN /\ Put(w, fds, IF opens THEN Len(left.lines) ELSE writer[w].size,
            IF opens THEN File(left.lines) ELSE left, IF moves /\ path.there THEN path ELSE backup)
     /\ split' = (split \/ (moves /\ \E v \in 1..Writers \ {w} : writer[v].fd = "path"))
     /\ unmoved' = IF moves THEN 0 ELSE unmoved + 1

\* RotatingFileWriter.Write: the line always goes to the file it has, if it is open.
WriteFile(w) ==
  /\ Alive /\ flush.at = "writing" /\ Head(flush.outs) = w
  /\ IF Full(w) THEN \E moves \in {TRUE, ~RenameFails}, opens \in {TRUE, ~OpenFails} : Rotate(w, moves, opens)
     ELSE /\ Put(w, [v \in 1..Writers |-> writer[v].fd], writer[w].size, path, backup)
          /\ UNCHANGED <<split, unmoved>>
  /\ Wrote
  /\ UNCHANGED <<count, dropped, queue, closing, outputs, subscription, console, panic>>

\* The next element of the slice: of the array as it is now.
Element == IF flush.shared THEN array[flush.k + 1] ELSE flush.view[flush.k + 1]

\* The range loop reads an element, ...
Pick ==
  /\ Alive /\ flush.at = "offering" /\ flush.k < Len(flush.view)
  /\ flush' = [flush EXCEPT !.at = "sending", !.sub = Element, !.k = @ + 1]
  /\ UNCHANGED <<count, dropped, queue, closing, outputs, subscription, console, logfile, panic>>

\* Mutant: a send without the default case waits for a slow stream.
OfferBlocking(s) ==
  /\ Alive /\ flush.at = "sending" /\ flush.sub = s
  /\ stream[s].at = "closed" \/ Len(stream[s].buf) < StreamCap
  /\ flush' = [flush EXCEPT !.at = "offering", !.sub = "none", !.offered[s] = @ + 1]
  /\ IF stream[s].at = "closed" THEN panic' = "flush" /\ UNCHANGED stream
     ELSE stream' = [stream EXCEPT ![s].buf = Append(@, flush.item)] /\ UNCHANGED panic
  /\ UNCHANGED <<count, dropped, queue, closing, outputs, array, len, console, logfile>>

\* ... and the select offers it the entry: a full channel drops it, a closed one panics.
Offer(s) ==
  /\ Alive /\ flush.at = "sending" /\ flush.sub = s
  /\ flush' = [flush EXCEPT !.at = "offering", !.sub = "none", !.offered[s] = @ + 1]
  /\ IF stream[s].at = "closed" THEN panic' = "flush" /\ UNCHANGED stream
     ELSE /\ stream' = [stream EXCEPT ![s].buf = IF Len(@) < StreamCap THEN Append(@, flush.item)
                                                 ELSE @]
          /\ UNCHANGED panic
  /\ UNCHANGED <<count, dropped, queue, closing, outputs, array, len, console, logfile>>

EndItem ==
  /\ Alive /\ flush.at = "offering" /\ flush.k = Len(flush.view)
  /\ flush' = Waiting
  /\ UNCHANGED <<count, dropped, queue, closing, outputs, subscription, console, logfile, panic>>

FlushLoop == \/ Take \/ WriteConsole \/ \E w \in 1..Writers : WriteFile(w)
             \/ Pick \/ (\E s \in Streams : Offer(s)) \/ EndItem
-----------------------------------------------------------------------------
\* NewRotatingWriter opens the file to append to it.
Opened(w) == /\ path' = IF path.there THEN path ELSE File(<<>>)
             /\ writer' = [writer EXCEPT ![w] = [fd |-> "path", size |-> Len(path.lines)]]
             /\ UNCHANGED <<backup, kept, split, unmoved>>

\* main opens the log file, if it can; a restart by POST /restart opens it again
\* and drops the earlier writer without closing it.
Reopen(w, opens) ==
  /\ Alive /\ closing = "no" /\ writer[w].fd = "none" /\ (w > 1 => writer[w - 1].fd # "none")
  /\ IF opens THEN outputs' = <<Stdout, w>> /\ Opened(w)
     ELSE /\ outputs' = <<Stdout>>
          /\ writer' = [writer EXCEPT ![w].fd = "closed"]
          /\ UNCHANGED <<path, backup, kept, split, unmoved>>
  /\ UNCHANGED <<count, dropped, queue, closing, subscription, flush, console, panic>>

\* Close: the channel is closed, ...
CloseQueue ==
  /\ Alive /\ closing = "no"
  /\ closing' = "closed"
  /\ UNCHANGED <<count, dropped, queue, outputs, subscription, flush, console, logfile, panic>>

\* ... flushLoop has emptied it and ended, and the outputs are closed.
CloseOutputs ==
  /\ Alive /\ closing = "closed" /\ queue = <<>> /\ flush.at = "idle"
  /\ closing' = "done"
  /\ writer' = [w \in 1..Writers |-> IF w \in ToSet(outputs) THEN [writer[w] EXCEPT !.fd = "closed"]
                                     ELSE writer[w]]
  /\ outputs' = <<Stdout>>
  /\ UNCHANGED <<count, dropped, queue, subscription, flush, console, path, backup, kept, split, unmoved, panic>>

Next == \/ Log \/ FlushLoop
        \/ \E s \in Streams : Subscribe(s) \/ Unsubscribe(s) \/ Receive(s)
        \/ \E w \in 1..Writers, opens \in {TRUE, ~OpenFails} : Reopen(w, opens)
        \/ CloseQueue \/ CloseOutputs

Spec == Init /\ [][Next]_vars

\* flushLoop never waits for anyone but the queue, and Close waits for it.
FairSpec == Spec /\ WF_vars(FlushLoop) /\ WF_vars(CloseOutputs)
-----------------------------------------------------------------------------
Flush == [at : {"idle", "writing", "offering", "sending"}, item : Nat, outs : Seq(0..Writers),
          view : Seq(Streams \cup {"none"}), shared : BOOLEAN, k : Nat, sub : Streams \cup {"none"},
          members : SUBSET Streams, offered : [Streams -> Nat], disturbed : BOOLEAN]

TypeOK ==
  /\ count \in 0..MaxEntries /\ dropped \in Nat
  /\ queue \in Seq(Nat) /\ console \in Seq(Nat) /\ kept \in Seq(Nat)
  /\ closing \in {"no", "closed", "done"} /\ panic \in {"no", "flush", "log"} /\ split \in BOOLEAN /\ unmoved \in Nat
  /\ outputs \in Seq(0..Writers)
  /\ array \in Seq(Streams \cup {"none"}) /\ len \in 0..Len(array)
  /\ stream \in [Streams -> [at : {"new", "on", "closed"}, buf : Seq(Nat)]]
  /\ flush \in Flush
  /\ {path, backup} \subseteq [there : BOOLEAN, lines : Seq(Nat)]
  /\ (~path.there => path = Missing) /\ (~backup.there => backup = Missing)
  /\ writer \in [1..Writers -> [fd : {"none", "path", "backup", "gone", "closed"}, size : Nat]]

\* log.go:186, 235: no entry that was accepted is lost or overtaken on its way to the console: the
\* ones that are not there are queued, in flushLoop's hands, or were counted as dropped; when Close
\* has returned all of them are there.
Accounted ==
  LET pending == IF flush.at = "writing" /\ Head(flush.outs) = Stdout THEN <<flush.item>> ELSE <<>>
      all == console \o pending \o queue
  IN  panic # "log" => /\ Len(all) + dropped = count
                       /\ \A i \in 1..Len(all) - 1 : all[i] < all[i + 1]
                       /\ closing = "done" => all = console

\* log.go:189, 200: while nobody unsubscribes, an entry is offered exactly once to everyone who was
\* subscribed when flushLoop looked, also when the array moves under it.
OfferedOnce ==
  flush.at = "offering" /\ flush.k = Len(flush.view) /\ ~flush.disturbed /\ Alive
    => \A s \in Streams : flush.offered[s] = IF s \in flush.members THEN 1 ELSE 0

\* log.go:265: flushLoop meets a closed channel only if its owner unsubscribed while the
\* entry was being delivered.
PanicNeedsRace == panic = "flush" => flush.disturbed

\* log.go:131, 142-148: the log file keeps to its size, but for one line from the writer a restart
\* has left and one for every time it could not be renamed since it last was; and unless one
\* writer rotates the file while a restart has opened it a second time, the backup and the log
\* file together are the newest lines written, none missing in between and at least a file full
\* of them, also when the file could be neither renamed nor opened for a while.
KeepsNewest ==
  LET lines == backup.lines \o path.lines
  IN /\ Len(path.lines) <= maxSize + unmoved + IF Writers > 1 THEN 1 ELSE 0
     /\ ~split => IsSuffix(lines, kept) /\ (Len(lines) >= maxSize \/ lines = kept)

\* log.go:185, 236: Close returns, however slow the subscribers are, unless the process dies.
CloseReturns == closing = "closed" ~> closing = "done" \/ ~Alive
=============================================================================
