----------------------------- MODULE LoggerProofs -----------------------------
(***************************************************************************)
(* What holds of the logger for every number of streams, entries and       *)
(* writers, and for every capacity of the queue, the channels and the file.*)
(***************************************************************************)
EXTENDS Logger, SequenceTheorems, WellFoundedInduction, TLAPS

\* What flushLoop still has to write, and whether it will write to writer w.
Lone(outs) == outs = <<Stdout>> \/ \E w \in 1..Writers : outs = <<Stdout, w>>
Shape == /\ Lone(outputs)
         /\ flush.at = "writing" => Lone(flush.outs) \/ \E w \in 1..Writers : flush.outs = <<w>>
WillWrite(w) == flush.at = "writing" /\ (flush.outs = <<Stdout, w>> \/ flush.outs = <<w>>)
InUse(w) == outputs = <<Stdout, w>>

\* The entries on their way, in order, none above the last number given.
Pending == IF flush.at = "writing" /\ Head(flush.outs) = Stdout THEN <<flush.item>> ELSE <<>>
All == console \o Pending \o queue
Numbered(q, n) == /\ \A i \in 1..Len(q) : q[i] \in 1..n
                  /\ \A i \in 1..Len(q) - 1 : q[i] < q[i + 1]
InOrder == /\ panic # "log" => Len(All) + dropped = count /\ Numbered(All, count)
           /\ closing = "done" => queue = <<>> /\ flush.at = "idle"

\* The first len elements of the array are the streams that are on, each once.
Listed ==
  /\ \A i \in 1..len : array[i] \in Streams /\ stream[array[i]].at = "on"
  /\ \A i, j \in 1..len : array[i] = array[j] => i = j
  /\ \A s \in Streams : stream[s].at = "on" => \E i \in 1..len : array[i] = s

\* What flushLoop has seen and will see of the subscribers.
Seen(i) == IF flush.shared THEN array[i] ELSE flush.view[i]
Visited == IF flush.at = "sending" THEN flush.k - 1 ELSE flush.k
InView == flush.k <= Len(flush.view) /\ (flush.shared => Len(flush.view) <= Len(array))
Steady == flush.at # "idle" /\ ~flush.disturbed =>
  /\ flush.shared => Len(flush.view) <= len
  /\ \A i \in 1..Len(flush.view) : Seen(i) \in flush.members
  /\ \A i, j \in 1..Len(flush.view) : Seen(i) = Seen(j) => i = j
  /\ \A s \in flush.members : stream[s].at = "on" /\ \E i \in 1..Len(flush.view) : Seen(i) = s
  /\ flush.at = "writing" => flush.k = 0
  /\ flush.at = "sending" => flush.k >= 1 /\ flush.sub = Seen(flush.k)
  /\ \A s \in Streams : flush.offered[s] = IF \E i \in 1..Visited : Seen(i) = s THEN 1 ELSE 0

\* The descriptors of the writers.  A file that nobody has open, after it could be neither renamed nor
\* opened, is full.
Opens == /\ \A w \in 1..Writers : WillWrite(w) \/ InUse(w) => writer[w].fd # "none"
         /\ \A w \in 1..Writers : writer[w].fd = "path" => path.there
         /\ ~split => /\ \A w \in 1..Writers : writer[w].fd \in {"none", "path", "closed"}
                      /\ path.there /\ closing # "done" =>
                           (\E w \in 1..Writers : writer[w].fd = "path") \/ Len(path.lines) >= maxSize
                      /\ \A w \in 1..Writers : writer[w].fd = "path" => writer[w].size <= Len(path.lines)

\* How far the file may be ahead of the size its writer knows.
Slack == IF Writers > 1 THEN 1 ELSE 0
Near == /\ Len(path.lines) <= maxSize + Slack + unmoved
        /\ \A w \in 1..Writers : /\ WillWrite(w) \/ InUse(w)
                                 /\ writer[w].fd = "path"
                                 => Len(path.lines) <= writer[w].size + Slack
        /\ \A w, v \in 1..Writers : /\ InUse(w) /\ WillWrite(v) /\ v # w
                                    /\ writer[w].fd = "path"
                                    => Len(path.lines) <= writer[w].size

\* The two files are the end of what has been written.
Ends(k, p, b) == /\ Len(p) + Len(b) <= Len(k)
                 /\ Len(p) + Len(b) >= maxSize \/ Len(p) + Len(b) = Len(k)
                 /\ \A i \in 1..Len(p) : p[i] = k[Len(k) - Len(p) + i]
                 /\ \A i \in 1..Len(b) : b[i] = k[Len(k) - Len(p) - Len(b) + i]
Newest == ~split => Ends(kept, path.lines, backup.lines)

IInv == /\ TypeOK /\ Shape /\ InOrder /\ Listed /\ InView /\ Steady /\ PanicNeedsRace
        /\ Opens /\ Near /\ Newest
-----------------------------------------------------------------------------
\* The type invariant, by the parts of the state.
Words == Streams \cup {"none"}
Inode == [there : BOOLEAN, lines : Seq(Nat)]
Descriptor == [fd : {"none", "path", "backup", "gone", "closed"}, size : Nat]
QueueType == /\ count \in 0..MaxEntries /\ dropped \in Nat
             /\ queue \in Seq(Nat) /\ console \in Seq(Nat)
             /\ closing \in {"no", "closed", "done"} /\ panic \in {"no", "flush", "log"}
StreamType == /\ array \in Seq(Words) /\ len \in 0..Len(array)
              /\ stream \in [Streams -> [at : {"new", "on", "closed"}, buf : Seq(Nat)]]
FlushType == flush \in Flush /\ outputs \in Seq(0..Writers)
LogfileType == /\ kept \in Seq(Nat) /\ split \in BOOLEAN /\ unmoved \in Nat
               /\ path \in Inode /\ backup \in Inode
               /\ (~path.there => path = Missing) /\ (~backup.there => backup = Missing)
               /\ writer \in [1..Writers -> Descriptor]
LEMMA TypeParts == TypeOK <=> QueueType /\ StreamType /\ FlushType /\ LogfileType
BY DEF TypeOK, QueueType, StreamType, FlushType, LogfileType, Inode, Descriptor, Words

LEMMA WaitingType == Waiting \in Flush /\ Waiting.at = "idle"
BY EmptySeq DEF Waiting, Flush

LEMMA QueueStep == TypeOK /\ [Next]_vars => QueueType'
<1> SUFFICES ASSUME TypeOK, [Next]_vars PROVE QueueType'  OBVIOUS
<1>0. QueueType /\ FlushType  BY TypeParts
<1>1. CASE Log
  <2>1. Append(queue, count + 1) \in Seq(Nat)  BY <1>0, AppendProperties DEF QueueType
  <2>2. count + 1 \in 0..MaxEntries /\ dropped + 1 \in Nat
    BY <1>0, <1>1, LoggerConstants DEF Log, QueueType
  <2>3. /\ queue' \in {queue, Append(queue, count + 1)} /\ dropped' \in {dropped, dropped + 1}
        /\ count' = count + 1 /\ panic' \in {panic, "log"} /\ UNCHANGED <<console, closing>>
    BY <1>1 DEF Log
  <2> QED  BY <1>0, <2>1, <2>2, <2>3 DEF QueueType
<1>2. CASE Take
  <2>1. Tail(queue) \in Seq(Nat)  BY <1>0, <1>2, HeadTailProperties DEF QueueType, Take
  <2> QED  BY <1>0, <1>2, <2>1 DEF Take, QueueType
<1>3. CASE WriteConsole
  <2>1. flush.item \in Nat  BY <1>0 DEF FlushType, Flush
  <2>2. Append(console, flush.item) \in Seq(Nat)  BY <1>0, <2>1, AppendProperties DEF QueueType
  <2> QED  BY <1>0, <1>3, <2>2 DEF WriteConsole, QueueType
<1>4. CASE ~Log /\ ~Take /\ ~WriteConsole
  BY <1>0, <1>4 DEF QueueType, Next, vars, FlushLoop, WriteFile, Pick, Offer, EndItem, Subscribe,
     Unsubscribe, Receive, Reopen, CloseQueue, CloseOutputs
<1> QED  BY <1>1, <1>2, <1>3, <1>4

\* The array behind a slice, when it has room for one more and when an element is cut out.
LEMMA GrownType ==
  ASSUME StreamType
  PROVE  /\ Grown \in Seq(Words) /\ Len(Grown) >= len + 1
         /\ \A i \in 1..len : Grown[i] = array[i]
<1>1. array \in Seq(Words) /\ len \in 0..Len(array) /\ Len(array) \in Nat  BY DEF StreamType
<1>2. CASE len < Len(array)  BY <1>1, <1>2 DEF Grown
<1>3. CASE ~(len < Len(array))
  <2> DEFINE n == IF Len(array) = 0 THEN 1 ELSE Len(array)
             pad == [i \in 1..n |-> "none"]
  <2>1. n \in Nat /\ n >= 1  BY <1>1
  <2>2. pad \in Seq(Words) /\ Len(pad) = n  BY <2>1, IsASeq DEF Words
  <2>3. Grown = array \o pad  BY <1>3 DEF Grown
  <2> HIDE DEF pad, n
  <2>4. /\ array \o pad \in Seq(Words) /\ Len(array \o pad) = Len(array) + Len(pad)
        /\ \A i \in 1..Len(array) : (array \o pad)[i] = array[i]
    <3>1. /\ array \o pad \in Seq(Words) /\ Len(array \o pad) = Len(array) + Len(pad)
          /\ \A i \in 1..Len(array) + Len(pad) :
               (array \o pad)[i] = IF i <= Len(array) THEN array[i] ELSE pad[i - Len(array)]
      BY <1>1, <2>2, ConcatProperties
    <3> QED  BY <1>1, <2>1, <2>2, <3>1
  <2> QED  BY <1>1, <1>3, <2>1, <2>2, <2>3, <2>4
<1> QED  BY <1>2, <1>3

LEMMA ShiftedType ==
  ASSUME NEW a \in Seq(Words), NEW n \in 0..Len(a), NEW i
  PROVE  Shifted(a, n, i) \in Seq(Words) /\ Len(Shifted(a, n, i)) = Len(a)
<1>1. Len(a) \in Nat /\ \A k \in 1..Len(a) : a[k] \in Words  OBVIOUS
<1>2. Shifted(a, n, i) \in [1..Len(a) -> Words]  BY <1>1 DEF Shifted
<1> QED  BY <1>1, <1>2

LEMMA StreamStep == TypeOK /\ Listed /\ [Next]_vars => StreamType'
<1> SUFFICES ASSUME TypeOK, Listed, [Next]_vars PROVE StreamType'  OBVIOUS
<1> DEFINE Channel == [at : {"new", "on", "closed"}, buf : Seq(Nat)]
<1>0. StreamType /\ FlushType  BY TypeParts
<1>1. ASSUME NEW s \in Streams, Subscribe(s) PROVE StreamType'
  <2>1. Grown \in Seq(Words) /\ Len(Grown) >= len + 1 /\ len \in Nat  BY <1>0, GrownType DEF StreamType
  <2>2. len + 1 \in 1..Len(Grown)  BY <2>1
  <2>3. array' \in Seq(Words) /\ Len(array') = Len(Grown)
    BY <1>1, <2>1, <2>2, ExceptSeq DEF Subscribe, Words
  <2> QED  BY <1>0, <1>1, <2>1, <2>3 DEF Subscribe, StreamType
<1>2. ASSUME NEW s \in Streams, Unsubscribe(s) PROVE StreamType'
  <2>1. array' \in Seq(Words) /\ Len(array') = Len(array)
    BY <1>0, <1>2, ShiftedType DEF Unsubscribe, StreamType
  <2>2. len # 0  BY <1>0, <1>2 DEF Unsubscribe, Listed, StreamType
  <2>3. stream' \in [Streams -> Channel]  BY <1>0, <1>2, EmptySeq DEF Unsubscribe, StreamType
  <2> QED  BY <1>0, <1>2, <2>1, <2>2, <2>3 DEF Unsubscribe, StreamType
<1>3. ASSUME NEW s \in Streams, Receive(s) PROVE StreamType'
  <2>1. Tail(stream[s].buf) \in Seq(Nat)  BY <1>0, <1>3, HeadTailProperties DEF Receive, StreamType
  <2> QED  BY <1>0, <1>3, <2>1 DEF Receive, StreamType
<1>4. ASSUME NEW s \in Streams, Offer(s) PROVE StreamType'
  <2>1. flush.item \in Nat  BY <1>0 DEF FlushType, Flush
  <2>2. Append(stream[s].buf, flush.item) \in Seq(Nat)  BY <1>0, <2>1, AppendProperties DEF StreamType
  <2> DEFINE b == IF Len(stream[s].buf) < StreamCap THEN Append(stream[s].buf, flush.item)
                  ELSE stream[s].buf
  <2>3. b \in Seq(Nat)  BY <1>0, <2>2 DEF StreamType
  <2>4. stream' = stream \/ stream' = [stream EXCEPT ![s] = [@ EXCEPT !.buf = b]]  BY <1>4 DEF Offer
  <2> HIDE DEF b
  <2>5. stream' \in [Streams -> Channel]  BY <1>0, <2>3, <2>4 DEF StreamType
  <2> QED  BY <1>0, <1>4, <2>5 DEF Offer, StreamType
<1>5. CASE UNCHANGED subscription  BY <1>0, <1>5 DEF subscription, StreamType
<1> QED
  BY <1>1, <1>2, <1>3, <1>4, <1>5 DEF Next, vars, subscription, Log, FlushLoop, Take, WriteConsole,
     WriteFile, Pick, EndItem, Reopen, CloseQueue, CloseOutputs

LEMMA OutsShape ==
  ASSUME Shape, flush.at = "writing"
  PROVE  /\ flush.outs # <<>> /\ Len(flush.outs) \in {1, 2}
         /\ Head(flush.outs) = Stdout /\ Len(flush.outs) = 1 => flush.outs = <<Stdout>>
         /\ Head(flush.outs) = Stdout /\ Len(flush.outs) = 2 =>
              \E w \in 1..Writers : flush.outs = <<Stdout, w>> /\ Tail(flush.outs) = <<w>>
         /\ Head(flush.outs) # Stdout => \E w \in 1..Writers : flush.outs = <<w>>
         /\ \A w \in 1..Writers : Head(flush.outs) = w => flush.outs = <<w>>
<1>1. CASE flush.outs = <<Stdout>>  BY <1>1, LoggerConstants DEF Stdout
<1>2. ASSUME NEW w \in 1..Writers, flush.outs = <<Stdout, w>>
      PROVE  Len(flush.outs) = 2 /\ Head(flush.outs) = Stdout /\ Tail(flush.outs) = <<w>>
  BY <1>2
<1>3. ASSUME NEW w \in 1..Writers, flush.outs = <<w>>
      PROVE  Len(flush.outs) = 1 /\ Head(flush.outs) = w
  BY <1>3
<1>4. Stdout \notin 1..Writers  BY LoggerConstants DEF Stdout
<1>5. \/ flush.outs = <<Stdout>> \/ \E w \in 1..Writers : flush.outs = <<Stdout, w>>
      \/ \E w \in 1..Writers : flush.outs = <<w>>
  BY DEF Shape, Lone
<1>6. CASE \E w \in 1..Writers : flush.outs = <<Stdout, w>>  BY <1>2, <1>4, <1>6
<1>7. CASE \E w \in 1..Writers : flush.outs = <<w>>  BY <1>3, <1>4, <1>7
<1> QED  BY <1>1, <1>5, <1>6, <1>7

\* An output is written and leaves the list, which is not empty while flushLoop writes.
LEMMA WroteType ==
  ASSUME flush \in Flush, Shape, flush.at = "writing", Wrote
  PROVE  /\ flush' \in Flush /\ flush'.outs = Tail(flush.outs)
         /\ flush'.at = IF Len(flush.outs) = 1 THEN "offering" ELSE "writing"
         /\ flush' = [flush EXCEPT !.outs = flush'.outs, !.at = flush'.at]
<1>1. flush.outs # <<>> /\ flush.outs \in Seq(0..Writers)  BY OutsShape DEF Flush
<1>2. Tail(flush.outs) \in Seq(0..Writers)  BY <1>1, HeadTailProperties
<1> DEFINE at == IF Len(flush.outs) = 1 THEN "offering" ELSE "writing"
<1>3. at \in {"offering", "writing"} /\ flush' = [flush EXCEPT !.outs = Tail(flush.outs), !.at = at]
  BY DEF Wrote
<1> HIDE DEF at
<1>4. flush' \in Flush /\ flush'.outs = Tail(flush.outs) /\ flush'.at = at  BY <1>2, <1>3 DEF Flush
<1> QED  BY <1>3, <1>4 DEF at

LEMMA FlushStep == TypeOK /\ Shape /\ InView /\ [Next]_vars => FlushType'
<1> SUFFICES ASSUME TypeOK, Shape, InView, [Next]_vars PROVE FlushType'  OBVIOUS
<1>0. StreamType /\ FlushType /\ QueueType  BY TypeParts
<1>1. flush \in Flush /\ array \in Seq(Words) /\ len \in 0..Len(array)  BY <1>0 DEF FlushType, StreamType
<1>2. CASE Take
  <2> DEFINE m == {s \in Streams : stream[s].at = "on"}
  <2>1. SubSeq(array, 1, len) \in Seq(Words)
    <3>1. \A i \in 1..len : array[i] \in Words  BY <1>1
    <3> QED  BY <1>1, <3>1, SubSeqProperties
  <2>2. Head(queue) \in Nat  BY <1>0, <1>2, HeadTailProperties DEF QueueType, Take
  <2>3. (len > 0) \in BOOLEAN /\ m \in SUBSET Streams  OBVIOUS
  <2>4. /\ flush' = [Waiting EXCEPT !.at = "writing", !.item = Head(queue), !.outs = outputs,
                              !.view = SubSeq(array, 1, len), !.shared = len > 0, !.members = m]
        /\ outputs' = outputs
    BY <1>2 DEF Take
  <2> HIDE DEF m
  <2>5. flush' \in Flush  BY <1>0, <2>1, <2>2, <2>3, <2>4, WaitingType DEF FlushType, Flush, Words
  <2> QED  BY <1>0, <2>4, <2>5 DEF FlushType
<1>3. CASE WriteConsole \/ \E w \in 1..Writers : WriteFile(w)
  BY <1>0, <1>1, <1>3, WroteType DEF WriteConsole, WriteFile, FlushType
<1>4. CASE Pick
  <2>1. flush.k \in Nat /\ flush.k < Len(flush.view) /\ flush.view \in Seq(Words)
    BY <1>1, <1>4 DEF Pick, Flush, Words
  <2>2. Element \in Words  BY <1>1, <2>1 DEF Element, InView
  <2> DEFINE e == Element
             n == flush.k + 1
  <2>3. n \in Nat /\ e \in Words  BY <2>1, <2>2
  <2>4. flush' = [flush EXCEPT !.at = "sending", !.sub = e, !.k = n]  BY <1>4 DEF Pick
  <2> HIDE DEF e, n
  <2>5. flush' \in Flush  BY <1>1, <2>3, <2>4 DEF Flush, Words
  <2> QED  BY <1>0, <1>4, <2>5 DEF Pick, FlushType
<1>5. ASSUME NEW s \in Streams, Offer(s) PROVE FlushType'
  <2>1. flush.offered[s] + 1 \in Nat  BY <1>1 DEF Flush
  <2>2. flush' = [flush EXCEPT !.at = "offering", !.sub = "none",
                               !.offered = [@ EXCEPT ![s] = flush.offered[s] + 1]]
    BY <1>5 DEF Offer
  <2>3. [flush.offered EXCEPT ![s] = flush.offered[s] + 1] \in [Streams -> Nat]  BY <1>1, <2>1 DEF Flush
  <2>4. flush' \in Flush  BY <1>1, <2>2, <2>3 DEF Flush
  <2> QED  BY <1>0, <1>5, <2>4 DEF Offer, FlushType
<1>6. CASE EndItem  BY <1>0, <1>6, WaitingType DEF EndItem, FlushType
<1>7. ASSUME NEW s \in Streams, Subscribe(s) PROVE FlushType'
  <2>1. flush.shared => SubSeq(array, 1, Len(flush.view)) \in Seq(Words)
    <3>1. Len(flush.view) \in Nat  BY <1>1 DEF Flush
    <3>2. flush.shared => \A i \in 1..Len(flush.view) : array[i] \in Words
      BY <1>1, <3>1 DEF InView
    <3> QED  BY <3>1, <3>2, SubSeqProperties
  <2>2. KeepView \in Flush  BY <1>1, <2>1 DEF KeepView, Flush, Words
  <2> QED  BY <1>0, <1>7, <2>2 DEF Subscribe, FlushType
<1>8. ASSUME NEW s \in Streams, Unsubscribe(s) PROVE FlushType'
  BY <1>0, <1>1, <1>8 DEF Unsubscribe, FlushType, Flush
<1>9. ASSUME NEW w \in 1..Writers, NEW opens, Reopen(w, opens) PROVE FlushType'
  <2>1. <<Stdout>> \in Seq(0..Writers) /\ <<Stdout, w>> \in Seq(0..Writers)
    BY LoggerConstants DEF Stdout
  <2> QED  BY <1>0, <1>9, <2>1 DEF Reopen, FlushType
<1>10. CASE CloseOutputs
  <2>1. <<Stdout>> \in Seq(0..Writers)  BY LoggerConstants DEF Stdout
  <2> QED  BY <1>0, <1>10, <2>1 DEF CloseOutputs, FlushType
<1>11. CASE UNCHANGED <<flush, outputs>>  BY <1>0, <1>11 DEF FlushType
<1> QED
  BY <1>2, <1>3, <1>4, <1>5, <1>6, <1>7, <1>8, <1>9, <1>10, <1>11
     DEF Next, vars, FlushLoop, Log, Receive, CloseQueue

Sane(f) == f \in Inode /\ (~f.there => f = Missing)
Descriptors == [1..Writers -> {"none", "path", "backup", "gone", "closed"}]

\* A file with a line added is a file.
LEMMA WithLine ==
  ASSUME NEW f \in Inode, NEW x \in Nat
  PROVE  Sane(File(Append(f.lines, x))) /\ File(Append(f.lines, x)).there
<1>1. Append(f.lines, x) \in Seq(Nat)  BY AppendProperties DEF Inode
<1> QED  BY <1>1 DEF Sane, File, Inode

LEMMA NoLines == Sane(Missing) /\ ~Missing.there /\ Missing.lines = <<>>
                 /\ Sane(File(<<>>)) /\ File(<<>>).there /\ File(<<>>).lines = <<>>
BY EmptySeq DEF Sane, File, Missing, Inode

LEMMA PutType ==
  ASSUME TypeOK, NEW w \in 1..Writers, NEW fds \in Descriptors, NEW size \in Nat,
         NEW p, NEW b, Sane(p), Sane(b), Put(w, fds, size, p, b)
  PROVE  /\ Sane(path') /\ Sane(backup') /\ kept' \in Seq(Nat)
         /\ writer' \in [1..Writers -> Descriptor]
         /\ \A v \in 1..Writers : writer'[v].fd = fds[v]
         /\ \A v \in 1..Writers : v # w => writer'[v].size = writer[v].size
         /\ writer'[w].size = IF fds[w] # "closed" THEN size + 1 ELSE writer[w].size
<1>1. flush.item \in Nat /\ kept \in Seq(Nat) /\ writer \in [1..Writers -> Descriptor]
  BY TypeParts DEF FlushType, Flush, LogfileType
<1>2. Sane(path')  BY <1>1, WithLine DEF Put, Sane
<1>3. Sane(backup')  BY <1>1, WithLine DEF Put, Sane
<1>4. kept' \in Seq(Nat)  BY <1>1, AppendProperties DEF Put
<1>5. \A v \in 1..Writers : writer[v].size \in Nat /\ fds[v] \in {"none", "path", "backup", "gone", "closed"}
  BY <1>1 DEF Descriptor, Descriptors
<1>6. writer' = [v \in 1..Writers |-> [fd |-> fds[v], size |-> IF v = w /\ fds[w] # "closed" THEN size + 1
                                           ELSE writer[v].size]]
  BY DEF Put
<1>7. size + 1 \in Nat  OBVIOUS
<1>8. writer' \in [1..Writers -> Descriptor]  BY <1>5, <1>6, <1>7 DEF Descriptor
<1> QED  BY <1>2, <1>3, <1>4, <1>6, <1>8

\* What the writers hold after os.Rename, if it worked and if it did not.
LEMMA MovedType ==
  ASSUME TypeOK
  PROVE  /\ Moved(TRUE) \in Descriptors
         /\ path.there => \A v \in 1..Writers : Moved(TRUE)[v] # "path"
         /\ ~path.there => \A v \in 1..Writers : Moved(TRUE)[v] = writer[v].fd
         /\ \A v \in 1..Writers : Moved(TRUE)[v] = "none" <=> writer[v].fd = "none"
         /\ \A v \in 1..Writers : writer[v].fd \notin {"path", "backup"} => Moved(TRUE)[v] = writer[v].fd
<1>1. \A v \in 1..Writers : writer[v].fd \in {"none", "path", "backup", "gone", "closed"}
  BY TypeParts DEF LogfileType, Descriptor
<1>2. \A v \in 1..Writers :
        Moved(TRUE)[v] = IF path.there /\ writer[v].fd = "path" THEN "backup"
                         ELSE IF path.there /\ writer[v].fd = "backup" THEN "gone" ELSE writer[v].fd
  BY DEF Moved
<1>3. Moved(TRUE) = [v \in 1..Writers |-> Moved(TRUE)[v]]  BY DEF Moved
<1>4. \A v \in 1..Writers : Moved(TRUE)[v] \in {"none", "path", "backup", "gone", "closed"}  BY <1>1, <1>2
<1>5. Moved(TRUE) \in Descriptors  BY <1>3, <1>4 DEF Descriptors
<1> QED  BY <1>1, <1>2, <1>5

LEMMA UnmovedType ==
  ASSUME TypeOK
  PROVE  Moved(FALSE) \in Descriptors /\ \A v \in 1..Writers : Moved(FALSE)[v] = writer[v].fd
<1>1. \A v \in 1..Writers : writer[v].fd \in {"none", "path", "backup", "gone", "closed"}
  BY TypeParts DEF LogfileType, Descriptor
<1>2. Moved(FALSE) = [v \in 1..Writers |-> writer[v].fd]  BY DEF Moved
<1> QED  BY <1>1, <1>2 DEF Descriptors

\* The three ways a line goes to the file.
Plainly(w) == /\ ~Full(w) /\ split' = split /\ unmoved' = unmoved
              /\ Put(w, [v \in 1..Writers |-> writer[v].fd], writer[w].size, path, backup)
LEMMA WriteFileCases ==
  ASSUME NEW w \in 1..Writers, WriteFile(w)
  PROVE  \/ Plainly(w)
         \/ Full(w) /\ \E opens \in BOOLEAN : Rotate(w, TRUE, opens)
         \/ Full(w) /\ \E opens \in BOOLEAN : Rotate(w, FALSE, opens)
<1>1. CASE Full(w)
  <2>1. PICK moves \in BOOLEAN, opens \in BOOLEAN : Rotate(w, moves, opens)
    BY <1>1, LoggerConstants DEF WriteFile
  <2>2. CASE moves = TRUE  BY <1>1, <2>1, <2>2
  <2>3. CASE moves = FALSE  BY <1>1, <2>1, <2>3
  <2> QED  BY <2>2, <2>3
<1>2. CASE ~Full(w)  BY <1>2 DEF WriteFile, Plainly
<1> QED  BY <1>1, <1>2

LEMMA PlainlyType ==
  ASSUME TypeOK, NEW w \in 1..Writers, Plainly(w)
  PROVE  /\ Sane(path') /\ Sane(backup') /\ kept' \in Seq(Nat)
         /\ writer' \in [1..Writers -> Descriptor]
         /\ \A v \in 1..Writers : writer'[v].fd = writer[v].fd
         /\ \A v \in 1..Writers : v # w => writer'[v].size = writer[v].size
         /\ writer'[w].size = IF writer[w].fd # "closed" THEN writer[w].size + 1 ELSE writer[w].size
<1> DEFINE fds == [v \in 1..Writers |-> writer[v].fd]
<1>1. fds \in Descriptors /\ writer[w].size \in Nat /\ Sane(path) /\ Sane(backup)
  BY TypeParts DEF LogfileType, Descriptor, Descriptors, Sane
<1>2. \A v \in 1..Writers : fds[v] = writer[v].fd  OBVIOUS
<1>3. Put(w, fds, writer[w].size, path, backup)  BY DEF Plainly
<1> HIDE DEF fds
<1> QED  BY <1>1, <1>2, <1>3, PutType

LEMMA RotateType ==
  ASSUME TypeOK, NEW w \in 1..Writers, NEW opens \in BOOLEAN, Rotate(w, TRUE, opens)
  PROVE  /\ Sane(path') /\ Sane(backup') /\ kept' \in Seq(Nat)
         /\ writer' \in [1..Writers -> Descriptor]
         /\ \A v \in 1..Writers : v # w => writer'[v].fd = Moved(TRUE)[v] /\ writer'[v].size = writer[v].size
         /\ writer'[w].fd = IF opens THEN "path" ELSE "closed"
         /\ writer'[w].size = IF opens THEN 1 ELSE writer[w].size
         /\ split' = (split \/ \E v \in 1..Writers \ {w} : writer[v].fd = "path")
         /\ unmoved' = 0
<1> DEFINE fds == [Moved(TRUE) EXCEPT ![w] = IF opens THEN "path" ELSE "closed"]
           size == IF opens THEN 0 ELSE writer[w].size
           p == IF opens THEN File(<<>>) ELSE Missing
           b == IF path.there THEN path ELSE backup
<1>1. size \in Nat /\ writer[w].size \in Nat  BY TypeParts DEF LogfileType, Descriptor
<1>2. Sane(p) /\ Sane(b)  BY TypeParts, NoLines DEF LogfileType, Sane
<1>3. /\ fds \in Descriptors /\ fds[w] = IF opens THEN "path" ELSE "closed"
      /\ \A v \in 1..Writers : v # w => fds[v] = Moved(TRUE)[v]
  BY MovedType DEF Descriptors
<1>4. Put(w, fds, size, p, b)
  <2>1. Len(Missing.lines) = 0 /\ Missing.lines = <<>>  BY NoLines, EmptySeq
  <2> QED  BY <2>1 DEF Rotate
<1>5. opens => size + 1 = 1  OBVIOUS
<1> HIDE DEF fds, size, p, b
<1>6. /\ Sane(path') /\ Sane(backup') /\ kept' \in Seq(Nat)
      /\ writer' \in [1..Writers -> Descriptor]
      /\ \A v \in 1..Writers : writer'[v].fd = fds[v]
      /\ \A v \in 1..Writers : v # w => writer'[v].size = writer[v].size
      /\ writer'[w].size = IF fds[w] # "closed" THEN size + 1 ELSE writer[w].size
  BY <1>1, <1>2, <1>3, <1>4, PutType
<1> QED  BY <1>3, <1>5, <1>6 DEF Rotate

LEMMA UnrotatedType ==
  ASSUME TypeOK, NEW w \in 1..Writers, NEW opens \in BOOLEAN, Rotate(w, FALSE, opens)
  PROVE  /\ Sane(path') /\ Sane(backup') /\ kept' \in Seq(Nat)
         /\ writer' \in [1..Writers -> Descriptor]
         /\ \A v \in 1..Writers : v # w => writer'[v].fd = writer[v].fd /\ writer'[v].size = writer[v].size
         /\ writer'[w].fd = IF opens THEN "path" ELSE "closed"
         /\ writer'[w].size = IF opens THEN Len(path.lines) + 1 ELSE writer[w].size
         /\ split' = split /\ unmoved' = unmoved + 1
<1> DEFINE fds == [Moved(FALSE) EXCEPT ![w] = IF opens THEN "path" ELSE "closed"]
           size == IF opens THEN Len(path.lines) ELSE writer[w].size
           p == IF opens THEN File(path.lines) ELSE path
<1>1. LogfileType  BY TypeParts
<1>2. size \in Nat /\ writer[w].size \in Nat
  <2>1. writer[w].size \in Nat  BY <1>1 DEF LogfileType, Descriptor
  <2>2. Len(path.lines) \in Nat  BY <1>1 DEF LogfileType, Inode
  <2> QED  BY <2>1, <2>2
<1>3. Sane(p) /\ Sane(backup)  BY <1>1 DEF LogfileType, Sane, File, Inode
<1>4. /\ fds \in Descriptors /\ fds[w] = IF opens THEN "path" ELSE "closed"
      /\ \A v \in 1..Writers : v # w => fds[v] = writer[v].fd
  BY UnmovedType DEF Descriptors
<1>5. Put(w, fds, size, p, backup)  BY DEF Rotate
<1>6. opens => size = Len(path.lines)  OBVIOUS
<1> HIDE DEF fds, size, p
<1>7. /\ Sane(path') /\ Sane(backup') /\ kept' \in Seq(Nat)
      /\ writer' \in [1..Writers -> Descriptor]
      /\ \A v \in 1..Writers : writer'[v].fd = fds[v]
      /\ \A v \in 1..Writers : v # w => writer'[v].size = writer[v].size
      /\ writer'[w].size = IF fds[w] # "closed" THEN size + 1 ELSE writer[w].size
  BY <1>2, <1>3, <1>4, <1>5, PutType
<1>8. split' = split /\ unmoved' = unmoved + 1  BY <1>1 DEF Rotate, LogfileType
<1> QED  BY <1>4, <1>6, <1>7, <1>8

LEMMA LogfileStep == TypeOK /\ [Next]_vars => LogfileType'
<1> SUFFICES ASSUME TypeOK, [Next]_vars PROVE LogfileType'  OBVIOUS
<1>0. LogfileType  BY TypeParts
<1>1. ASSUME NEW w \in 1..Writers, WriteFile(w) PROVE LogfileType'
  <2>1. CASE Plainly(w)  BY <1>0, <2>1, PlainlyType DEF LogfileType, Sane, Plainly
  <2>2. ASSUME NEW opens \in BOOLEAN, Rotate(w, TRUE, opens) PROVE LogfileType'
    <3>0. split' \in BOOLEAN  BY <2>2, RotateType
    <3>1. unmoved' \in Nat
      <4>1. unmoved' = 0  BY <2>2, RotateType
      <4> QED  BY <4>1
    <3>2. Sane(path') /\ Sane(backup') /\ kept' \in Seq(Nat) /\ writer' \in [1..Writers -> Descriptor]
      BY <2>2, RotateType
    <3> QED  BY <3>0, <3>1, <3>2 DEF LogfileType, Sane
  <2>3. ASSUME NEW opens \in BOOLEAN, Rotate(w, FALSE, opens) PROVE LogfileType'
    <3>1. split' = split /\ unmoved' = unmoved + 1  BY <2>3, UnrotatedType
    <3>2. split' \in BOOLEAN /\ unmoved' \in Nat  BY <1>0, <3>1 DEF LogfileType
    <3>3. Sane(path') /\ Sane(backup') /\ kept' \in Seq(Nat) /\ writer' \in [1..Writers -> Descriptor]
      BY <2>3, UnrotatedType
    <3> QED  BY <3>2, <3>3 DEF LogfileType, Sane
  <2> QED  BY <1>1, <2>1, <2>2, <2>3, WriteFileCases
<1>2. ASSUME NEW w \in 1..Writers, NEW opens, Reopen(w, opens) PROVE LogfileType'
  <2>1. Len(path.lines) \in Nat  BY <1>0 DEF LogfileType, Inode
  <2>2. Sane(path')  BY <1>0, <1>2, NoLines DEF Reopen, Opened, LogfileType, Sane
  <2>3. writer' \in [1..Writers -> Descriptor]
    BY <1>0, <1>2, <2>1 DEF Reopen, Opened, LogfileType, Descriptor
  <2> QED  BY <1>0, <1>2, <2>2, <2>3 DEF Reopen, Opened, LogfileType, Sane
<1>3. CASE CloseOutputs
  <2>1. writer' \in [1..Writers -> Descriptor]  BY <1>0, <1>3 DEF CloseOutputs, LogfileType, Descriptor
  <2> QED  BY <1>0, <1>3, <2>1 DEF CloseOutputs, LogfileType
<1>4. CASE UNCHANGED logfile  BY <1>0, <1>4 DEF logfile, LogfileType
<1> QED
  BY <1>1, <1>2, <1>3, <1>4 DEF Next, vars, logfile, FlushLoop, Log, Take, WriteConsole, Pick, Offer,
     EndItem, Subscribe, Unsubscribe, Receive, CloseQueue

\* What the actions that change flushLoop's record do to it.
LEMMA TakeEffect ==
  ASSUME Take
  PROVE  /\ flush'.at = "writing" /\ flush'.item = Head(queue) /\ flush'.outs = outputs
         /\ flush'.view = SubSeq(array, 1, len) /\ flush'.shared = (len > 0) /\ flush'.k = 0
         /\ flush'.members = {s \in Streams : stream[s].at = "on"}
         /\ flush'.offered = [s \in Streams |-> 0] /\ flush'.disturbed = FALSE
BY DEF Take, Waiting

LEMMA SubscribeEffect ==
  ASSUME TypeOK, NEW s, Subscribe(s)
  PROVE  /\ flush'.at = flush.at /\ flush'.item = flush.item /\ flush'.outs = flush.outs
         /\ flush'.k = flush.k /\ flush'.sub = flush.sub /\ flush'.members = flush.members
         /\ flush'.offered = flush.offered /\ flush'.disturbed = flush.disturbed
         /\ IF flush.shared /\ len = Len(array)
            THEN ~flush'.shared /\ flush'.view = SubSeq(array, 1, Len(flush.view))
            ELSE flush'.shared = flush.shared /\ flush'.view = flush.view
BY DEF Subscribe, KeepView, TypeOK, Flush

LEMMA UnsubscribeEffect ==
  ASSUME TypeOK, NEW s, Unsubscribe(s)
  PROVE  /\ flush'.at = flush.at /\ flush'.item = flush.item /\ flush'.outs = flush.outs
         /\ flush'.k = flush.k /\ flush'.view = flush.view /\ flush'.shared = flush.shared
         /\ flush'.disturbed <=> flush.at # "idle"
BY DEF Unsubscribe, TypeOK, Flush

LEMMA WroteEffect ==
  ASSUME TypeOK, Wrote
  PROVE  /\ flush'.outs = Tail(flush.outs)
         /\ flush'.at = IF Len(flush.outs) = 1 THEN "offering" ELSE "writing"
         /\ flush'.item = flush.item /\ flush'.k = flush.k /\ flush'.sub = flush.sub
         /\ flush'.view = flush.view /\ flush'.shared = flush.shared /\ flush'.members = flush.members
         /\ flush'.offered = flush.offered /\ flush'.disturbed = flush.disturbed
BY DEF Wrote, TypeOK, Flush

LEMMA PickEffect ==
  ASSUME TypeOK, Pick
  PROVE  /\ flush'.at = "sending" /\ flush'.sub = Element /\ flush'.k = flush.k + 1
         /\ flush'.view = flush.view /\ flush'.shared = flush.shared /\ flush'.members = flush.members
         /\ flush'.offered = flush.offered /\ flush'.disturbed = flush.disturbed
BY DEF Pick, TypeOK, Flush

LEMMA OfferEffect ==
  ASSUME TypeOK, NEW s \in Streams, Offer(s)
  PROVE  /\ flush'.at = "offering" /\ flush'.k = flush.k
         /\ flush'.view = flush.view /\ flush'.shared = flush.shared /\ flush'.members = flush.members
         /\ flush'.offered = [flush.offered EXCEPT ![s] = flush.offered[s] + 1]
         /\ flush'.disturbed = flush.disturbed
BY DEF Offer, TypeOK, Flush

LEMMA ShapeStep == TypeOK /\ Shape /\ [Next]_vars => Shape'
<1> SUFFICES ASSUME TypeOK, Shape, [Next]_vars PROVE Shape'  OBVIOUS
<1>1. CASE Take  BY <1>1, TakeEffect DEF Shape, Take
<1>2. CASE WriteConsole \/ \E w \in 1..Writers : WriteFile(w)
  <2>1. flush.at = "writing" /\ Wrote /\ outputs' = outputs  BY <1>2 DEF WriteConsole, WriteFile
  <2>2. CASE Len(flush.outs) = 1  BY <2>1, <2>2, WroteEffect DEF Shape
  <2>3. CASE Len(flush.outs) # 1
    <3>1. PICK w \in 1..Writers : Tail(flush.outs) = <<w>>
      <4>1. Len(flush.outs) = 2 /\ Head(flush.outs) = Stdout
        <5>1. ASSUME NEW w \in 1..Writers, flush.outs = <<w>> PROVE FALSE  BY <2>3, <5>1
        <5> QED  BY <2>1, <2>3, <5>1, OutsShape
      <4> QED  BY <2>1, <4>1, OutsShape
    <3> QED  BY <2>1, <2>3, <3>1, WroteEffect DEF Shape
  <2> QED  BY <2>2, <2>3
<1>3. CASE Pick  BY <1>3, PickEffect DEF Shape, Pick
<1>4. ASSUME NEW s \in Streams, Offer(s) PROVE Shape'  BY <1>4, OfferEffect DEF Shape, Offer
<1>5. CASE EndItem  BY <1>5 DEF Shape, EndItem, Waiting
<1>6. ASSUME NEW s \in Streams, Subscribe(s) PROVE Shape'  BY <1>6, SubscribeEffect DEF Shape, Subscribe
<1>7. ASSUME NEW s \in Streams, Unsubscribe(s) PROVE Shape'
  BY <1>7, UnsubscribeEffect DEF Shape, Unsubscribe
<1>8. ASSUME NEW w \in 1..Writers, NEW opens, Reopen(w, opens) PROVE Shape'
  BY <1>8 DEF Shape, Reopen, Lone
<1>9. CASE CloseOutputs  BY <1>9 DEF Shape, CloseOutputs, Lone
<1>10. CASE UNCHANGED <<flush, outputs>>  BY <1>10 DEF Shape
<1> QED
  BY <1>1, <1>2, <1>3, <1>4, <1>5, <1>6, <1>7, <1>8, <1>9, <1>10
     DEF Next, vars, FlushLoop, Log, Receive, CloseQueue

\* One more entry at the end of the queue is one more at the end of all.
LEMMA ConcatOne ==
  ASSUME NEW a \in Seq(Nat), NEW p \in Seq(Nat), NEW q \in Seq(Nat), NEW x \in Nat
  PROVE  a \o p \o Append(q, x) = Append(a \o p \o q, x)
<1>1. PICK y : y = <<x>>  OBVIOUS
<1>2. PICK b : b = a \o p  OBVIOUS
<1>3. b \in Seq(Nat) /\ y \in Seq(Nat)  BY <1>1, <1>2, ConcatProperties
<1>4. b \o q \in Seq(Nat)  BY <1>3, ConcatProperties
<1>5. Append(q, x) = q \o y  BY <1>1, AppendIsConcat
<1>6. Append(b \o q, x) = (b \o q) \o y  BY <1>1, <1>4, AppendIsConcat
<1>7. (b \o q) \o y = b \o (q \o y)  BY <1>3
<1>8. b \o Append(q, x) = Append(b \o q, x)  BY <1>5, <1>6, <1>7
<1> QED  BY <1>2, <1>8

\* What moves from one place to the next stays where it was among all.
LEMMA Concats ==
  ASSUME NEW a \in Seq(Nat), NEW q \in Seq(Nat), NEW x \in Nat
  PROVE  /\ Append(a, x) \o <<>> \o q = a \o <<x>> \o q
         /\ q # <<>> => a \o <<Head(q)>> \o Tail(q) = a \o <<>> \o q
<1>1. Append(a, x) \o <<>> \o q = a \o <<x>> \o q
  <2>1. Append(a, x) \in Seq(Nat) /\ Append(a, x) = a \o <<x>>  BY AppendProperties, AppendIsConcat
  <2>2. Append(a, x) \o <<>> = Append(a, x)  BY <2>1, ConcatEmptySeq
  <2> QED  BY <2>1, <2>2
<1>2. ASSUME q # <<>> PROVE a \o <<Head(q)>> \o Tail(q) = a \o <<>> \o q
  <2>1. <<Head(q)>> \in Seq(Nat) /\ Tail(q) \in Seq(Nat)  BY <1>2, HeadTailProperties
  <2>2. <<Head(q)>> \o Tail(q) = q  BY <1>2
  <2>3. (a \o <<Head(q)>>) \o Tail(q) = a \o (<<Head(q)>> \o Tail(q))  BY <2>1
  <2>4. a \o <<>> = a  BY ConcatEmptySeq
  <2> QED  BY <2>2, <2>3, <2>4
<1> QED  BY <1>1, <1>2

LEMMA NumberedAppend ==
  ASSUME NEW q \in Seq(Nat), NEW n \in Nat, Numbered(q, n)
  PROVE  Numbered(Append(q, n + 1), n + 1)
<1> DEFINE r == Append(q, n + 1)
<1>1. Len(r) = Len(q) + 1 /\ r[Len(q) + 1] = n + 1 /\ \A i \in 1..Len(q) : r[i] = q[i]
  BY AppendProperties
<1>2. Len(q) \in Nat  OBVIOUS
<1> HIDE DEF r
<1>3. \A i \in 1..Len(r) : r[i] \in 1..(n + 1)
  <2> SUFFICES ASSUME NEW i \in 1..Len(r) PROVE r[i] \in 1..(n + 1)  OBVIOUS
  <2>1. i = Len(q) + 1 \/ i \in 1..Len(q)  BY <1>1, <1>2
  <2> QED  BY <1>1, <2>1 DEF Numbered
<1>4. \A i \in 1..Len(r) - 1 : r[i] < r[i + 1]
  <2> SUFFICES ASSUME NEW i \in 1..Len(r) - 1 PROVE r[i] < r[i + 1]  OBVIOUS
  <2>0. i \in 1..Len(q) /\ r[i] = q[i]  BY <1>1, <1>2
  <2>1. CASE i = Len(q)
    <3>1. r[i + 1] = n + 1 /\ q[i] \in 1..n  BY <1>1, <2>0, <2>1 DEF Numbered
    <3> QED  BY <2>0, <3>1
  <2>2. CASE i # Len(q)
    <3>1. i \in 1..Len(q) - 1 /\ i + 1 \in 1..Len(q)  BY <1>2, <2>0, <2>2
    <3> QED  BY <1>1, <2>0, <3>1 DEF Numbered
  <2> QED  BY <2>1, <2>2
<1> QED  BY <1>3, <1>4 DEF Numbered, r

LEMMA InOrderStep == TypeOK /\ Shape /\ InOrder /\ [Next]_vars => InOrder'
<1> SUFFICES ASSUME TypeOK, Shape, InOrder, [Next]_vars PROVE InOrder'  OBVIOUS
<1>0. QueueType /\ flush.item \in Nat  BY TypeParts DEF FlushType, Flush
<1>1. console \in Seq(Nat) /\ queue \in Seq(Nat) /\ count \in Nat /\ dropped \in Nat
  BY <1>0, LoggerConstants DEF QueueType
<1>2. Pending \in Seq(Nat)
  <2>1. <<flush.item>> \in Seq(Nat) /\ <<>> \in Seq(Nat)  BY <1>0, EmptySeq
  <2> QED  BY <2>1 DEF Pending
<1>3. All \in Seq(Nat)
  <2>1. console \o Pending \in Seq(Nat)  BY <1>1, <1>2, ConcatProperties
  <2> QED  BY <1>1, <2>1, ConcatProperties DEF All
<1>4. ASSUME All' = All, UNCHANGED <<count, dropped, panic>>,
             closing' = closing /\ (closing = "done" => UNCHANGED queue /\ flush'.at = flush.at)
      PROVE  InOrder'
  BY <1>4 DEF InOrder, Numbered
<1>5. CASE Log
  <2>1. Pending' = Pending /\ console' = console /\ flush' = flush /\ closing' = closing
    BY <1>5 DEF Log, Pending
  <2>2. CASE closing # "no"
    <3>1. panic' = "log" /\ queue' = queue  BY <1>5, <2>2 DEF Log
    <3> QED  BY <2>1, <3>1 DEF InOrder
  <2>3. CASE closing = "no" /\ Len(queue) < QueueCap
    <3>1. queue' = Append(queue, count + 1) /\ dropped' = dropped /\ count' = count + 1 /\ panic' = "no"
          /\ panic = "no"
      BY <1>5, <2>3 DEF Log, Alive
    <3>2. All' = Append(All, count + 1)
      <4>1. console \o Pending \o Append(queue, count + 1) = Append(console \o Pending \o queue, count + 1)
        <5>1. PICK a : a = console  OBVIOUS
        <5>2. PICK p : p = Pending  OBVIOUS
        <5>3. PICK q : q = queue  OBVIOUS
        <5>4. PICK x : x = count + 1  OBVIOUS
        <5>5. a \in Seq(Nat) /\ p \in Seq(Nat) /\ q \in Seq(Nat) /\ x \in Nat
          BY <1>1, <1>2, <5>1, <5>2, <5>3, <5>4
        <5>6. a \o p \o Append(q, x) = Append(a \o p \o q, x)  BY <5>5, ConcatOne
        <5> QED  BY <5>1, <5>2, <5>3, <5>4, <5>6
      <4> QED  BY <2>1, <3>1, <4>1 DEF All
    <3>3. Len(All) + dropped = count /\ Numbered(All, count) /\ Len(All) \in Nat
      BY <1>3, <3>1 DEF InOrder
    <3>4. Numbered(Append(All, count + 1), count + 1)  BY <1>1, <1>3, <3>3, NumberedAppend
    <3>5. Len(Append(All, count + 1)) = Len(All) + 1  BY <1>1, <1>3, AppendProperties
    <3>6. Len(Append(All, count + 1)) + dropped = count + 1  BY <1>1, <3>3, <3>5
    <3>7. Len(All)' + dropped' = count'  BY <3>1, <3>2, <3>6, Zenon
    <3> QED  BY <2>1, <2>3, <3>1, <3>2, <3>4, <3>7 DEF InOrder
  <2>4. CASE closing = "no" /\ ~(Len(queue) < QueueCap)
    <3>1. queue' = queue /\ dropped' = dropped + 1 /\ count' = count + 1 /\ panic' = "no" /\ panic = "no"
      BY <1>5, <2>4 DEF Log, Alive
    <3>2. All' = All  BY <2>1, <3>1 DEF All
    <3>3. Len(All) + dropped = count /\ Numbered(All, count) /\ Len(All) \in Nat
      BY <1>3, <3>1 DEF InOrder
    <3>4. Numbered(All, count + 1)  BY <1>1, <3>3 DEF Numbered
    <3>5. Len(All)' + dropped' = count'
      <4>1. Len(All) + (dropped + 1) = count + 1  BY <1>1, <3>3
      <4> QED  BY <3>1, <3>2, <4>1, Zenon
    <3> QED  BY <2>1, <2>4, <3>1, <3>2, <3>4, <3>5 DEF InOrder
  <2> QED  BY <2>2, <2>3, <2>4
<1>6. CASE Take
  <2>1. flush'.at = "writing" /\ flush'.item = Head(queue) /\ Head(flush'.outs) = Stdout
    <3>1. Head(outputs) = Stdout
      <4>1. ASSUME NEW w \in 1..Writers, outputs = <<Stdout, w>> PROVE Head(outputs) = Stdout  BY <4>1
      <4>2. ASSUME outputs = <<Stdout>> PROVE Head(outputs) = Stdout  BY <4>2
      <4> QED  BY <4>1, <4>2 DEF Shape, Lone
    <3> QED  BY <1>6, <3>1, TakeEffect
  <2>2. Pending = <<>> /\ Pending' = <<Head(queue)>>  BY <1>6, <2>1 DEF Pending, Take
  <2>3. queue # <<>> /\ queue' = Tail(queue) /\ UNCHANGED <<console, count, dropped, panic, closing>>
    BY <1>6 DEF Take
  <2>4. All' = All  BY <1>1, <2>2, <2>3, Concats DEF All
  <2>5. closing # "done"  BY <2>3 DEF InOrder
  <2> QED  BY <1>4, <2>3, <2>4, <2>5
<1>7. CASE WriteConsole
  <2>1. flush.at = "writing" /\ Head(flush.outs) = Stdout /\ Wrote /\ console' = Append(console, flush.item)
        /\ UNCHANGED <<queue, count, dropped, panic, closing>>
    BY <1>7 DEF WriteConsole
  <2>2. Pending = <<flush.item>>  BY <2>1 DEF Pending
  <2>3. Pending' = <<>>
    <3>1. CASE Len(flush.outs) = 1  BY <2>1, <3>1, WroteEffect DEF Pending
    <3>2. CASE Len(flush.outs) = 2
      <4>1. PICK w \in 1..Writers : Tail(flush.outs) = <<w>>  BY <2>1, <3>2, OutsShape
      <4>2. flush'.outs = <<w>>  BY <2>1, <4>1, WroteEffect
      <4>3. Head(flush'.outs) = w  BY <4>2
      <4> QED  BY <4>3, LoggerConstants DEF Pending, Stdout
    <3> QED  BY <2>1, <3>1, <3>2, OutsShape
  <2>4. All' = All  BY <1>0, <1>1, <2>1, <2>2, <2>3, Concats DEF All
  <2> QED  BY <1>4, <2>1, <2>4 DEF InOrder
<1>8. ASSUME NEW w \in 1..Writers, WriteFile(w) PROVE InOrder'
  <2>1. flush.at = "writing" /\ Head(flush.outs) = w /\ Wrote /\ w # Stdout
        /\ UNCHANGED <<console, queue, count, dropped, panic, closing>>
    BY <1>8, LoggerConstants DEF WriteFile, Stdout
  <2>2. Len(flush.outs) = 1
    <3>1. flush.outs = <<w>>  BY <2>1, OutsShape
    <3> QED  BY <3>1
  <2>3. Pending = <<>> /\ Pending' = <<>>  BY <2>1, <2>2, WroteEffect DEF Pending
  <2> QED  BY <1>4, <2>1, <2>3 DEF InOrder, All
<1>9. CASE \/ Pick \/ EndItem \/ \E s \in Streams : Offer(s)
  <2>1. /\ flush.at \in {"offering", "sending"} /\ flush'.at \in {"offering", "sending", "idle"}
        /\ UNCHANGED <<console, queue, count, dropped, closing>> /\ panic' \in {panic, "flush"} /\ panic = "no"
    <3>1. CASE Pick  BY <3>1, PickEffect DEF Pick, Alive
    <3>2. CASE EndItem  BY <3>2 DEF EndItem, Alive, Waiting
    <3>3. ASSUME NEW s \in Streams, Offer(s)
          PROVE  /\ flush.at = "sending" /\ flush'.at = "offering" /\ panic' \in {panic, "flush"} /\ panic = "no"
                 /\ UNCHANGED <<console, queue, count, dropped, closing>>
      BY <3>3, OfferEffect DEF Offer, Alive
    <3> QED  BY <1>9, <3>1, <3>2, <3>3
  <2>2. Pending = <<>> /\ Pending' = <<>>  BY <2>1 DEF Pending
  <2>3. All' = All  BY <2>1, <2>2 DEF All
  <2> QED  BY <2>1, <2>3 DEF InOrder, Numbered
<1>10. ASSUME flush'.at = flush.at, flush'.item = flush.item, flush'.outs = flush.outs,
              UNCHANGED <<console, queue, count, dropped, panic>>,
              closing' = "done" => queue = <<>> /\ flush.at = "idle"
       PROVE  InOrder'
  <2>1. All' = All  BY <1>10 DEF All, Pending
  <2> QED  BY <1>10, <2>1 DEF InOrder, Numbered
<1>11. ASSUME NEW s \in Streams, Subscribe(s) \/ Unsubscribe(s) \/ Receive(s) PROVE InOrder'
  <2>1. CASE Subscribe(s)  BY <1>10, <2>1, SubscribeEffect DEF Subscribe, InOrder
  <2>2. CASE Unsubscribe(s)  BY <1>10, <2>2, UnsubscribeEffect DEF Unsubscribe, InOrder
  <2>3. CASE Receive(s)  BY <1>10, <2>3 DEF Receive, InOrder
  <2> QED  BY <1>11, <2>1, <2>2, <2>3
<1>12. CASE \/ CloseQueue \/ CloseOutputs \/ UNCHANGED vars
            \/ \E w \in 1..Writers, opens \in {TRUE, ~OpenFails} : Reopen(w, opens)
  BY <1>10, <1>12 DEF CloseQueue, CloseOutputs, vars, Reopen, InOrder
<1> QED  BY <1>5, <1>6, <1>7, <1>8, <1>9, <1>11, <1>12 DEF Next, FlushLoop

\* The range loop of Unsubscribe finds its channel where it is listed.
LEMMA FirstIndex ==
  ASSUME TypeOK, Listed, NEW s \in Streams, stream[s].at = "on"
  PROVE  \E i \in 1..len : SelectInSeq(array, LAMBDA x : x = s) = i /\ array[i] = s
<1> DEFINE I == {i \in 1..Len(array) : array[i] = s}
<1>1. Len(array) \in Nat /\ len \in 0..Len(array)  BY DEF TypeOK
<1>2. PICK n \in 1..len : array[n] = s  BY DEF Listed
<1>3. n \in I /\ I \subseteq Nat  BY <1>1, <1>2
<1>4. PICK m \in I : \A j \in I : ~(<<j, m>> \in OpToRel(<, Nat))
  BY <1>3, WFMin, NatLessThanWellFounded
<1>5. \A j \in I : m <= j
  <2> SUFFICES ASSUME NEW j \in I, j < m PROVE FALSE  BY <1>3
  <2>1. j \in Nat /\ m \in Nat  BY <1>3
  <2> QED  BY <1>4, <2>1 DEF OpToRel
<1>6. Min(I) \in I /\ \A j \in I : Min(I) <= j  BY <1>5 DEF Min
<1>7. SelectInSeq(array, LAMBDA x : x = s) = Min(I)  BY <1>3 DEF SelectInSeq
<1> DEFINE k == Min(I)
<1> HIDE DEF k
<1>8. k \in 1..Len(array) /\ array[k] = s /\ k <= n  BY <1>3, <1>6 DEF k
<1>9. k \in 1..len  BY <1>1, <1>8
<1> QED  BY <1>7, <1>8, <1>9 DEF k

\* Subscribe leaves the elements where they are and puts its channel behind them.
LEMMA SubscribeArray ==
  ASSUME TypeOK, NEW s \in Streams, Subscribe(s)
  PROVE  /\ \A i \in 1..len : array'[i] = array[i]
         /\ array'[len + 1] = s /\ len' = len + 1 /\ Len(array') >= Len(array)
<1>1. StreamType  BY TypeParts
<1>2. /\ Grown \in Seq(Words) /\ Len(Grown) >= len + 1 /\ \A i \in 1..len : Grown[i] = array[i]
  BY <1>1, GrownType
<1>3. len \in Nat /\ Len(Grown) \in Nat /\ len <= Len(array)  BY <1>1, <1>2 DEF StreamType
<1>4. len + 1 \in 1..Len(Grown) /\ s \in Words  BY <1>2, <1>3 DEF Words
<1>5. array' = [Grown EXCEPT ![len + 1] = s] /\ len' = len + 1  BY DEF Subscribe
<1>6. /\ Len(array') = Len(Grown)
      /\ \A j \in 1..Len(Grown) : array'[j] = IF j = len + 1 THEN s ELSE Grown[j]
  BY <1>2, <1>4, <1>5, ExceptSeq
<1>7. Len(Grown) >= Len(array)
  <2>1. CASE len < Len(array)  BY <1>1, <2>1 DEF Grown, StreamType
  <2>2. CASE ~(len < Len(array))  BY <1>1, <1>2, <2>2 DEF StreamType
  <2> QED  BY <2>1, <2>2
<1> QED  BY <1>2, <1>3, <1>4, <1>5, <1>6, <1>7

\* Entries come and go in the channels without opening or closing them.
LEMMA SameStreams ==
  ASSUME TypeOK, NEW s \in Streams, Receive(s) \/ Offer(s)
  PROVE  \A x \in Streams : stream'[x].at = stream[x].at
<1> DEFINE b == IF Len(stream[s].buf) < StreamCap THEN Append(stream[s].buf, flush.item)
                ELSE stream[s].buf
<1>1. CASE Receive(s)  BY <1>1 DEF Receive, TypeOK
<1>2. Offer(s) => stream' = stream \/ stream' = [stream EXCEPT ![s] = [@ EXCEPT !.buf = b]]
  BY DEF Offer
<1> HIDE DEF b
<1>3. CASE stream' = stream  BY <1>3
<1>4. CASE stream' = [stream EXCEPT ![s] = [@ EXCEPT !.buf = b]]
  <2>1. stream[s] \in [at : {"new", "on", "closed"}, buf : Seq(Nat)] /\ DOMAIN stream = Streams
    BY DEF TypeOK
  <2>2. [stream[s] EXCEPT !.buf = b].at = stream[s].at  BY <2>1
  <2>3. \A x \in Streams : stream'[x] = IF x = s THEN [stream[s] EXCEPT !.buf = b] ELSE stream[x]
    BY <1>4, <2>1
  <2> QED  BY <2>2, <2>3
<1> QED  BY <1>1, <1>2, <1>3, <1>4

LEMMA ListedStep == TypeOK /\ Listed /\ [Next]_vars => Listed'
<1> SUFFICES ASSUME TypeOK, Listed, [Next]_vars PROVE Listed'  OBVIOUS
<1>0. len \in Nat /\ len <= Len(array) /\ Len(array) \in Nat  BY DEF TypeOK
<1>1. ASSUME NEW s \in Streams, Subscribe(s) PROVE Listed'
  <2>1. /\ \A i \in 1..len : array'[i] = array[i]
        /\ array'[len + 1] = s /\ len' = len + 1
    BY <1>1, SubscribeArray
  <2>2. stream[s].at = "new" /\ \A x \in Streams : stream'[x].at = IF x = s THEN "on" ELSE stream[x].at
    BY <1>1 DEF Subscribe, TypeOK
  <2>3. \A i \in 1..len : array[i] # s  BY <2>2 DEF Listed
  <2>4. \A i \in 1..(len + 1) : i = len + 1 \/ i \in 1..len  BY <1>0
  <2>5. \A i \in 1..(len + 1) : array'[i] \in Streams /\ stream'[array'[i]].at = "on"
    BY <2>1, <2>2, <2>4 DEF Listed
  <2>6. \A i, j \in 1..(len + 1) : array'[i] = array'[j] => i = j
    BY <2>1, <2>3, <2>4 DEF Listed
  <2>7. \A x \in Streams : stream'[x].at = "on" => \E i \in 1..(len + 1) : array'[i] = x
    <3> SUFFICES ASSUME NEW x \in Streams, stream'[x].at = "on"
                 PROVE  \E i \in 1..(len + 1) : array'[i] = x
      OBVIOUS
    <3>1. CASE x = s  BY <1>0, <2>1, <3>1
    <3>2. CASE x # s
      <4>1. PICK i \in 1..len : array[i] = x  BY <2>2, <3>2 DEF Listed
      <4> QED  BY <1>0, <2>1, <4>1
    <3> QED  BY <3>1, <3>2
  <2> QED  BY <2>1, <2>5, <2>6, <2>7 DEF Listed
<1>2. ASSUME NEW s \in Streams, Unsubscribe(s) PROVE Listed'
  <2>1. PICK i \in 1..len : SelectInSeq(array, LAMBDA x : x = s) = i /\ array[i] = s
    BY <1>2, FirstIndex DEF Unsubscribe
  <2>2. array' = Shifted(array, len, i) /\ len' = len - 1  BY <1>2, <2>1 DEF Unsubscribe
  <2>3. \A k \in 1..len - 1 : array'[k] = IF k >= i THEN array[k + 1] ELSE array[k]
    BY <1>0, <2>2 DEF Shifted
  <2>4. \A x \in Streams : stream'[x].at = IF x = s THEN "closed" ELSE stream[x].at
    BY <1>2 DEF Unsubscribe, TypeOK
  <2> DEFINE from(k) == IF k >= i THEN k + 1 ELSE k
  <2>5. \A k \in 1..len - 1 : from(k) \in 1..len /\ from(k) # i /\ array'[k] = array[from(k)]
    BY <1>0, <2>3
  <2>6. \A k, j \in 1..len - 1 : from(k) = from(j) => k = j  BY <1>0
  <2>7. \A j \in 1..len : j # i => \E k \in 1..len - 1 : from(k) = j
    <3> SUFFICES ASSUME NEW j \in 1..len, j # i PROVE \E k \in 1..len - 1 : from(k) = j  OBVIOUS
    <3>1. CASE j < i
      <4>1. j \in 1..len - 1 /\ from(j) = j  BY <1>0, <3>1
      <4> QED  BY <4>1
    <3>2. CASE j > i
      <4>1. j - 1 \in 1..len - 1 /\ from(j - 1) = j  BY <1>0, <3>2
      <4> QED  BY <4>1
    <3> QED  BY <1>0, <3>1, <3>2
  <2> HIDE DEF from
  <2>8. \A j \in 1..len : j # i => array[j] # s  BY <2>1 DEF Listed
  <2>9. \A k \in 1..len - 1 : array'[k] \in Streams /\ stream'[array'[k]].at = "on"
    BY <2>4, <2>5, <2>8 DEF Listed
  <2>10. \A k, j \in 1..len - 1 : array'[k] = array'[j] => k = j
    BY <2>5, <2>6 DEF Listed
  <2>11. \A x \in Streams : stream'[x].at = "on" => \E k \in 1..len - 1 : array'[k] = x
    <3> SUFFICES ASSUME NEW x \in Streams, stream'[x].at = "on"
                 PROVE  \E k \in 1..len - 1 : array'[k] = x
      OBVIOUS
    <3>1. x # s /\ stream[x].at = "on"  BY <2>4
    <3>2. PICK j \in 1..len : array[j] = x  BY <3>1 DEF Listed
    <3>3. PICK k \in 1..len - 1 : from(k) = j  BY <2>1, <2>7, <3>1, <3>2
    <3> QED  BY <2>5, <3>2, <3>3
  <2> QED  BY <2>2, <2>9, <2>10, <2>11 DEF Listed
<1>3. ASSUME UNCHANGED <<array, len>>, \A x \in Streams : stream'[x].at = stream[x].at PROVE Listed'
  BY <1>3 DEF Listed
<1>4. ASSUME NEW s \in Streams, Receive(s) \/ Offer(s) PROVE Listed'
  <2>1. \A x \in Streams : stream'[x].at = stream[x].at  BY <1>4, SameStreams
  <2> QED  BY <1>3, <1>4, <2>1 DEF Receive, Offer
<1>5. CASE UNCHANGED subscription  BY <1>3, <1>5 DEF subscription
<1> QED
  BY <1>1, <1>2, <1>4, <1>5 DEF Next, vars, subscription, Log, FlushLoop, Take, WriteConsole,
     WriteFile, Pick, EndItem, Reopen, CloseQueue, CloseOutputs

LEMMA InViewStep == TypeOK /\ InView /\ Listed /\ [Next]_vars => InView'
<1> SUFFICES ASSUME TypeOK, InView, Listed, [Next]_vars PROVE InView'  OBVIOUS
<1>0. /\ len \in Nat /\ len <= Len(array) /\ Len(array) \in Nat /\ array \in Seq(Words)
      /\ flush.k \in Nat /\ Len(flush.view) \in Nat /\ flush.shared \in BOOLEAN
  BY DEF TypeOK, Flush, Words
<1>1. CASE Take
  <2>1. \A i \in 1..len : array[i] \in Words  BY <1>0
  <2>2. Len(SubSeq(array, 1, len)) = len
    <3>1. Len(SubSeq(array, 1, len)) = IF 1 <= len THEN len - 1 + 1 ELSE 0
      BY <1>0, <2>1, SubSeqProperties
    <3> QED  BY <1>0, <3>1
  <2>3. flush'.view = SubSeq(array, 1, len) /\ flush'.k = 0 /\ array' = array
    BY <1>1, TakeEffect DEF Take, subscription
  <2> QED  BY <1>0, <2>2, <2>3 DEF InView
<1>2. CASE WriteConsole \/ \E w \in 1..Writers : WriteFile(w)
  BY <1>2, WroteEffect DEF WriteConsole, WriteFile, subscription, InView
<1>3. CASE Pick  BY <1>0, <1>3, PickEffect DEF Pick, subscription, InView
<1>4. ASSUME NEW s \in Streams, Offer(s) PROVE InView'  BY <1>4, OfferEffect DEF Offer, InView
<1>5. CASE EndItem  BY <1>5 DEF EndItem, Waiting, InView
<1>6. ASSUME NEW s \in Streams, Subscribe(s) PROVE InView'
  <2>1. Len(array') >= Len(array) /\ Len(array') \in Nat
    <3>1. StreamType'  BY StreamStep
    <3> QED  BY <1>6, <3>1, SubscribeArray DEF StreamType
  <2>2. CASE flush.shared /\ len = Len(array)
    <3>1. \A i \in 1..Len(flush.view) : array[i] \in Words  BY <1>0, <2>2 DEF InView
    <3>2. Len(SubSeq(array, 1, Len(flush.view))) = IF 1 <= Len(flush.view) THEN Len(flush.view) - 1 + 1 ELSE 0
      BY <1>0, <3>1, SubSeqProperties
    <3>3. Len(SubSeq(array, 1, Len(flush.view))) = Len(flush.view)  BY <1>0, <3>2
    <3>4. ~flush'.shared /\ flush'.view = SubSeq(array, 1, Len(flush.view)) /\ flush'.k = flush.k
      BY <1>6, <2>2, SubscribeEffect
    <3> QED  BY <3>3, <3>4 DEF InView
  <2>3. CASE ~(flush.shared /\ len = Len(array))
    <3>1. flush'.shared = flush.shared /\ flush'.view = flush.view /\ flush'.k = flush.k
      BY <1>6, <2>3, SubscribeEffect
    <3> QED  BY <1>0, <2>1, <3>1 DEF InView
  <2> QED  BY <2>2, <2>3
<1>7. ASSUME NEW s \in Streams, Unsubscribe(s) PROVE InView'
  <2>1. Len(array') = Len(array)  BY <1>0, <1>7, ShiftedType DEF Unsubscribe
  <2> QED  BY <1>7, <2>1, UnsubscribeEffect DEF InView
<1>8. CASE UNCHANGED <<flush, array>>  BY <1>8 DEF InView
<1> QED
  BY <1>1, <1>2, <1>3, <1>4, <1>5, <1>6, <1>7, <1>8 DEF Next, vars, subscription, FlushLoop, Log, Receive,
     Reopen, CloseQueue, CloseOutputs

\* The copy of the slice has its elements, one for one.
LEMMA Copied ==
  ASSUME NEW n \in 0..Len(array), array \in Seq(Words)
  PROVE  Len(SubSeq(array, 1, n)) = n /\ \A i \in 1..n : SubSeq(array, 1, n)[i] = array[i]
<1>1. n \in Nat /\ n <= Len(array) /\ Len(array) \in Nat  OBVIOUS
<1>2. \A i \in 1..n : array[i] \in Words  BY <1>1
<1>3. /\ Len(SubSeq(array, 1, n)) = IF 1 <= n THEN n - 1 + 1 ELSE 0
      /\ \A i \in 1..n - 1 + 1 : SubSeq(array, 1, n)[i] = array[1 + i - 1]
  BY <1>1, <1>2, SubSeqProperties
<1>4. \A i \in 1..n : i \in 1..n - 1 + 1 /\ 1 + i - 1 = i  BY <1>1
<1>5. \A i \in 1..n : SubSeq(array, 1, n)[i] = array[i]  BY <1>3, <1>4
<1> QED  BY <1>1, <1>3, <1>5

\* A step that leaves flushLoop's sight of the subscribers and its place in it.
LEMMA SteadyKept ==
  ASSUME TypeOK, Steady, flush.at # "idle", flush'.disturbed <=> flush.disturbed,
         Len(flush'.view) = Len(flush.view), \A i \in 1..Len(flush.view) : Seen(i)' = Seen(i),
         ~flush.disturbed => (flush'.shared => Len(flush.view) <= len'),
         flush'.members = flush.members, flush'.offered = flush.offered, flush'.k = flush.k,
         flush'.sub = flush.sub, flush.k <= Len(flush.view),
         flush'.at = flush.at \/ (flush.at = "writing" /\ flush'.at \in {"writing", "offering"}),
         \A s \in Streams : stream[s].at = "on" => stream'[s].at = "on"
  PROVE  Steady'
<1> SUFFICES ASSUME ~flush.disturbed PROVE Steady'  BY DEF Steady
<1> DEFINE n == Len(flush.view)
<1>0. n \in Nat /\ flush.k \in Nat /\ flush.members \subseteq Streams  BY DEF TypeOK, Flush
<1>1. Visited \in Int /\ Visited <= n /\ Visited' = Visited  BY <1>0 DEF Visited
<1>2. (flush'.shared => Len(flush'.view) <= len') /\ Len(flush'.view) = n  OBVIOUS
<1> HIDE DEF n
<1>3. \A i \in 1..n : Seen(i)' = Seen(i)  BY DEF n
<1>4. \A i \in 1..n : Seen(i)' \in flush'.members  BY <1>3 DEF Steady, n
<1>5. \A i, j \in 1..n : Seen(i)' = Seen(j)' => i = j  BY <1>3 DEF Steady, n
<1>6. \A s \in flush'.members : stream'[s].at = "on" /\ \E i \in 1..n : Seen(i)' = s
  BY <1>0, <1>3 DEF Steady, n
<1>7. flush'.at = "writing" => flush'.k = 0  BY DEF Steady
<1>8. flush'.at = "sending" => flush'.k >= 1 /\ flush'.sub = Seen(flush.k)'
  <2> SUFFICES ASSUME flush'.at = "sending" PROVE flush'.k >= 1 /\ flush'.sub = Seen(flush.k)'  OBVIOUS
  <2>1. flush.at = "sending" /\ flush.k >= 1 /\ flush.sub = Seen(flush.k)  BY DEF Steady
  <2>2. flush.k \in 1..n  BY <1>0, <2>1 DEF n
  <2> QED  BY <1>3, <2>1, <2>2
<1>9. \A s \in Streams : flush'.offered[s] = IF \E i \in 1..Visited' : Seen(i)' = s THEN 1 ELSE 0
  <2>1. \A i \in 1..Visited : i \in 1..n  BY <1>0, <1>1
  <2>2. \A s \in Streams : (\E i \in 1..Visited' : Seen(i)' = s) <=> (\E i \in 1..Visited : Seen(i) = s)
    BY <1>1, <1>3, <2>1
  <2> QED  BY <2>2 DEF Steady
<1> QED  BY <1>2, <1>4, <1>5, <1>6, <1>7, <1>8, <1>9 DEF Steady

LEMMA SteadyStep == TypeOK /\ Listed /\ InView /\ Steady /\ [Next]_vars => Steady'
<1> SUFFICES ASSUME TypeOK, Listed, InView, Steady, [Next]_vars PROVE Steady'  OBVIOUS
<1>0. /\ len \in Nat /\ len <= Len(array) /\ Len(array) \in Nat /\ array \in Seq(Words)
      /\ flush.k \in Nat /\ Len(flush.view) \in Nat /\ flush.shared \in BOOLEAN
      /\ flush.members \subseteq Streams /\ flush.offered \in [Streams -> Nat]
  <2>1. len \in Nat /\ len <= Len(array) /\ array \in Seq(Words)  BY TypeParts DEF StreamType
  <2>2. flush \in Flush  BY TypeParts DEF FlushType
  <2>3. Len(array) \in Nat  BY <2>1, LenProperties
  <2>4. flush.view \in Seq(Words)
    <3>1. flush.view \in Seq(Streams \cup {"none"})  BY <2>2 DEF Flush
    <3> QED  BY <3>1 DEF Words
  <2>5. Len(flush.view) \in Nat  BY <2>4, LenProperties
  <2>6. /\ flush.k \in Nat /\ flush.shared \in BOOLEAN
        /\ flush.members \subseteq Streams /\ flush.offered \in [Streams -> Nat]
    BY <2>2 DEF Flush
  <2> QED  BY <2>1, <2>3, <2>5, <2>6
<1>1. CASE Take
  <2>1. Len(SubSeq(array, 1, len)) = len /\ \A i \in 1..len : SubSeq(array, 1, len)[i] = array[i]
    BY <1>0, Copied
  <2>2. /\ flush'.at = "writing" /\ flush'.view = SubSeq(array, 1, len) /\ (flush'.shared <=> len > 0)
        /\ flush'.k = 0 /\ flush'.members = {s \in Streams : stream[s].at = "on"}
        /\ flush'.offered = [s \in Streams |-> 0] /\ UNCHANGED <<array, len, stream>>
    BY <1>1, TakeEffect DEF Take, subscription
  <2>3. Len(flush'.view) = len /\ \A i \in 1..len : Seen(i)' = array[i]
    BY <2>1, <2>2 DEF Seen
  <2>4. Visited' = 0  BY <2>2 DEF Visited
  <2>5. \A i \in 1..len : Seen(i)' \in flush'.members  BY <2>2, <2>3 DEF Listed
  <2>6. \A i, j \in 1..len : Seen(i)' = Seen(j)' => i = j  BY <2>3 DEF Listed
  <2>7. \A s \in flush'.members : stream'[s].at = "on" /\ \E i \in 1..len : Seen(i)' = s
    BY <2>2, <2>3 DEF Listed
  <2>8. \A s \in Streams : flush'.offered[s] = IF \E i \in 1..Visited' : Seen(i)' = s THEN 1 ELSE 0
    BY <2>2, <2>4
  <2>9. Len(flush'.view) <= len'  BY <1>0, <2>2, <2>3
  <2> QED  BY <2>2, <2>3, <2>5, <2>6, <2>7, <2>8, <2>9 DEF Steady
<1>2. CASE WriteConsole \/ \E w \in 1..Writers : WriteFile(w)
  <2>1. flush.at = "writing" /\ Wrote /\ UNCHANGED <<array, len, stream>>
    BY <1>2 DEF WriteConsole, WriteFile, subscription
  <2>2. \A i : Seen(i)' = Seen(i)  BY <2>1, WroteEffect DEF Seen
  <2>3. flush'.at \in {"writing", "offering"}  BY <2>1, WroteEffect
  <2>4. ~flush.disturbed => (flush.shared => Len(flush.view) <= len)  BY <2>1 DEF Steady
  <2> QED  BY <2>1, <2>2, <2>3, <2>4, WroteEffect, SteadyKept DEF InView
<1>3. CASE Pick
  <2> SUFFICES ASSUME ~flush.disturbed PROVE Steady'  BY <1>3, PickEffect DEF Steady
  <2>1. /\ flush.at = "offering" /\ flush.k < Len(flush.view) /\ UNCHANGED <<array, len, stream>>
        /\ flush'.at = "sending" /\ flush'.sub = Element /\ flush'.k = flush.k + 1
        /\ flush'.view = flush.view /\ flush'.shared = flush.shared /\ flush'.members = flush.members
        /\ flush'.offered = flush.offered
    BY <1>3, PickEffect DEF Pick, subscription
  <2>2. \A i : Seen(i)' = Seen(i)  BY <2>1 DEF Seen
  <2>3. Visited' = Visited /\ flush'.k >= 1  BY <1>0, <2>1 DEF Visited
  <2>4. flush'.sub = Seen(flush.k + 1)  BY <2>1 DEF Element, Seen
  <2>5. Seen(flush.k + 1) = Seen(flush.k)'  BY <2>1 DEF Seen
  <2> QED  BY <2>1, <2>2, <2>3, <2>4, <2>5 DEF Steady
<1>4. ASSUME NEW s \in Streams, Offer(s) PROVE Steady'
  <2> SUFFICES ASSUME ~flush.disturbed PROVE Steady'  BY <1>4, OfferEffect DEF Steady
  <2>1. /\ flush.at = "sending" /\ flush.sub = s /\ UNCHANGED <<array, len>>
        /\ flush'.at = "offering" /\ flush'.k = flush.k
        /\ flush'.view = flush.view /\ flush'.shared = flush.shared /\ flush'.members = flush.members
        /\ flush'.offered = [flush.offered EXCEPT ![s] = flush.offered[s] + 1]
    BY <1>4, OfferEffect DEF Offer
  <2>2. \A i : Seen(i)' = Seen(i)  BY <2>1 DEF Seen
  <2>3. \A x \in Streams : stream'[x].at = stream[x].at  BY <1>4, SameStreams
  <2>4. flush.k >= 1 /\ s = Seen(flush.k) /\ flush.k <= Len(flush.view) /\ flush.k \in 1..Len(flush.view)
    BY <1>0, <2>1 DEF Steady, InView
  <2>5. Visited = flush.k - 1 /\ Visited' = flush.k  BY <2>1 DEF Visited
  <2>6. ~\E i \in 1..flush.k - 1 : Seen(i) = s
    <3> SUFFICES ASSUME NEW i \in 1..flush.k - 1, Seen(i) = s PROVE FALSE  OBVIOUS
    <3>1. i \in 1..Len(flush.view) /\ i # flush.k  BY <1>0, <2>4
    <3> QED  BY <2>1, <2>4, <3>1 DEF Steady
  <2>7. \A x \in Streams : flush.offered[x] = IF \E i \in 1..flush.k - 1 : Seen(i) = x THEN 1 ELSE 0
    BY <2>1, <2>5 DEF Steady
  <2>8. \A i \in 1..flush.k : i = flush.k \/ i \in 1..flush.k - 1  BY <1>0
  <2>9. \A i \in 1..flush.k - 1 : i \in 1..flush.k  BY <1>0
  <2>10. \A x \in Streams : flush'.offered[x] = IF \E i \in 1..flush.k : Seen(i) = x THEN 1 ELSE 0
    <3> SUFFICES ASSUME NEW x \in Streams
                 PROVE  flush'.offered[x] = IF \E i \in 1..flush.k : Seen(i) = x THEN 1 ELSE 0
      OBVIOUS
    <3>1. CASE x = s
      <4>1. flush'.offered[x] = flush.offered[s] + 1  BY <1>0, <2>1, <3>1
      <4>2. flush.offered[s] = 0  BY <2>6, <2>7
      <4>3. flush.k \in 1..flush.k  BY <1>0, <2>4
      <4> QED  BY <2>4, <3>1, <4>1, <4>2, <4>3
    <3>2. CASE x # s
      <4>1. flush'.offered[x] = flush.offered[x]  BY <1>0, <2>1, <3>2
      <4>2. (\E i \in 1..flush.k : Seen(i) = x) <=> (\E i \in 1..flush.k - 1 : Seen(i) = x)
        BY <2>4, <2>8, <2>9, <3>2
      <4> QED  BY <2>7, <4>1, <4>2
    <3> QED  BY <3>1, <3>2
  <2>11. \A x \in Streams : flush'.offered[x] = IF \E i \in 1..Visited' : Seen(i)' = x THEN 1 ELSE 0
    BY <2>2, <2>5, <2>10
  <2>12. \A x \in flush.members : stream'[x].at = "on" /\ \E i \in 1..Len(flush.view) : Seen(i) = x
    BY <1>0, <2>1, <2>3 DEF Steady
  <2> QED  BY <2>1, <2>2, <2>11, <2>12 DEF Steady
<1>5. CASE EndItem  BY <1>5 DEF EndItem, Waiting, Steady
<1>6. ASSUME NEW s \in Streams, Subscribe(s) PROVE Steady'
  <2> SUFFICES ASSUME flush.at # "idle", ~flush.disturbed PROVE Steady'  BY <1>6, SubscribeEffect DEF Steady
  <2> DEFINE n == Len(flush.view)
  <2>1. /\ \A i \in 1..len : array'[i] = array[i]
        /\ len' = len + 1
    BY <1>6, SubscribeArray
  <2>2. flush.shared => n <= len  BY DEF Steady
  <2>3. stream[s].at = "new" /\ \A x \in Streams : stream[x].at = "on" => stream'[x].at = "on"
    BY <1>6 DEF Subscribe, TypeOK
  <2>4. /\ Len(flush'.view) = n /\ \A i \in 1..n : Seen(i)' = Seen(i)
        /\ flush'.shared => flush.shared
    <3>1. CASE flush.shared /\ len = Len(array)
      <4>1. n \in 0..Len(array)  BY <1>0, <2>2, <3>1
      <4>2. Len(SubSeq(array, 1, n)) = n /\ \A i \in 1..n : SubSeq(array, 1, n)[i] = array[i]
        BY <1>0, <4>1, Copied
      <4>3. ~flush'.shared /\ flush'.view = SubSeq(array, 1, n)  BY <1>6, <3>1, SubscribeEffect
      <4> QED  BY <3>1, <4>2, <4>3 DEF Seen
    <3>2. CASE ~(flush.shared /\ len = Len(array))
      <4>1. flush'.shared = flush.shared /\ flush'.view = flush.view  BY <1>6, <3>2, SubscribeEffect
      <4>2. flush.shared => \A i \in 1..n : i \in 1..len  BY <1>0, <2>2
      <4> QED  BY <2>1, <4>1, <4>2 DEF Seen
    <3> QED  BY <3>1, <3>2
  <2>5. flush'.shared => n <= len'  BY <1>0, <2>1, <2>2, <2>4
  <2>6. flush.k <= n  BY DEF InView
  <2> QED  BY <1>6, <2>3, <2>4, <2>5, <2>6, SubscribeEffect, SteadyKept
<1>7. ASSUME NEW s \in Streams, Unsubscribe(s) PROVE Steady'
  BY <1>7, UnsubscribeEffect DEF Steady
<1>8. ASSUME NEW s \in Streams, Receive(s) PROVE Steady'
  <2>1. \A x \in Streams : stream'[x].at = stream[x].at  BY <1>8, SameStreams
  <2>2. UNCHANGED <<flush, array, len>>  BY <1>8 DEF Receive
  <2>3. CASE flush.at = "idle"  BY <2>2, <2>3 DEF Steady
  <2>4. CASE flush.at # "idle"
    <3>1. ~flush.disturbed => (flush.shared => Len(flush.view) <= len)  BY <2>4 DEF Steady
    <3>2. \A i : Seen(i)' = Seen(i)  BY <2>2 DEF Seen
    <3>3. flush.k <= Len(flush.view)  BY DEF InView
    <3> QED  BY <2>1, <2>2, <2>4, <3>1, <3>2, <3>3, SteadyKept
  <2> QED  BY <2>3, <2>4
<1>9. CASE UNCHANGED <<flush, array, len, stream>>  BY <1>9 DEF Steady, Seen, Visited
<1> QED
  BY <1>1, <1>2, <1>3, <1>4, <1>5, <1>6, <1>7, <1>8, <1>9 DEF Next, vars, subscription, FlushLoop, Log,
     Reopen, CloseQueue, CloseOutputs

\* An undisturbed flushLoop meets only channels that are open.
LEMMA PanicStep == TypeOK /\ Steady /\ PanicNeedsRace /\ InView /\ [Next]_vars => PanicNeedsRace'
<1> SUFFICES ASSUME TypeOK, Steady, InView, PanicNeedsRace, [Next]_vars PROVE PanicNeedsRace'  OBVIOUS
<1>1. ASSUME NEW s \in Streams, Offer(s) PROVE PanicNeedsRace'
  <2>1. flush.at = "sending" /\ flush.sub = s /\ flush'.disturbed = flush.disturbed
        /\ (stream[s].at # "closed" => panic' = panic) /\ panic = "no"
    BY <1>1, OfferEffect DEF Offer, Alive
  <2>2. CASE flush.disturbed  BY <2>1, <2>2 DEF PanicNeedsRace
  <2>3. CASE ~flush.disturbed
    <3>1. flush.k \in 1..Len(flush.view) /\ s = Seen(flush.k)
      BY <2>1, <2>3 DEF Steady, InView, TypeOK, Flush
    <3>2. stream[s].at = "on"  BY <2>1, <2>3, <3>1 DEF Steady
    <3> QED  BY <2>1, <3>2 DEF PanicNeedsRace
  <2> QED  BY <2>2, <2>3
<1>2. CASE Log  BY <1>2 DEF Log, Alive, PanicNeedsRace
<1>3. CASE UNCHANGED vars  BY <1>3 DEF vars, PanicNeedsRace
<1>4. ASSUME panic = "no", panic' = panic PROVE PanicNeedsRace'  BY <1>4 DEF PanicNeedsRace
<1> QED
  BY <1>1, <1>2, <1>3, <1>4 DEF Next, FlushLoop, Alive, Take, WriteConsole, WriteFile, Pick, EndItem,
     Subscribe, Unsubscribe, Receive, Reopen, CloseQueue, CloseOutputs
-----------------------------------------------------------------------------
\* Who is written to next, and who is an output.
LEMMA OneWriter ==
  ASSUME Shape, NEW w \in 1..Writers, NEW v \in 1..Writers
  PROVE  /\ WillWrite(w) /\ WillWrite(v) => w = v
         /\ InUse(w) /\ InUse(v) => w = v
         /\ outputs # <<w>>
<1>1. Stdout # w /\ Stdout # v  BY LoggerConstants DEF Stdout
<1>2. /\ <<Stdout, w>> = <<Stdout, v>> => w = v
      /\ <<w>> = <<v>> => w = v
      /\ <<Stdout, w>> # <<v>> /\ <<w>> # <<Stdout, v>>
  OBVIOUS
<1>3. <<Stdout>> # <<w>> /\ \A u \in 1..Writers : <<Stdout, u>> # <<w>>  BY <1>1
<1> QED  BY <1>2, <1>3 DEF WillWrite, InUse, Shape, Lone

LEMMA WrittenFile ==
  ASSUME TypeOK, Shape, InOrder, NEW w \in 1..Writers, WriteFile(w)
  PROVE  /\ WillWrite(w) /\ \A v : ~WillWrite(v)'
         /\ \A v : InUse(v)' <=> InUse(v)
         /\ closing' = closing /\ closing # "done"
<1>1. flush.at = "writing" /\ Head(flush.outs) = w /\ Wrote /\ outputs' = outputs /\ closing' = closing
  BY DEF WriteFile
<1>2. flush.outs = <<w>>  BY <1>1, OutsShape
<1>3. Len(flush.outs) = 1  BY <1>2
<1>4. flush'.at = "offering"  BY <1>1, <1>3, WroteEffect
<1> QED  BY <1>1, <1>2, <1>4 DEF WillWrite, InUse, InOrder

\* A step of anyone but a writer lets flushLoop write to a writer only if it would have done so before
\* or if it has just copied the outputs.
LEMMA WriterNext ==
  ASSUME TypeOK, Shape, NEW w \in 1..Writers,
         \/ Take \/ WriteConsole \/ Pick \/ EndItem \/ UNCHANGED <<flush, outputs>>
         \/ \E s \in Streams : Offer(s) \/ Subscribe(s) \/ Unsubscribe(s)
  PROVE  /\ WillWrite(w)' => WillWrite(w) \/ (InUse(w) /\ \A v \in 1..Writers : WillWrite(v)' => InUse(v))
         /\ InUse(w)' <=> InUse(w)
<1>1. CASE Take
  <2>1. flush'.outs = outputs /\ outputs' = outputs  BY <1>1, TakeEffect DEF Take
  <2> QED  BY <2>1, OneWriter DEF WillWrite, InUse
<1>2. CASE WriteConsole
  <2>1. flush.at = "writing" /\ Head(flush.outs) = Stdout /\ Wrote /\ outputs' = outputs
    BY <1>2 DEF WriteConsole
  <2>2. CASE Len(flush.outs) = 1  BY <2>1, <2>2, WroteEffect DEF WillWrite, InUse
  <2>3. CASE Len(flush.outs) = 2
    <3>1. PICK u \in 1..Writers : flush.outs = <<Stdout, u>> /\ Tail(flush.outs) = <<u>>
      BY <2>1, <2>3, OutsShape
    <3>2. flush'.outs = <<u>>  BY <2>1, <3>1, WroteEffect
    <3>3. <<u>> # <<Stdout, w>> /\ (<<u>> = <<w>> => u = w)  OBVIOUS
    <3> QED  BY <2>1, <3>1, <3>2, <3>3 DEF WillWrite, InUse
  <2> QED  BY <2>1, <2>2, <2>3, OutsShape
<1>3. CASE Pick  BY <1>3, PickEffect DEF Pick, WillWrite, InUse
<1>4. CASE EndItem  BY <1>4 DEF EndItem, Waiting, WillWrite, InUse
<1>5. ASSUME NEW s \in Streams, Offer(s) PROVE ~WillWrite(w)' /\ (InUse(w)' <=> InUse(w))
  BY <1>5, OfferEffect DEF Offer, WillWrite, InUse
<1>6. ASSUME NEW s \in Streams, Subscribe(s)
      PROVE  (WillWrite(w)' <=> WillWrite(w)) /\ (InUse(w)' <=> InUse(w))
  BY <1>6, SubscribeEffect DEF Subscribe, WillWrite, InUse
<1>7. ASSUME NEW s \in Streams, Unsubscribe(s)
      PROVE  (WillWrite(w)' <=> WillWrite(w)) /\ (InUse(w)' <=> InUse(w))
  BY <1>7, UnsubscribeEffect DEF Unsubscribe, WillWrite, InUse
<1>8. CASE UNCHANGED <<flush, outputs>>  BY <1>8 DEF WillWrite, InUse
<1> QED  BY <1>1, <1>2, <1>3, <1>4, <1>5, <1>6, <1>7, <1>8

\* The files after a line went out.
Longer(new, old, x) == /\ Len(new) = Len(old) + 1 /\ new[Len(old) + 1] = x
                       /\ \A i \in 1..Len(old) : new[i] = old[i]
LEMMA LongerLine ==
  ASSUME NEW q \in Seq(Nat), NEW x \in Nat
  PROVE  /\ Longer(Append(q, x), q, x)
         /\ File(Append(q, x)).there /\ File(Append(q, x)).lines = Append(q, x)
BY AppendProperties DEF Longer, File

LEMMA PlainlyEffect ==
  ASSUME TypeOK, NEW w \in 1..Writers, Plainly(w)
  PROVE  /\ writer[w].fd = "path" => path'.there /\ Longer(path'.lines, path.lines, flush.item)
         /\ writer[w].fd # "path" => path' = path
         /\ writer[w].fd = "backup" => backup'.there
         /\ writer[w].fd # "backup" => backup' = backup
         /\ writer[w].fd # "closed" => Longer(kept', kept, flush.item)
         /\ writer[w].fd = "closed" => kept' = kept
         /\ writer[w].size + 1 <= maxSize /\ split' = split /\ unmoved' = unmoved
<1>1. flush.item \in Nat /\ kept \in Seq(Nat) /\ path.lines \in Seq(Nat) /\ backup.lines \in Seq(Nat)
  BY TypeParts DEF FlushType, Flush, LogfileType, Inode
<1>2. /\ path' = IF writer[w].fd = "path" THEN File(Append(path.lines, flush.item)) ELSE path
      /\ backup' = IF writer[w].fd = "backup" THEN File(Append(backup.lines, flush.item)) ELSE backup
      /\ kept' = IF writer[w].fd = "closed" THEN kept ELSE Append(kept, flush.item)
  BY DEF Plainly, Put
<1>3. writer[w].size \in Nat /\ maxSize \in Nat
  BY TypeParts, LoggerConstants DEF LogfileType, Descriptor
<1>4. writer[w].size + 1 <= maxSize  BY <1>3 DEF Plainly, Full
<1> QED  BY <1>1, <1>2, <1>4, LongerLine DEF Plainly

LEMMA RotateEffect ==
  ASSUME TypeOK, NEW w \in 1..Writers, NEW opens \in BOOLEAN, Rotate(w, TRUE, opens)
  PROVE  /\ opens => /\ path'.there /\ Len(path'.lines) = 1 /\ path'.lines[1] = flush.item
                     /\ Longer(kept', kept, flush.item)
         /\ ~opens => path' = Missing /\ kept' = kept
         /\ backup' = IF path.there THEN path ELSE backup
<1>1. flush.item \in Nat /\ kept \in Seq(Nat) /\ path.lines \in Seq(Nat) /\ backup.lines \in Seq(Nat)
  BY TypeParts DEF FlushType, Flush, LogfileType, Inode
<1> DEFINE fds == [Moved(TRUE) EXCEPT ![w] = IF opens THEN "path" ELSE "closed"]
           p == IF opens THEN File(<<>>) ELSE Missing
           b == IF path.there THEN path ELSE backup
           n == IF opens THEN 0 ELSE writer[w].size
<1>2. fds[w] = IF opens THEN "path" ELSE "closed"  BY MovedType DEF Descriptors
<1>3. Put(w, fds, n, p, b)
  <2>1. Len(Missing.lines) = 0 /\ Missing.lines = <<>>  BY NoLines, EmptySeq
  <2> QED  BY <2>1 DEF Rotate
<1> HIDE DEF fds, n
<1>4. /\ path' = IF fds[w] = "path" THEN File(Append(p.lines, flush.item)) ELSE p
      /\ backup' = IF fds[w] = "backup" THEN File(Append(b.lines, flush.item)) ELSE b
      /\ kept' = IF fds[w] = "closed" THEN kept ELSE Append(kept, flush.item)
  BY <1>3 DEF Put
<1>5. CASE opens
  <2>1. p.lines = <<>>  BY <1>5, NoLines
  <2>2. path' = File(Append(<<>>, flush.item)) /\ backup' = b /\ kept' = Append(kept, flush.item)
    BY <1>2, <1>4, <1>5, <2>1
  <2>3. <<>> \in Seq(Nat) /\ Len(<<>>) = 0  BY EmptySeq
  <2>4. Longer(path'.lines, <<>>, flush.item) /\ path'.there  BY <1>1, <2>2, <2>3, LongerLine
  <2>5. Len(path'.lines) = 1 /\ path'.lines[1] = flush.item
    BY <2>3, <2>4 DEF Longer
  <2> QED  BY <1>1, <1>5, <2>2, <2>4, <2>5, LongerLine
<1>6. CASE ~opens  BY <1>2, <1>4, <1>6
<1> QED  BY <1>5, <1>6

\* The file could not be renamed.
LEMMA UnrotatedEffect ==
  ASSUME TypeOK, NEW w \in 1..Writers, NEW opens \in BOOLEAN, Rotate(w, FALSE, opens)
  PROVE  /\ opens => /\ path'.there /\ Longer(path'.lines, path.lines, flush.item)
                     /\ Longer(kept', kept, flush.item)
         /\ ~opens => path' = path /\ kept' = kept
         /\ backup' = backup
<1>1. flush.item \in Nat /\ kept \in Seq(Nat) /\ path.lines \in Seq(Nat)
  BY TypeParts DEF FlushType, Flush, LogfileType, Inode
<1> DEFINE fds == [Moved(FALSE) EXCEPT ![w] = IF opens THEN "path" ELSE "closed"]
           p == IF opens THEN File(path.lines) ELSE path
           n == IF opens THEN Len(path.lines) ELSE writer[w].size
<1>2. fds[w] = IF opens THEN "path" ELSE "closed"  BY UnmovedType DEF Descriptors
<1>3. p.lines = path.lines  BY DEF File
<1>4. Put(w, fds, n, p, backup)  BY DEF Rotate
<1> HIDE DEF fds, n
<1>5. /\ path' = IF fds[w] = "path" THEN File(Append(p.lines, flush.item)) ELSE p
      /\ backup' = IF fds[w] = "backup" THEN File(Append(backup.lines, flush.item)) ELSE backup
      /\ kept' = IF fds[w] = "closed" THEN kept ELSE Append(kept, flush.item)
  BY <1>4 DEF Put
<1>6. CASE opens
  <2>1. path' = File(Append(path.lines, flush.item)) /\ backup' = backup /\ kept' = Append(kept, flush.item)
    BY <1>2, <1>3, <1>5, <1>6
  <2> QED  BY <1>1, <1>6, <2>1, LongerLine
<1>7. CASE ~opens  BY <1>2, <1>5, <1>7
<1> QED  BY <1>6, <1>7

\* A restart opens the file, or fails to.
LEMMA ReopenEffect ==
  ASSUME TypeOK, Shape, NEW w \in 1..Writers, NEW opens \in BOOLEAN, Reopen(w, opens)
  PROVE  /\ writer[w].fd = "none" /\ closing = "no" /\ closing' = closing
         /\ UNCHANGED <<backup, kept, split, unmoved, flush>> /\ path'.lines = path.lines
         /\ \A v \in 1..Writers : v # w => writer'[v] = writer[v]
         /\ \A v \in 1..Writers : InUse(v)' <=> opens /\ v = w
         /\ \A v : WillWrite(v)' <=> WillWrite(v)
         /\ opens => path'.there /\ writer'[w].fd = "path" /\ writer'[w].size = Len(path.lines)
         /\ ~opens => path' = path /\ writer'[w].fd = "closed"
<1>1. LogfileType  BY TypeParts
<1>2. /\ writer[w].fd = "none" /\ closing = "no" /\ closing' = closing
      /\ UNCHANGED <<backup, kept, split, unmoved, flush>>
  BY DEF Reopen, Opened
<1>3. path.there \/ path = Missing  BY <1>1 DEF LogfileType
<1>4. path'.lines = path.lines /\ (opens => path'.there) /\ (~opens => path' = path)
  BY <1>3, NoLines DEF Reopen, Opened
<1>5. DOMAIN writer = 1..Writers /\ writer[w] \in Descriptor  BY <1>1 DEF LogfileType
<1>6. /\ \A v \in 1..Writers : v # w => writer'[v] = writer[v]
      /\ opens => writer'[w].fd = "path" /\ writer'[w].size = Len(path.lines)
      /\ ~opens => writer'[w].fd = "closed"
  <2>1. CASE opens
    <3>1. writer' = [writer EXCEPT ![w] = [fd |-> "path", size |-> Len(path.lines)]]
      BY <2>1 DEF Reopen, Opened
    <3> QED  BY <1>5, <2>1, <3>1
  <2>2. CASE ~opens
    <3>1. writer' = [writer EXCEPT ![w] = [@ EXCEPT !.fd = "closed"]]  BY <2>2 DEF Reopen
    <3> QED  BY <1>5, <2>2, <3>1 DEF Descriptor
  <2> QED  BY <2>1, <2>2
<1>7. outputs' = IF opens THEN <<Stdout, w>> ELSE <<Stdout>>  BY DEF Reopen
<1>8. \A v \in 1..Writers : InUse(v)' <=> opens /\ v = w  BY <1>7 DEF InUse
<1>9. \A v : WillWrite(v)' <=> WillWrite(v)  BY <1>2 DEF WillWrite
<1> QED  BY <1>2, <1>4, <1>6, <1>8, <1>9

LEMMA CloseOutputsEffect ==
  ASSUME TypeOK, CloseOutputs
  PROVE  /\ closing' = "done" /\ UNCHANGED <<path, backup, kept, split, unmoved>>
         /\ \A v \in 1..Writers : ~WillWrite(v)' /\ ~InUse(v)'
         /\ \A v \in 1..Writers : writer'[v].fd = "closed" \/ writer'[v] = writer[v]
<1>1. \A v \in 1..Writers : writer[v] \in Descriptor  BY TypeParts DEF LogfileType
<1>2. \A v \in 1..Writers : writer'[v] = IF v \in ToSet(outputs) THEN [writer[v] EXCEPT !.fd = "closed"]
                                         ELSE writer[v]
  BY DEF CloseOutputs
<1>3. \A v \in 1..Writers : [writer[v] EXCEPT !.fd = "closed"].fd = "closed"  BY <1>1 DEF Descriptor
<1>4. \A v \in 1..Writers : ~WillWrite(v)' /\ ~InUse(v)'  BY DEF CloseOutputs, WillWrite, InUse
<1> QED  BY <1>2, <1>3, <1>4 DEF CloseOutputs

LEMMA OpensStep == TypeOK /\ Shape /\ InOrder /\ Opens /\ [Next]_vars => Opens'
<1> SUFFICES ASSUME TypeOK, Shape, InOrder, Opens, [Next]_vars PROVE Opens'  OBVIOUS
<1> DEFINE Taken == (\E v \in 1..Writers : writer'[v].fd = "path") \/ Len(path'.lines) >= maxSize
<1>0. Len(path.lines) \in Nat /\ \A v \in 1..Writers : writer[v].size \in Nat
  <2>1. LogfileType  BY TypeParts
  <2>2. \A v \in 1..Writers : writer[v].size \in Nat  BY <2>1 DEF LogfileType, Descriptor
  <2> QED  BY <2>1, <2>2 DEF LogfileType, Inode
<1>1. ASSUME NEW w \in 1..Writers, WriteFile(w) PROVE Opens'
  <2>0. /\ WillWrite(w) /\ \A v : ~WillWrite(v)'
        /\ \A v : InUse(v)' <=> InUse(v)
        /\ closing' = closing /\ closing # "done"
    BY <1>1, WrittenFile
  <2>1. CASE Plainly(w)
    <3>1. /\ \A v \in 1..Writers : writer'[v].fd = writer[v].fd
          /\ \A v \in 1..Writers : v # w => writer'[v].size = writer[v].size
          /\ writer'[w].size = IF writer[w].fd # "closed" THEN writer[w].size + 1 ELSE writer[w].size
      BY <2>1, PlainlyType
    <3>2. /\ writer[w].fd = "path" => path'.there /\ Len(path'.lines) = Len(path.lines) + 1
          /\ writer[w].fd # "path" => path' = path
          /\ split' = split
      BY <2>1, PlainlyEffect DEF Longer
    <3>3. \A v \in 1..Writers : WillWrite(v)' \/ InUse(v)' => writer'[v].fd # "none"
      BY <2>0, <3>1 DEF Opens
    <3>4. \A v \in 1..Writers : writer'[v].fd = "path" => path'.there  BY <3>1, <3>2 DEF Opens
    <3>5. ASSUME ~split
          PROVE  /\ \A v \in 1..Writers : writer'[v].fd \in {"none", "path", "closed"}
                 /\ path'.there /\ closing' # "done" => Taken
                 /\ \A v \in 1..Writers : writer'[v].fd = "path" => writer'[v].size <= Len(path'.lines)
      <4>1. CASE writer[w].fd = "path"
        <5>1. ASSUME NEW v \in 1..Writers, writer'[v].fd = "path" PROVE writer'[v].size <= Len(path'.lines)
          <6>1. writer[v].fd = "path"  BY <3>1, <5>1
          <6>2. writer[v].size <= Len(path.lines)  BY <3>5, <6>1 DEF Opens
          <6>3. writer'[v].size = writer[v].size \/ writer'[v].size = writer[v].size + 1
            BY <3>1
          <6>4. Len(path'.lines) = Len(path.lines) + 1  BY <3>2, <4>1
          <6>5. writer[v].size \in Nat /\ Len(path.lines) \in Nat  BY <1>0
          <6> QED  BY <6>2, <6>3, <6>4, <6>5
        <5> QED  BY <3>1, <3>5, <4>1, <5>1 DEF Opens
      <4>2. CASE writer[w].fd # "path"
        <5>1. \A v \in 1..Writers : writer'[v].fd = "path" => writer'[v].size = writer[v].size
          BY <3>1, <4>2
        <5> QED  BY <2>0, <3>1, <3>2, <3>5, <4>2, <5>1 DEF Opens
      <4> QED  BY <4>1, <4>2
    <3> QED  BY <3>2, <3>3, <3>4, <3>5 DEF Opens
  <2>2. ASSUME NEW opens \in BOOLEAN, Rotate(w, TRUE, opens) PROVE Opens'
    <3>1. /\ \A v \in 1..Writers : v # w => writer'[v].fd = Moved(TRUE)[v]
          /\ writer'[w].fd = IF opens THEN "path" ELSE "closed"
          /\ opens => writer'[w].size = 1
          /\ split' <=> (split \/ \E v \in 1..Writers \ {w} : writer[v].fd = "path")
      BY <2>2, RotateType
    <3>2. opens => path'.there /\ Len(path'.lines) = 1  BY <2>2, RotateEffect
    <3>3. ~opens => ~path'.there  BY <2>2, RotateEffect, NoLines
    <3>4. /\ path.there => \A v \in 1..Writers : Moved(TRUE)[v] # "path"
          /\ ~path.there => \A v \in 1..Writers : Moved(TRUE)[v] = writer[v].fd
          /\ \A v \in 1..Writers : Moved(TRUE)[v] = "none" <=> writer[v].fd = "none"
          /\ \A v \in 1..Writers : writer[v].fd \notin {"path", "backup"} => Moved(TRUE)[v] = writer[v].fd
      BY MovedType
    <3>5. ASSUME NEW v \in 1..Writers, v # w PROVE writer'[v].fd # "path"
      <4>0. writer'[v].fd = Moved(TRUE)[v]  BY <3>1, <3>5
      <4>1. CASE path.there
        <5>1. Moved(TRUE)[v] # "path"  BY <3>4, <4>1
        <5> QED  BY <4>0, <5>1, Zenon
      <4>2. CASE ~path.there
        <5>1. writer[v].fd # "path"  BY <4>2 DEF Opens
        <5>2. Moved(TRUE)[v] = writer[v].fd  BY <3>4, <4>2
        <5> QED  BY <4>0, <5>1, <5>2, Zenon
      <4> QED  BY <4>1, <4>2
    <3>6. ASSUME NEW v \in 1..Writers, WillWrite(v)' \/ InUse(v)' PROVE writer'[v].fd # "none"
      <4>1. writer[v].fd # "none"  BY <2>0, <3>6 DEF Opens
      <4>2. Moved(TRUE)[v] # "none"  BY <3>4, <4>1
      <4>3. writer'[v].fd \in {Moved(TRUE)[v], "path", "closed"}  BY <3>1
      <4> QED  BY <4>2, <4>3
    <3>7. \A v \in 1..Writers : writer'[v].fd = "path" => path'.there  BY <3>1, <3>2, <3>5
    <3>8. ASSUME ~split'
          PROVE  /\ \A v \in 1..Writers : writer'[v].fd \in {"none", "path", "closed"}
                 /\ path'.there /\ closing' # "done" => Taken
                 /\ \A v \in 1..Writers : writer'[v].fd = "path" => writer'[v].size <= Len(path'.lines)
      <4>1. ~split /\ \A v \in 1..Writers : v # w => writer[v].fd # "path"  BY <3>1, <3>8
      <4>2. \A v \in 1..Writers : v # w => writer'[v].fd \in {"none", "closed"}
        BY <3>1, <3>4, <4>1 DEF Opens
      <4>3. \A v \in 1..Writers : writer'[v].fd = "path" => v = w /\ opens  BY <3>1, <3>5
      <4>4. \A v \in 1..Writers : writer'[v].fd \in {"none", "path", "closed"}  BY <3>1, <4>2
      <4>5. CASE opens
        <5>0. writer'[w].size = 1 /\ Len(path'.lines) = 1  BY <3>1, <3>2, <4>5, Zenon
        <5>1. writer'[w].size <= Len(path'.lines)  BY <5>0
        <5> QED  BY <3>1, <4>3, <4>4, <4>5, <5>1
      <4>6. CASE ~opens  BY <3>3, <4>3, <4>4, <4>6
      <4> QED  BY <4>5, <4>6
    <3> QED  BY <3>6, <3>7, <3>8 DEF Opens
  <2>3. ASSUME NEW opens \in BOOLEAN, Full(w), Rotate(w, FALSE, opens) PROVE Opens'
    <3>1. /\ \A v \in 1..Writers : v # w => writer'[v].fd = writer[v].fd /\ writer'[v].size = writer[v].size
          /\ writer'[w].fd = IF opens THEN "path" ELSE "closed"
          /\ opens => writer'[w].size = Len(path.lines) + 1
          /\ split' = split
      BY <2>3, UnrotatedType
    <3>2. /\ opens => path'.there /\ Len(path'.lines) = Len(path.lines) + 1
          /\ ~opens => path' = path
      BY <2>3, UnrotatedEffect DEF Longer
    <3>3. \A v \in 1..Writers : WillWrite(v)' \/ InUse(v)' => writer'[v].fd # "none"
      BY <2>0, <3>1 DEF Opens
    <3>4. \A v \in 1..Writers : writer'[v].fd = "path" => path'.there  BY <3>1, <3>2 DEF Opens
    <3>5. ASSUME ~split
          PROVE  /\ \A v \in 1..Writers : writer'[v].fd \in {"none", "path", "closed"}
                 /\ path'.there /\ closing' # "done" => Taken
                 /\ \A v \in 1..Writers : writer'[v].fd = "path" => writer'[v].size <= Len(path'.lines)
      <4>1. \A v \in 1..Writers : writer'[v].fd \in {"none", "path", "closed"}  BY <3>1, <3>5 DEF Opens
      <4>2. CASE opens
        <5>1. Len(path'.lines) = Len(path.lines) + 1 /\ writer'[w].size = Len(path.lines) + 1
          BY <3>1, <3>2, <4>2, Zenon
        <5>2. writer'[w].fd = "path"  BY <3>1, <4>2
        <5>3. ASSUME NEW v \in 1..Writers, writer'[v].fd = "path" PROVE writer'[v].size <= Len(path'.lines)
          <6>1. CASE v = w  BY <1>0, <5>1, <6>1
          <6>2. CASE v # w
            <7>1. writer[v].size <= Len(path.lines) /\ writer'[v].size = writer[v].size
              BY <3>1, <3>5, <5>3, <6>2 DEF Opens
            <7>2. writer[v].size \in Nat /\ Len(path.lines) \in Nat  BY <1>0
            <7> QED  BY <5>1, <7>1, <7>2
          <6> QED  BY <6>1, <6>2
        <5> QED  BY <4>1, <5>2, <5>3
      <4>3. CASE ~opens
        <5>1. path' = path  BY <3>2, <4>3, Zenon
        <5>2. \A v \in 1..Writers : writer'[v].fd = "path" => v # w  BY <3>1, <4>3
        <5>3. \A v \in 1..Writers : writer'[v].fd = "path" => writer'[v].size <= Len(path'.lines)
          BY <3>1, <3>5, <5>1, <5>2 DEF Opens
        <5>4. path.there => (\E v \in 1..Writers : writer[v].fd = "path") \/ Len(path.lines) >= maxSize
          BY <2>0, <3>5 DEF Opens
        <5>5. CASE writer[w].fd = "path"
          <6>1. writer[w].size <= Len(path.lines)  BY <3>5, <5>5 DEF Opens
          <6>2. writer[w].size \in Nat /\ Len(path.lines) \in Nat /\ maxSize \in Nat  BY <1>0, LoggerConstants
          <6>3. writer[w].size + 1 > maxSize  BY <2>3 DEF Full
          <6>4. Len(path.lines) >= maxSize  BY <6>1, <6>2, <6>3
          <6> QED  BY <4>1, <5>1, <5>3, <6>4
        <5>6. CASE writer[w].fd # "path"
          <6>1. \A v \in 1..Writers : writer[v].fd = "path" => writer'[v].fd = "path"  BY <3>1, <5>6
          <6>2. path.there => Taken  BY <5>1, <5>4, <6>1
          <6> QED  BY <4>1, <5>1, <5>3, <6>2
        <5> QED  BY <5>5, <5>6
      <4> QED  BY <4>2, <4>3
    <3> QED  BY <3>1, <3>3, <3>4, <3>5 DEF Opens
  <2> QED  BY <1>1, <2>1, <2>2, <2>3, WriteFileCases
<1>2. ASSUME NEW w \in 1..Writers, NEW opens \in BOOLEAN, Reopen(w, opens) PROVE Opens'
  <2>1. /\ writer[w].fd = "none" /\ closing = "no" /\ closing' = closing /\ split' = split
        /\ path'.lines = path.lines
        /\ \A v \in 1..Writers : v # w => writer'[v] = writer[v]
        /\ \A v \in 1..Writers : InUse(v)' <=> opens /\ v = w
        /\ \A v : WillWrite(v)' <=> WillWrite(v)
        /\ opens => path'.there /\ writer'[w].fd = "path" /\ writer'[w].size = Len(path.lines)
        /\ ~opens => path' = path /\ writer'[w].fd = "closed"
    BY <1>2, ReopenEffect
  <2>2. \A v \in 1..Writers : WillWrite(v)' \/ InUse(v)' => writer'[v].fd # "none"
    BY <2>1 DEF Opens
  <2>3. \A v \in 1..Writers : writer'[v].fd = "path" => path'.there  BY <2>1 DEF Opens
  <2>4. ASSUME ~split
        PROVE  /\ \A v \in 1..Writers : writer'[v].fd \in {"none", "path", "closed"}
               /\ path'.there /\ closing' # "done" => Taken
               /\ \A v \in 1..Writers : writer'[v].fd = "path" => writer'[v].size <= Len(path'.lines)
    <3>1. \A v \in 1..Writers : writer'[v].fd \in {"none", "path", "closed"}  BY <2>1, <2>4 DEF Opens
    <3>2. path'.there => Taken
      <4>1. CASE opens  BY <2>1, <4>1
      <4>2. CASE ~opens
        <5>1. path'.there => (\E v \in 1..Writers : writer[v].fd = "path") \/ Len(path.lines) >= maxSize
          BY <2>1, <2>4, <4>2 DEF Opens
        <5>2. \A v \in 1..Writers : writer[v].fd = "path" => writer'[v].fd = "path"  BY <2>1
        <5>3. path'.lines = path.lines  BY <2>1
        <5> QED  BY <5>1, <5>2, <5>3
      <4> QED  BY <4>1, <4>2
    <3>3. \A v \in 1..Writers : writer'[v].fd = "path" => writer'[v].size <= Len(path'.lines)
      BY <1>0, <2>1, <2>4 DEF Opens
    <3> QED  BY <3>1, <3>2, <3>3
  <2> QED  BY <2>1, <2>2, <2>3, <2>4 DEF Opens
<1>3. CASE CloseOutputs
  <2>1. /\ closing' = "done" /\ UNCHANGED <<path, split>>
        /\ \A v \in 1..Writers : ~WillWrite(v)' /\ ~InUse(v)'
        /\ \A v \in 1..Writers : writer'[v].fd = "closed" \/ writer'[v] = writer[v]
    BY <1>3, CloseOutputsEffect
  <2> QED  BY <2>1 DEF Opens
<1>4. ASSUME UNCHANGED logfile, closing = "done" => closing' = "done",
             \/ Take \/ WriteConsole \/ Pick \/ EndItem \/ UNCHANGED <<flush, outputs>>
             \/ \E s \in Streams : Offer(s) \/ Subscribe(s) \/ Unsubscribe(s)
      PROVE  Opens'
  <2>1. \A w \in 1..Writers : WillWrite(w)' \/ InUse(w)' => WillWrite(w) \/ InUse(w)
    BY <1>4, WriterNext
  <2>2. UNCHANGED <<path, writer, split>>  BY <1>4 DEF logfile
  <2>3. \A w \in 1..Writers : WillWrite(w)' \/ InUse(w)' => writer'[w].fd # "none"
    BY <2>1, <2>2 DEF Opens
  <2>4. closing' # "done" => closing # "done"  BY <1>4
  <2> QED  BY <2>2, <2>3, <2>4 DEF Opens
<1> QED
  <2>1. \A opens \in {TRUE, ~OpenFails} : opens \in BOOLEAN  BY LoggerConstants
  <2>2. CASE UNCHANGED vars  BY <1>4, <2>2 DEF vars, logfile
  <2>3. CASE CloseQueue \/ Log  BY <1>4, <2>3 DEF CloseQueue, Log
  <2>4. CASE \E s \in Streams : Receive(s)  BY <1>4, <2>4 DEF Receive
  <2>5. CASE Take \/ WriteConsole \/ Pick \/ EndItem
    BY <1>4, <2>5 DEF Take, WriteConsole, Pick, EndItem
  <2>6. CASE \E s \in Streams : Offer(s)  BY <1>4, <2>6 DEF Offer
  <2>7. CASE \E s \in Streams : Subscribe(s)  BY <1>4, <2>7 DEF Subscribe
  <2>8. CASE \E s \in Streams : Unsubscribe(s)  BY <1>4, <2>8 DEF Unsubscribe
  <2> QED  BY <1>1, <1>2, <1>3, <2>1, <2>2, <2>3, <2>4, <2>5, <2>6, <2>7, <2>8 DEF Next, FlushLoop

LEMMA NearStep == TypeOK /\ Shape /\ InOrder /\ Opens /\ Near /\ [Next]_vars => Near'
<1> SUFFICES ASSUME TypeOK, Shape, InOrder, Opens, Near, [Next]_vars PROVE Near'  OBVIOUS
<1>0. /\ Len(path.lines) \in Nat /\ unmoved \in Nat
      /\ \A v \in 1..Writers : writer[v].size \in Nat
  <2>1. LogfileType  BY TypeParts
  <2>2. \A v \in 1..Writers : writer[v].size \in Nat  BY <2>1 DEF LogfileType, Descriptor
  <2> QED  BY <2>1, <2>2 DEF LogfileType, Inode
<1>1. Slack \in 0..1 /\ maxSize \in Nat /\ maxSize >= 1  BY LoggerConstants DEF Slack
<1>2. \A v, w \in 1..Writers : v # w => Slack = 1  BY LoggerConstants DEF Slack
<1>3. ASSUME NEW w \in 1..Writers, WriteFile(w) PROVE Near'
  <2>0. /\ WillWrite(w) /\ \A v : ~WillWrite(v)'
        /\ \A v : InUse(v)' <=> InUse(v)
    BY <1>3, WrittenFile
  <2>1. CASE Plainly(w)
    <3>1. /\ \A v \in 1..Writers : writer'[v].fd = writer[v].fd
          /\ \A v \in 1..Writers : v # w => writer'[v].size = writer[v].size
          /\ writer'[w].size = IF writer[w].fd # "closed" THEN writer[w].size + 1 ELSE writer[w].size
      BY <2>1, PlainlyType
    <3>2. /\ writer[w].fd = "path" => Len(path'.lines) = Len(path.lines) + 1
          /\ writer[w].fd # "path" => path' = path
          /\ writer[w].size + 1 <= maxSize /\ unmoved' = unmoved
      BY <2>1, PlainlyEffect DEF Longer
    <3>3. CASE writer[w].fd # "path"
      <4>1. \A v \in 1..Writers : writer'[v].fd = "path" => v # w /\ writer[v].fd = "path"
        BY <3>1, <3>3
      <4>2. path' = path /\ unmoved' = unmoved  BY <3>2, <3>3
      <4> QED  BY <2>0, <3>1, <4>1, <4>2 DEF Near, Slack
    <3>4. CASE writer[w].fd = "path"
      <4>1. Len(path.lines) <= writer[w].size + Slack  BY <2>0, <3>4 DEF Near
      <4>2. Len(path'.lines) = Len(path.lines) + 1  BY <3>2, <3>4
      <4>3. writer'[w].size = writer[w].size + 1  BY <3>1, <3>4
      <4>4. Len(path'.lines) <= maxSize + Slack + unmoved'  BY <1>0, <1>1, <3>2, <4>1, <4>2
      <4>5. ASSUME NEW v \in 1..Writers, InUse(v), writer[v].fd = "path"
            PROVE  Len(path'.lines) <= writer'[v].size + Slack
        <5>1. CASE v = w
          <6>1. Len(path.lines) \in Nat /\ writer[w].size \in Nat /\ Slack \in Nat  BY <1>0, <1>1
          <6>2. Len(path.lines) + 1 <= (writer[w].size + 1) + Slack  BY <4>1, <6>1
          <6>3. Len(path'.lines) <= writer'[w].size + Slack  BY <4>2, <4>3, <6>2, Zenon
          <6> QED  BY <5>1, <6>3
        <5>2. CASE v # w
          <6>1. Len(path.lines) <= writer[v].size  BY <2>0, <4>5, <5>2 DEF Near
          <6>2. writer'[v].size = writer[v].size /\ Slack = 1  BY <1>2, <3>1, <5>2
          <6> QED  BY <1>0, <4>2, <6>1, <6>2
        <5> QED  BY <5>1, <5>2
      <4> QED  BY <2>0, <3>1, <4>4, <4>5 DEF Near, Slack
    <3> QED  BY <3>3, <3>4
  <2>2. ASSUME NEW opens \in BOOLEAN, Rotate(w, TRUE, opens) PROVE Near'
    <3>1. /\ \A v \in 1..Writers : v # w => writer'[v].fd = Moved(TRUE)[v]
          /\ ~opens => writer'[w].fd = "closed"
          /\ opens => writer'[w].size = 1
          /\ unmoved' = 0
      BY <2>2, RotateType
    <3>2. \A v \in 1..Writers : Moved(TRUE)[v] # "path"  BY MovedType DEF Opens
    <3>3. opens => Len(path'.lines) = 1  BY <2>2, RotateEffect
    <3>4. ~opens => Len(path'.lines) = 0
      <4>1. ~opens => path'.lines = <<>>  BY <2>2, RotateEffect, NoLines
      <4> QED  BY <4>1, EmptySeq
    <3>5. \A v \in 1..Writers : writer'[v].fd = "path" => v = w /\ opens  BY <3>1, <3>2
    <3>6. Len(path'.lines) <= maxSize + Slack + unmoved'
      <4>1. Len(path'.lines) = 1 \/ Len(path'.lines) = 0  BY <3>3, <3>4, Zenon
      <4>2. unmoved' = 0 /\ Slack' = Slack  BY <3>1 DEF Slack
      <4>3. 0 <= maxSize + Slack + 0 /\ 1 <= maxSize + Slack + 0  BY <1>1
      <4> QED  BY <4>1, <4>2, <4>3
    <3>7. ASSUME opens PROVE Len(path'.lines) <= writer'[w].size + Slack
      <4>1. Len(path'.lines) = 1 /\ writer'[w].size = 1  BY <3>1, <3>3, <3>7, Zenon
      <4> QED  BY <1>1, <4>1
    <3> QED  BY <2>0, <3>5, <3>6, <3>7 DEF Near, Slack
  <2>3. ASSUME NEW opens \in BOOLEAN, Rotate(w, FALSE, opens) PROVE Near'
    <3>1. /\ \A v \in 1..Writers : v # w => writer'[v].fd = writer[v].fd /\ writer'[v].size = writer[v].size
          /\ writer'[w].fd = IF opens THEN "path" ELSE "closed"
          /\ opens => writer'[w].size = Len(path.lines) + 1
          /\ unmoved' = unmoved + 1
      BY <2>3, UnrotatedType
    <3>2. /\ opens => Len(path'.lines) = Len(path.lines) + 1
          /\ ~opens => path' = path
      BY <2>3, UnrotatedEffect DEF Longer
    <3>3. Len(path'.lines) = Len(path.lines) + 1 \/ Len(path'.lines) = Len(path.lines)  BY <3>2, Zenon
    <3>4. Len(path'.lines) <= maxSize + Slack + unmoved'
      <4>1. Len(path.lines) <= maxSize + Slack + unmoved  BY DEF Near
      <4>2. unmoved' = unmoved + 1  BY <3>1
      <4> QED  BY <1>0, <1>1, <3>3, <4>1, <4>2
    <3>5. ASSUME NEW v \in 1..Writers, InUse(v), writer'[v].fd = "path"
          PROVE  Len(path'.lines) <= writer'[v].size + Slack
      <4>1. CASE v = w
        <5>1. opens  BY <3>1, <3>5, <4>1
        <5>2. Len(path'.lines) = Len(path.lines) + 1 /\ writer'[w].size = Len(path.lines) + 1
          BY <3>1, <3>2, <5>1, Zenon
        <5> QED  BY <1>0, <1>1, <4>1, <5>2
      <4>2. CASE v # w
        <5>1. writer[v].fd = "path" /\ writer'[v].size = writer[v].size  BY <3>1, <3>5, <4>2
        <5>2. Len(path.lines) <= writer[v].size  BY <2>0, <3>5, <4>2, <5>1 DEF Near
        <5> QED  BY <1>0, <1>2, <3>3, <4>2, <5>1, <5>2
      <4> QED  BY <4>1, <4>2
    <3> QED  BY <2>0, <3>4, <3>5 DEF Near, Slack
  <2> QED  BY <1>3, <2>1, <2>2, <2>3, WriteFileCases
<1>4. ASSUME NEW w \in 1..Writers, NEW opens \in BOOLEAN, Reopen(w, opens) PROVE Near'
  <2>1. /\ writer[w].fd = "none" /\ path'.lines = path.lines /\ unmoved' = unmoved
        /\ \A v \in 1..Writers : v # w => writer'[v] = writer[v]
        /\ \A v \in 1..Writers : InUse(v)' <=> opens /\ v = w
        /\ \A v : WillWrite(v)' <=> WillWrite(v)
        /\ opens => writer'[w].size = Len(path.lines)
    BY <1>4, ReopenEffect
  <2>2. ~WillWrite(w)  BY <2>1 DEF Opens
  <2>3. \A v \in 1..Writers : /\ WillWrite(v)' \/ InUse(v)'
                              /\ writer'[v].fd = "path"
                              => Len(path'.lines) <= writer'[v].size + Slack
    <3> SUFFICES ASSUME NEW v \in 1..Writers, WillWrite(v)' \/ InUse(v)', writer'[v].fd = "path"
                 PROVE  Len(path.lines) <= writer'[v].size + Slack
      BY <2>1
    <3>1. CASE v = w
      <4>1. opens  BY <2>1, <2>2, <3>1
      <4> QED  BY <1>0, <1>1, <2>1, <3>1, <4>1
    <3>2. CASE v # w  BY <2>1, <3>2 DEF Near
    <3> QED  BY <3>1, <3>2
  <2>4. \A u, v \in 1..Writers : InUse(u)' => Len(path'.lines) <= writer'[u].size
    BY <1>0, <2>1
  <2> QED  BY <2>1, <2>3, <2>4 DEF Near, Slack
<1>5. CASE CloseOutputs
  <2>1. path' = path /\ unmoved' = unmoved /\ \A v \in 1..Writers : ~WillWrite(v)' /\ ~InUse(v)'
    BY <1>5, CloseOutputsEffect
  <2> QED  BY <2>1 DEF Near, Slack
<1>6. ASSUME UNCHANGED logfile,
             \/ Take \/ WriteConsole \/ Pick \/ EndItem \/ UNCHANGED <<flush, outputs>>
             \/ \E s \in Streams : Offer(s) \/ Subscribe(s) \/ Unsubscribe(s)
      PROVE  Near'
  <2>1. \A w \in 1..Writers :
          /\ WillWrite(w)' => WillWrite(w) \/ (InUse(w) /\ \A v \in 1..Writers : WillWrite(v)' => InUse(v))
          /\ InUse(w)' <=> InUse(w)
    BY <1>6, WriterNext
  <2>2. UNCHANGED <<path, writer, unmoved>>  BY <1>6 DEF logfile
  <2>3. \A w \in 1..Writers : WillWrite(w)' \/ InUse(w)' => WillWrite(w) \/ InUse(w)  BY <2>1
  <2>4. \A w, v \in 1..Writers : InUse(w)' /\ WillWrite(v)' /\ v # w => InUse(w) /\ WillWrite(v)
    BY <2>1, OneWriter
  <2> QED  BY <2>2, <2>3, <2>4 DEF Near, Slack
<1> QED
  <2>1. \A opens \in {TRUE, ~OpenFails} : opens \in BOOLEAN  BY LoggerConstants
  <2>2. CASE UNCHANGED vars  BY <1>6, <2>2 DEF vars, logfile
  <2>3. CASE CloseQueue \/ Log  BY <1>6, <2>3 DEF CloseQueue, Log
  <2>4. CASE \E s \in Streams : Receive(s)  BY <1>6, <2>4 DEF Receive
  <2>5. CASE Take \/ WriteConsole \/ Pick \/ EndItem
    BY <1>6, <2>5 DEF Take, WriteConsole, Pick, EndItem
  <2>6. CASE \E s \in Streams : Offer(s)  BY <1>6, <2>6 DEF Offer
  <2>7. CASE \E s \in Streams : Subscribe(s)  BY <1>6, <2>7 DEF Subscribe
  <2>8. CASE \E s \in Streams : Unsubscribe(s)  BY <1>6, <2>8 DEF Unsubscribe
  <2> QED  BY <1>3, <1>4, <1>5, <2>1, <2>2, <2>3, <2>4, <2>5, <2>6, <2>7, <2>8 DEF Next, FlushLoop

\* A line that goes to the end of the file goes to the end of what was written.
LEMMA EndsLonger ==
  ASSUME NEW k \in Seq(Nat), NEW p \in Seq(Nat), NEW b \in Seq(Nat), NEW k2 \in Seq(Nat),
         NEW p2 \in Seq(Nat), NEW x \in Nat, Ends(k, p, b), Longer(k2, k, x), Longer(p2, p, x)
  PROVE  Ends(k2, p2, b)
<1>1. /\ Len(k) \in Nat /\ Len(p) \in Nat /\ Len(b) \in Nat /\ maxSize \in Nat
      /\ Len(k2) = Len(k) + 1 /\ Len(p2) = Len(p) + 1
  BY LoggerConstants DEF Longer
<1> DEFINE K == Len(k)
           P == Len(p)
           B == Len(b)
<1>2. K \in Nat /\ P \in Nat /\ B \in Nat /\ Len(k2) = K + 1 /\ Len(p2) = P + 1  BY <1>1
<1>3. P + B <= K /\ (P + B >= maxSize \/ P + B = K)  BY DEF Ends
<1>4. /\ k2[K + 1] = x /\ \A i \in 1..K : k2[i] = k[i]
      /\ p2[P + 1] = x /\ \A i \in 1..P : p2[i] = p[i]
  BY DEF Longer
<1>5. (\A i \in 1..P : p[i] = k[K - P + i]) /\ \A i \in 1..B : b[i] = k[K - P - B + i]  BY DEF Ends
<1> HIDE DEF K, P, B
<1>6. \A i \in 1..(P + 1) : p2[i] = k2[(K + 1) - (P + 1) + i]
  <2> SUFFICES ASSUME NEW i \in 1..(P + 1) PROVE p2[i] = k2[(K + 1) - (P + 1) + i]  OBVIOUS
  <2>1. CASE i = P + 1
    <3>1. (K + 1) - (P + 1) + i = K + 1  BY <1>2, <2>1
    <3> QED  BY <1>4, <2>1, <3>1
  <2>2. CASE i # P + 1
    <3>1. i \in 1..P /\ (K + 1) - (P + 1) + i = K - P + i /\ K - P + i \in 1..K
      BY <1>2, <1>3, <2>2
    <3> QED  BY <1>4, <1>5, <3>1
  <2> QED  BY <2>1, <2>2
<1>7. \A i \in 1..B : b[i] = k2[(K + 1) - (P + 1) - B + i]
  <2> SUFFICES ASSUME NEW i \in 1..B PROVE b[i] = k2[(K + 1) - (P + 1) - B + i]  OBVIOUS
  <2>1. (K + 1) - (P + 1) - B + i = K - P - B + i /\ K - P - B + i \in 1..K  BY <1>2, <1>3
  <2> QED  BY <1>4, <1>5, <2>1
<1>8. (P + 1) + B <= K + 1 /\ ((P + 1) + B >= maxSize \/ (P + 1) + B = K + 1)  BY <1>1, <1>2, <1>3
<1>9. Len(k2) = K + 1 /\ Len(p2) = P + 1 /\ Len(b) = B  BY <1>2 DEF B
<1> QED  BY <1>6, <1>7, <1>8, <1>9 DEF Ends

\* A full file that becomes the backup is the end of what was written, and the old backup is not missed.
LEMMA EndsMoved ==
  ASSUME NEW k \in Seq(Nat), NEW p \in Seq(Nat), NEW b \in Seq(Nat), NEW e \in Seq(Nat),
         Ends(k, p, b), Len(p) >= maxSize, Len(e) = 0
  PROVE  Ends(k, e, p)
<1>1. Len(k) \in Nat /\ Len(p) \in Nat /\ Len(b) \in Nat /\ maxSize \in Nat  BY LoggerConstants
<1>2. Len(e) + Len(p) <= Len(k)  BY <1>1 DEF Ends
<1>3. Len(e) + Len(p) >= maxSize  BY <1>1
<1>4. \A i \in 1..Len(p) : p[i] = k[Len(k) - Len(e) - Len(p) + i]
  <2> SUFFICES ASSUME NEW i \in 1..Len(p) PROVE p[i] = k[Len(k) - Len(e) - Len(p) + i]  OBVIOUS
  <2>1. Len(k) - Len(e) - Len(p) + i = Len(k) - Len(p) + i  BY <1>1
  <2> QED  BY <2>1 DEF Ends
<1>5. \A i \in 1..Len(e) : e[i] = k[Len(k) - Len(e) + i]  OBVIOUS
<1> QED  BY <1>2, <1>3, <1>4, <1>5 DEF Ends

LEMMA NewestStep == TypeOK /\ Shape /\ InOrder /\ Opens /\ Newest /\ [Next]_vars => Newest'
<1> SUFFICES ASSUME TypeOK, Shape, InOrder, Opens, Newest, [Next]_vars PROVE Newest'  OBVIOUS
<1>0. /\ kept \in Seq(Nat) /\ path.lines \in Seq(Nat) /\ backup.lines \in Seq(Nat) /\ flush.item \in Nat
      /\ (~path.there => path = Missing) /\ Len(path.lines) \in Nat /\ maxSize \in Nat
  <2>1. LogfileType /\ flush.item \in Nat  BY TypeParts DEF FlushType, Flush
  <2> QED  BY <2>1, LoggerConstants DEF LogfileType, Inode
<1>1. /\ kept' \in Seq(Nat) /\ path'.lines \in Seq(Nat) /\ backup'.lines \in Seq(Nat)
  BY LogfileStep DEF LogfileType, Inode
<1>2. ASSUME NEW w \in 1..Writers, WriteFile(w) PROVE Newest'
  <2>0. WillWrite(w) /\ closing # "done"  BY <1>2, WrittenFile
  <2>1. CASE Plainly(w)
    <3>1. /\ writer[w].fd = "path" => Longer(path'.lines, path.lines, flush.item)
          /\ writer[w].fd # "path" => path' = path
          /\ writer[w].fd # "backup" => backup' = backup
          /\ writer[w].fd # "closed" => Longer(kept', kept, flush.item)
          /\ writer[w].fd = "closed" => kept' = kept
          /\ split' = split
      BY <2>1, PlainlyEffect
    <3> SUFFICES ASSUME ~split PROVE Newest'  BY <3>1 DEF Newest
    <3>2. writer[w].fd \in {"path", "closed"}  BY <2>0 DEF Opens
    <3>3. CASE writer[w].fd = "path"
      <4>1. Longer(path'.lines, path.lines, flush.item) /\ Longer(kept', kept, flush.item)
            /\ backup' = backup
        BY <3>1, <3>3
      <4>2. Ends(kept, path.lines, backup.lines)  BY DEF Newest
      <4>3. Ends(kept', path'.lines, backup.lines)  BY <1>0, <1>1, <4>1, <4>2, EndsLonger
      <4> QED  BY <4>1, <4>3 DEF Newest, Ends
    <3>4. CASE writer[w].fd = "closed"  BY <3>1, <3>4 DEF Newest, Ends
    <3> QED  BY <3>2, <3>3, <3>4
  <2>2. ASSUME NEW opens \in BOOLEAN, Full(w), Rotate(w, TRUE, opens) PROVE Newest'
    <3> SUFFICES ASSUME ~split' PROVE Newest'  BY DEF Newest
    <3>1. ~split /\ \A v \in 1..Writers : v # w => writer[v].fd # "path"  BY <2>2, RotateType
    <3>2. Ends(kept, path.lines, backup.lines)  BY <3>1 DEF Newest
    <3>3. backup' = IF path.there THEN path ELSE backup  BY <2>2, RotateEffect
    <3>4. opens => Len(path'.lines) = 1 /\ path'.lines[1] = flush.item /\ Longer(kept', kept, flush.item)
      BY <2>2, RotateEffect
    <3>5. ~opens => path'.lines = <<>> /\ kept' = kept  BY <2>2, RotateEffect, NoLines
    <3>6. <<>> \in Seq(Nat) /\ Len(<<>>) = 0  BY EmptySeq
    <3>7. Ends(kept, <<>>, backup'.lines)
      <4>1. CASE path.there
        <5>1. writer[w].fd = "path" \/ Len(path.lines) >= maxSize  BY <2>0, <3>1, <4>1 DEF Opens
        <5>2. writer[w].fd = "path" => writer[w].size <= Len(path.lines)  BY <3>1 DEF Opens
        <5>3. writer[w].size \in Nat  BY TypeParts DEF LogfileType, Descriptor
        <5>4. Len(path.lines) >= maxSize
          <6>1. writer[w].size + 1 > maxSize  BY <2>2 DEF Full
          <6> QED  BY <1>0, <5>1, <5>2, <5>3, <6>1
        <5>5. Ends(kept, <<>>, path.lines)  BY <1>0, <3>2, <3>6, <5>4, EndsMoved
        <5> QED  BY <3>3, <4>1, <5>5
      <4>2. CASE ~path.there
        <5>1. path.lines = <<>> /\ backup' = backup  BY <1>0, <3>3, <4>2, NoLines
        <5> QED  BY <3>2, <5>1
      <4> QED  BY <4>1, <4>2
    <3>8. CASE opens
      <4>1. Len(path'.lines) = 1 /\ path'.lines[1] = flush.item /\ Longer(kept', kept, flush.item)
        BY <3>4, <3>8, Zenon
      <4>2. Longer(path'.lines, <<>>, flush.item)  BY <3>6, <4>1 DEF Longer
      <4>3. Ends(kept', path'.lines, backup'.lines)
        BY <1>0, <1>1, <3>6, <3>7, <4>1, <4>2, EndsLonger
      <4> QED  BY <4>3 DEF Newest, Ends
    <3>9. CASE ~opens
      <4>1. path'.lines = <<>> /\ kept' = kept  BY <3>5, <3>9, Zenon
      <4>2. Ends(kept', path'.lines, backup'.lines)  BY <3>7, <4>1
      <4> QED  BY <4>2 DEF Newest, Ends
    <3> QED  BY <3>8, <3>9
  <2>3. ASSUME NEW opens \in BOOLEAN, Rotate(w, FALSE, opens) PROVE Newest'
    <3>1. split' = split /\ backup' = backup  BY <2>3, UnrotatedType, UnrotatedEffect
    <3> SUFFICES ASSUME ~split PROVE Newest'  BY <3>1 DEF Newest
    <3>2. Ends(kept, path.lines, backup.lines)  BY DEF Newest
    <3>3. CASE opens
      <4>1. Longer(path'.lines, path.lines, flush.item) /\ Longer(kept', kept, flush.item)
        BY <2>3, <3>3, UnrotatedEffect
      <4>2. Ends(kept', path'.lines, backup.lines)  BY <1>0, <1>1, <3>2, <4>1, EndsLonger
      <4> QED  BY <3>1, <4>2 DEF Newest, Ends
    <3>4. CASE ~opens
      <4>1. path' = path /\ kept' = kept  BY <2>3, <3>4, UnrotatedEffect
      <4> QED  BY <3>1, <4>1 DEF Newest, Ends
    <3> QED  BY <3>3, <3>4
  <2> QED  BY <1>2, <2>1, <2>2, <2>3, WriteFileCases
<1>3. ASSUME UNCHANGED <<backup, kept, split>>, path'.lines = path.lines PROVE Newest'
  BY <1>3 DEF Newest, Ends
<1>4. ASSUME NEW w \in 1..Writers, NEW opens \in BOOLEAN, Reopen(w, opens) PROVE Newest'
  BY <1>3, <1>4, ReopenEffect
<1>5. CASE CloseOutputs  BY <1>3, <1>5 DEF CloseOutputs
<1>6. CASE UNCHANGED logfile  BY <1>3, <1>6 DEF logfile
<1> QED
  <2>1. \A opens \in {TRUE, ~OpenFails} : opens \in BOOLEAN  BY LoggerConstants
  <2> QED
    BY <1>2, <1>4, <1>5, <1>6, <2>1 DEF Next, vars, logfile, FlushLoop, Log, Take, WriteConsole, Pick, Offer,
       EndItem, Subscribe, Unsubscribe, Receive, CloseQueue

\* By index or as a suffix: the same.
LEMMA EndsIsSuffix ==
  ASSUME NEW k \in Seq(Nat), NEW p \in Seq(Nat), NEW b \in Seq(Nat), Ends(k, p, b)
  PROVE  IsSuffix(b \o p, k) /\ (Len(b \o p) >= maxSize \/ b \o p = k)
<1> DEFINE q == b \o p
           n == Len(p) + Len(b)
<1>0. Len(k) \in Nat /\ Len(p) \in Nat /\ Len(b) \in Nat /\ maxSize \in Nat /\ n <= Len(k) /\ n \in Nat
  BY LoggerConstants DEF Ends
<1>1. /\ q \in Seq(Nat) /\ Len(q) = Len(b) + Len(p)
      /\ \A i \in 1..Len(b) + Len(p) : q[i] = IF i <= Len(b) THEN b[i] ELSE p[i - Len(b)]
  BY ConcatProperties
<1>2. Len(q) = n  BY <1>0, <1>1
<1> HIDE DEF q
<1>3. \A i \in 1..n : q[i] = k[Len(k) - n + i]
  <2> SUFFICES ASSUME NEW i \in 1..n PROVE q[i] = k[Len(k) - n + i]  OBVIOUS
  <2>1. CASE i <= Len(b)
    <3>1. i \in 1..Len(b) /\ i \in 1..Len(b) + Len(p) /\ Len(k) - n + i = Len(k) - Len(p) - Len(b) + i
      BY <1>0, <2>1
    <3>2. q[i] = b[i]  BY <1>1, <2>1, <3>1
    <3>3. b[i] = k[Len(k) - Len(p) - Len(b) + i]  BY <3>1 DEF Ends
    <3> QED  BY <3>1, <3>2, <3>3
  <2>2. CASE ~(i <= Len(b))
    <3>1. /\ i - Len(b) \in 1..Len(p) /\ i \in 1..Len(b) + Len(p)
          /\ Len(k) - n + i = Len(k) - Len(p) + (i - Len(b))
      BY <1>0, <2>2
    <3> QED  BY <1>1, <2>2, <3>1 DEF Ends
  <2> QED  BY <2>1, <2>2
<1> HIDE DEF n
<1>4. n >= maxSize \/ n = Len(k)  BY DEF Ends, n
<1>5. ASSUME n = Len(k) PROVE q = k
  <2>1. \A i \in 1..Len(q) : q[i] = k[i]
    <3>1. \A i \in 1..n : Len(k) - n + i = i  BY <1>0, <1>5
    <3> QED  BY <1>2, <1>3, <3>1
  <2>2. Len(q) = Len(k)  BY <1>2, <1>5
  <2> QED  BY <1>1, <2>1, <2>2, SeqEqual
<1>6. IsSuffix(q, k)
  <2> DEFINE rq == Reverse(q)
             rk == Reverse(k)
  <2>0. ASSUME NEW s \in Seq(Nat)
        PROVE  Len(Reverse(s)) = Len(s) /\ \A i \in 1..Len(s) : Reverse(s)[i] = s[Len(s) - i + 1]
    BY DEF Reverse
  <2>1. /\ Len(rq) = n /\ \A i \in 1..n : rq[i] = q[n - i + 1]
        /\ Len(rk) = Len(k) /\ \A i \in 1..Len(k) : rk[i] = k[Len(k) - i + 1]
    BY <1>1, <1>2, <2>0
  <2> HIDE DEF rq, rk
  <2>2. \A i \in 1..n : rq[i] = rk[i] /\ rq[i] \in Nat /\ rk[i] \in Nat
    <3> SUFFICES ASSUME NEW i \in 1..n PROVE rq[i] = rk[i] /\ rq[i] \in Nat  BY Zenon
    <3>1. n - i + 1 \in 1..n /\ i \in 1..Len(k)  BY <1>0
    <3>2. Len(k) - n + (n - i + 1) = Len(k) - i + 1  BY <1>0
    <3>3. q[n - i + 1] = k[Len(k) - n + (n - i + 1)]  BY <1>3, <3>1
    <3>4. rq[i] = q[n - i + 1] /\ rk[i] = k[Len(k) - i + 1]  BY <2>1, <3>1
    <3>5. rq[i] = rk[i]  BY <3>2, <3>3, <3>4
    <3>6. q[n - i + 1] \in Nat
      <4>1. n - i + 1 \in 1..Len(q)  BY <1>2, <3>1
      <4> QED  BY <1>1, <4>1, ElementOfSeq, Zenon
    <3> QED  BY <3>4, <3>5, <3>6
  <2> DEFINE sq == SubSeq(rq, 1, n)
             sk == SubSeq(rk, 1, n)
  <2>3. /\ sq \in Seq(Nat) /\ Len(sq) = IF 1 <= n THEN n - 1 + 1 ELSE 0
        /\ \A i \in 1..n - 1 + 1 : sq[i] = rq[1 + i - 1]
    BY <1>0, <2>2, SubSeqProperties
  <2>4. /\ sk \in Seq(Nat) /\ Len(sk) = IF 1 <= n THEN n - 1 + 1 ELSE 0
        /\ \A i \in 1..n - 1 + 1 : sk[i] = rk[1 + i - 1]
    BY <1>0, <2>2, SubSeqProperties
  <2> HIDE DEF sq, sk
  <2>5. Len(sq) = n /\ Len(sk) = n /\ n - 1 + 1 = n /\ \A i \in 1..n : 1 + i - 1 = i
    BY <1>0, <2>3, <2>4
  <2>6. \A i \in 1..Len(sq) : sq[i] = sk[i]
    BY <2>2, <2>3, <2>4, <2>5
  <2>7. sq = sk  BY <2>3, <2>4, <2>5, <2>6, SeqEqual
  <2>8. Len(rq) <= Len(rk)  BY <1>0, <2>1 DEF n
  <2>9. SubSeq(rq, 1, Len(rq)) = SubSeq(rk, 1, Len(rq))  BY <2>1, <2>7 DEF sq, sk
  <2> QED  BY <2>8, <2>9 DEF IsSuffix, IsPrefix, rq, rk
<1> QED  BY <1>2, <1>4, <1>5, <1>6 DEF q
-----------------------------------------------------------------------------
LEMMA LoggerInit == Init => IInv
<1> SUFFICES ASSUME Init PROVE IInv  OBVIOUS
<1>0. <<>> \in Seq(Nat) /\ <<>> \in Seq(Words) /\ Len(<<>>) = 0  BY EmptySeq
<1>1. TypeOK
  <2>1. QueueType  BY <1>0, LoggerConstants DEF Init, QueueType
  <2>2. StreamType  BY <1>0 DEF Init, StreamType
  <2>3. FlushType
    <3>1. <<Stdout>> \in Seq(0..Writers)  BY LoggerConstants DEF Stdout
    <3> QED  BY <3>1, WaitingType DEF Init, FlushType
  <2>4. LogfileType
    <3>1. writer \in [1..Writers -> Descriptor]  BY DEF Init, Descriptor
    <3> QED  BY <1>0, <3>1, NoLines DEF Init, LogfileType, Sane
  <2> QED  BY <2>1, <2>2, <2>3, <2>4, TypeParts
<1>2. flush.at = "idle" /\ flush.k = 0 /\ flush.view = <<>> /\ flush.shared = FALSE
  BY DEF Init, Waiting
<1>3. Shape /\ Steady /\ PanicNeedsRace  BY <1>2 DEF Init, Shape, Lone, Steady, PanicNeedsRace
<1>4. InOrder
  <2>1. Pending = <<>>  BY <1>2 DEF Pending
  <2>2. All = <<>>  BY <2>1 DEF Init, All
  <2> QED  BY <1>0, <1>2, <2>2 DEF Init, InOrder, Numbered
<1>5. Listed  BY DEF Init, Listed
<1>6. InView  BY <1>0, <1>2 DEF InView
<1>7. \A w \in 1..Writers : ~WillWrite(w) /\ ~InUse(w) /\ writer[w].fd = "none"
  BY <1>2 DEF Init, WillWrite, InUse
<1>8. path.lines = <<>> /\ backup.lines = <<>> /\ ~path.there /\ kept = <<>>  BY NoLines DEF Init
<1>9. Len(path.lines) = 0 /\ Len(backup.lines) = 0 /\ Len(kept) = 0  BY <1>0, <1>8
<1>10. Opens  BY <1>7, <1>8 DEF Opens
<1>11. Near
  <2>1. unmoved = 0 /\ maxSize \in Nat  BY LoggerConstants DEF Init
  <2> QED  BY <1>7, <1>9, <2>1 DEF Near, Slack
<1>12. Newest  BY <1>9 DEF Newest, Ends
<1> QED  BY <1>1, <1>3, <1>4, <1>5, <1>6, <1>10, <1>11, <1>12 DEF IInv

LEMMA LoggerStep == IInv /\ [Next]_vars => IInv'
<1> SUFFICES ASSUME IInv, [Next]_vars PROVE IInv'  OBVIOUS
<1>1. TypeOK'
  <2>1. QueueType' /\ StreamType' /\ FlushType' /\ LogfileType'
    BY QueueStep, StreamStep, FlushStep, LogfileStep DEF IInv
  <2> QED
    BY <2>1 DEF TypeOK, QueueType, StreamType, FlushType, LogfileType, Inode, Descriptor, Words
<1> QED
  BY <1>1, ShapeStep, InOrderStep, ListedStep, InViewStep, SteadyStep, PanicStep, OpensStep, NearStep,
     NewestStep DEF IInv

LEMMA LoggerInvariant == Spec => []IInv
BY LoggerInit, LoggerStep, PTL DEF Spec

\* The state of the logger, of its streams, of flushLoop and of the log file has its type in every
\* reachable state: in particular flushLoop has an output to write while it writes (log.go:192), and
\* the range loop reads an element the array has (log.go:200).
THEOREM LoggerTypeOK == Spec => []TypeOK
BY LoggerInvariant, PTL DEF IInv

\* log.go:186, 235: no entry that was accepted is lost or overtaken on its way to the console, for every
\* capacity of the queue and every number of entries, and none is left when Close has returned.
THEOREM LoggerAccounted == Spec => []Accounted
<1>1. IInv => Accounted
  <2> SUFFICES ASSUME IInv, panic # "log"
               PROVE  /\ Len(All) + dropped = count
                      /\ \A i \in 1..Len(All) - 1 : All[i] < All[i + 1]
                      /\ closing = "done" => All = console
    BY DEF Accounted, All, Pending
  <2>1. Len(All) + dropped = count /\ \A i \in 1..Len(All) - 1 : All[i] < All[i + 1]
    BY DEF IInv, InOrder, Numbered
  <2>2. ASSUME closing = "done" PROVE All = console
    <3>1. queue = <<>> /\ Pending = <<>>  BY <2>2 DEF IInv, InOrder, Pending
    <3>2. console \in Seq(Nat)  BY DEF IInv, TypeOK
    <3>3. console \o <<>> = console  BY <3>2, ConcatEmptySeq
    <3> QED  BY <3>1, <3>3 DEF All
  <2> QED  BY <2>1, <2>2
<1> QED  BY <1>1, LoggerInvariant, PTL

\* log.go:189, 200: an entry is offered exactly once to every stream that was subscribed when flushLoop
\* looked, for every number of streams, however often the array of subscribers has moved meanwhile,
\* unless a stream unsubscribes.
THEOREM LoggerOfferedOnce == Spec => []OfferedOnce
<1>1. IInv => OfferedOnce
  <2> SUFFICES ASSUME IInv, flush.at = "offering", flush.k = Len(flush.view), ~flush.disturbed,
                      NEW s \in Streams
               PROVE  flush.offered[s] = IF s \in flush.members THEN 1 ELSE 0
    BY DEF OfferedOnce
  <2>1. Steady /\ Visited = Len(flush.view)  BY DEF IInv, Visited
  <2>2. /\ \A i \in 1..Len(flush.view) : Seen(i) \in flush.members
        /\ \A x \in flush.members : \E i \in 1..Len(flush.view) : Seen(i) = x
        /\ \A x \in Streams :
             flush.offered[x] = IF \E i \in 1..Len(flush.view) : Seen(i) = x THEN 1 ELSE 0
    BY <2>1 DEF Steady
  <2> QED  BY <2>2
<1> QED  BY <1>1, LoggerInvariant, PTL

\* log.go:265: for every number of streams, flushLoop meets a closed channel, and panics, only if its
\* owner unsubscribed while the entry was being delivered.
THEOREM LoggerPanicNeedsRace == Spec => []PanicNeedsRace
BY LoggerInvariant, PTL DEF IInv

\* log.go:131, 142-148: for every size of the file and every number of restarts, renames that failed and
\* files that could not be opened, the log file keeps to its size but for one line and one for each
\* rename that failed since the last that worked, and unless a writer has rotated it away from another
\* the backup and the log file are the newest lines written, none missing in between and at least a
\* file full of them.
THEOREM LoggerKeepsNewest == Spec => []KeepsNewest
<1>1. IInv => KeepsNewest
  <2> SUFFICES ASSUME IInv PROVE KeepsNewest  OBVIOUS
  <2>1. Len(path.lines) <= maxSize + unmoved + IF Writers > 1 THEN 1 ELSE 0
    <3>1. Len(path.lines) <= maxSize + Slack + unmoved  BY DEF IInv, Near
    <3>2. Slack \in Nat /\ maxSize \in Nat /\ unmoved \in Nat  BY TypeParts, LoggerConstants DEF IInv, LogfileType, Slack
    <3>3. Len(path.lines) <= maxSize + unmoved + Slack
      <4>1. maxSize + Slack + unmoved = maxSize + unmoved + Slack  BY <3>2
      <4> QED  BY <3>1, <4>1
    <3> QED  BY <3>3 DEF Slack
  <2>2. kept \in Seq(Nat) /\ path.lines \in Seq(Nat) /\ backup.lines \in Seq(Nat)
    BY TypeParts DEF IInv, LogfileType, Inode
  <2>3. ~split => Ends(kept, path.lines, backup.lines)  BY DEF IInv, Newest
  <2>4. ~split => /\ IsSuffix(backup.lines \o path.lines, kept)
                  /\ \/ Len(backup.lines \o path.lines) >= maxSize
                     \/ backup.lines \o path.lines = kept
    BY <2>2, <2>3, EndsIsSuffix
  <2> QED  BY <2>1, <2>4 DEF KeepsNewest
<1> QED  BY <1>1, LoggerInvariant, PTL
=============================================================================
