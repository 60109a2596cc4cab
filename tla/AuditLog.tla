------------------------------ MODULE AuditLog ------------------------------
(***************************************************************************)
(* The audit log: crates/localspace-core/src/audit.rs.                     *)
(*                                                                         *)
(* Core's thread chains each record to the one before it and hands it to   *)
(* the writer's thread over a bounded queue.  The writer appends it to the *)
(* file of its day, the line and its newline in two writes, and never to a *)
(* file older than the newest.  The clock may be set back, a write may     *)
(* fail, and the process may be killed anywhere; the next one goes on from *)
(* the last record on disk.  A record is known here by when it was made,   *)
(* which stands for its hash: no two have the same.                        *)
(***************************************************************************)
EXTENDS Integers, Sequences, SequencesExt, FiniteSets

CONSTANTS
  Days,        \* the days that are followed: 1 .. Days; 0 is the file from before
  Queue,       \* QUEUE: how far the writer may be behind
  MaxRecords,  \* the records that are followed
  MaxLives     \* the starts of the program that are followed

ASSUME BoundsAssumption == {Days, Queue, MaxRecords, MaxLives} \subseteq Nat \ {0}

VARIABLES
  made,      \* every record ever chained: its prev, its number, its day, its life
  state,     \* State: prev and seq, as the append keeps them
  core,      \* Core's thread
  queue,     \* the channel
  writer,    \* the writer's thread
  files,     \* each file's lines
  exists,    \* the days that have a file
  failed,    \* the records counted in `failures`
  lost,      \* those a kill took from the queue
  promised,  \* those of which a flush said that they were handed to the disk
  life       \* which start of the program this is

vars == <<made, state, core, queue, writer, files, exists, failed, lost, promised, life>>

-----------------------------------------------------------------------------
GENESIS == 0
LEGACY == 0
FLUSH == 0

\* A line holds the records whose bytes are in it; more than one when a newline
\* never came. It is torn when the disk took only a part of one.
Line(n) == [recs |-> <<n>>, torn |-> FALSE, ended |-> FALSE]
Fine(line) == Len(line.recs) = 1 /\ ~line.torn

\* files_in_order: the one from before, then one per day.
Lines == files[LEGACY] \o FlattenSeq([d \in 1 .. Days |-> files[d]])
RecordsOf(ls) == FlattenSeq([i \in DOMAIN ls |-> ls[i].recs])
OnDisk == UNION {UNION {Range(files[d][i].recs) : i \in DOMAIN files[d]} : d \in 0 .. Days}

NewestDay == IF exists = {} THEN 0 ELSE CHOOSE d \in exists : \A x \in exists : x <= d

\* last_record: of the newest file that has one; a line that does not read is an
\* error, and the log is not opened.
LastFile == CHOOSE d \in 0 .. Days :
              /\ files[d] # <<>> \/ d = 0
              /\ \A x \in 0 .. Days : x > d => files[x] = <<>>
Readable == \A i \in DOMAIN files[LastFile] : Fine(files[LastFile][i])
LastRecord == IF files[LastFile] = <<>> THEN GENESIS ELSE Last(files[LastFile]).recs[1]

\* seq_after: the number after that of the last record (SeqAgain: that number again).
SeqAgain(n) == IF n = GENESIS THEN 0 ELSE made[n].id
SeqAfter(n) == IF n = GENESIS THEN 0 ELSE made[n].id + 1

\* Every line of a file reads, and its record's prev is the record before it.
InOrder(lines) ==
  \A i \in DOMAIN lines :
    Fine(lines[i]) /\ (i > 1 => made[lines[i].recs[1]].prev = lines[i - 1].recs[1])

\* A walk that begins anew with every file.
IntactPerFile == \A d \in 0 .. Days : InOrder(files[d])

\* verify_dir: a file's first record goes on from the last one of the newest file
\* before it that has any.
Intact ==
  \A d \in 0 .. Days :
    /\ InOrder(files[d])
    /\ files[d] # <<>> =>
         LET first == made[files[d][1].recs[1]].prev
         IN  \/ first = GENESIS /\ \A x \in 0 .. Days : x < d => files[x] = <<>>
             \/ \E x \in 0 .. Days :
                  /\ x < d /\ files[x] # <<>> /\ first = Last(files[x]).recs[1]
                  /\ \A y \in 0 .. Days : x < y /\ y < d => files[y] = <<>>

NoWriter == [pc |-> "off", rec |-> 0, open |-> 0, floor |-> 0]
At(pc) == writer.pc = pc
Up == core.pc \in {"up", "sending", "flushing", "closing"}

\* The log may begin with the one file from before the daily cut.
Init ==
  /\ \E old \in {<<>>, <<[Line(1) EXCEPT !.ended = TRUE]>>} :
       /\ files = [d \in 0 .. Days |-> IF d = LEGACY THEN old ELSE <<>>]
       /\ made = [i \in DOMAIN old |-> [prev |-> GENESIS, id |-> 0, day |-> 1, life |-> 0]]
  /\ state = [prev |-> GENESIS, seq |-> 0]
  /\ core = [pc |-> "down", rec |-> 0]
  /\ queue = <<>> /\ writer = NoWriter
  /\ exists = {} /\ failed = {} /\ lost = {} /\ promised = {} /\ life = 0

disk == <<files, exists>>
ghosts == <<failed, lost, promised>>

-----------------------------------------------------------------------------
(* Core's thread.                                                          *)

\* AuditLog::open.
Open ==
  /\ core.pc = "down" /\ life < MaxLives
  /\ Readable
  /\ state' = [prev |-> LastRecord, seq |-> SeqAfter(LastRecord)]
  /\ core' = [pc |-> "up", rec |-> 0]
  /\ writer' = [NoWriter EXCEPT !.pc = "recv", !.floor = NewestDay]
  /\ queue' = <<>> /\ life' = life + 1
  /\ UNCHANGED <<made, disk, ghosts>>

\* append_at: the record is chained under the lock, whatever the clock says.
Append_(day) ==
  /\ core.pc = "up" /\ Len(made) < MaxRecords
  /\ made' = Append(made, [prev |-> state.prev, id |-> state.seq, day |-> day, life |-> life])
  /\ state' = [prev |-> Len(made) + 1, seq |-> state.seq + 1]
  /\ core' = [pc |-> "sending", rec |-> Len(made) + 1]
  /\ UNCHANGED <<queue, writer, disk, ghosts, life>>

\* ... and then sent: a full queue is waited for.
Send ==
  /\ core.pc = "sending" /\ Len(queue) < Queue
  /\ queue' = Append(queue, core.rec)
  /\ core' = [pc |-> "up", rec |-> 0]
  /\ UNCHANGED <<made, state, writer, disk, ghosts, life>>

\* A flush that is answered before what was appended.
FlushFirst ==
  /\ core.pc = "up" /\ Len(queue) < Queue
  /\ queue' = <<FLUSH>> \o queue
  /\ core' = [pc |-> "flushing", rec |-> Len(made)]
  /\ UNCHANGED <<made, state, writer, disk, ghosts, life>>

\* flush: the request stands in the same line, and is waited for.
Flush ==
  /\ core.pc = "up" /\ Len(queue) < Queue
  /\ queue' = Append(queue, FLUSH)
  /\ core' = [pc |-> "flushing", rec |-> Len(made)]
  /\ UNCHANGED <<made, state, writer, disk, ghosts, life>>

\* Thirty seconds are over, and nothing is promised.
FlushTimesOut ==
  /\ core.pc = "flushing"
  /\ core' = [pc |-> "up", rec |-> 0]
  /\ UNCHANGED <<made, state, queue, writer, disk, ghosts, life>>

\* Drop: the writer finishes what it was handed before the log goes.
Close ==
  /\ core.pc = "up"
  /\ core' = [pc |-> "closing", rec |-> 0]
  /\ UNCHANGED <<made, state, queue, writer, disk, ghosts, life>>

Closed ==
  /\ core.pc = "closing" /\ At("recv") /\ queue = <<>>
  /\ core' = [pc |-> "down", rec |-> 0]
  /\ writer' = NoWriter
  /\ UNCHANGED <<made, state, queue, disk, ghosts, life>>

\* The process is killed.
Accounted == OnDisk \cup failed \cup lost
Kill ==
  /\ Up
  /\ core' = [pc |-> "down", rec |-> 0]
  /\ queue' = <<>> /\ writer' = NoWriter
  /\ lost' = lost \cup (DOMAIN made \ (OnDisk \cup failed))
  /\ UNCHANGED <<made, state, disk, failed, promised, life>>

-----------------------------------------------------------------------------
(* The writer's thread.                                                    *)

Elsewhere == <<made, state, lost, life>>

\* The day of the record's own clock, however far back.
DayAsGiven(n) == made[n].day
DayOf(n) == IF made[n].day < writer.floor THEN writer.floor ELSE made[n].day

\* One job is taken; a flush is answered, if anyone still waits.
Recv ==
  /\ At("recv") /\ queue # <<>>
  /\ queue' = Tail(queue)
  /\ \/ /\ Head(queue) # FLUSH
        /\ writer' = [writer EXCEPT !.rec = Head(queue),
                        !.pc = IF writer.open = DayOf(Head(queue)) THEN "line" ELSE "open"]
        /\ UNCHANGED <<core, promised>>
     \/ /\ Head(queue) = FLUSH
        /\ IF core.pc = "flushing" /\ \A i \in 2 .. Len(queue) : queue[i] # FLUSH
           THEN /\ core' = [pc |-> "up", rec |-> 0]
                /\ promised' = promised \cup (1 .. core.rec)
           ELSE UNCHANGED <<core, promised>>
        /\ UNCHANGED writer
  /\ UNCHANGED <<Elsewhere, disk, failed>>

OpenFile ==
  /\ At("open")
  /\ exists' = exists \cup {DayOf(writer.rec)}
  /\ writer' = [writer EXCEPT !.open = DayOf(writer.rec), !.floor = DayOf(writer.rec), !.pc = "line"]
  /\ UNCHANGED <<Elsewhere, core, queue, files, failed, promised>>

\* A record that is dropped in silence.
OpenFailsUncounted ==
  /\ At("open")
  /\ writer' = [writer EXCEPT !.open = 0, !.rec = 0, !.pc = "recv"]
  /\ UNCHANGED <<Elsewhere, core, queue, disk, failed, promised>>

OpenFails ==
  /\ At("open")
  /\ writer' = [writer EXCEPT !.open = 0, !.rec = 0, !.pc = "recv"]
  /\ failed' = failed \cup {writer.rec}
  /\ UNCHANGED <<Elsewhere, core, queue, disk, promised>>

\* What is written goes where the file ends: on a line of its own, or behind what
\* has had no newline.
Put(line) ==
  LET was == files[writer.open]
  IN files' = [files EXCEPT ![writer.open] =
                 IF was = <<>> \/ Last(was).ended THEN Append(was, line)
                 ELSE Append(Front(was), [recs |-> Last(was).recs \o line.recs,
                                          torn |-> Last(was).torn \/ line.torn,
                                          ended |-> FALSE])]

WriteLine ==
  /\ At("line")
  /\ Put(Line(writer.rec))
  /\ writer' = [writer EXCEPT !.pc = "newline"]
  /\ UNCHANGED <<Elsewhere, core, queue, exists, failed, promised>>

\* The disk takes nothing of the line, or a part.
WriteFails ==
  /\ At("line")
  /\ UNCHANGED files \/ Put([Line(writer.rec) EXCEPT !.torn = TRUE])
  /\ writer' = [writer EXCEPT !.rec = 0, !.pc = "recv"]
  /\ failed' = failed \cup {writer.rec}
  /\ UNCHANGED <<Elsewhere, core, queue, exists, promised>>

Newline ==
  /\ At("newline")
  /\ files' = [files EXCEPT ![writer.open] =
                 Append(Front(@), [Last(@) EXCEPT !.ended = TRUE])]
  /\ writer' = [writer EXCEPT !.rec = 0, !.pc = "recv"]
  /\ UNCHANGED <<Elsewhere, core, queue, exists, failed, promised>>

NewlineFails ==
  /\ At("newline")
  /\ writer' = [writer EXCEPT !.rec = 0, !.pc = "recv"]
  /\ failed' = failed \cup {writer.rec}
  /\ UNCHANGED <<Elsewhere, core, queue, disk, promised>>

Writes == Recv \/ OpenFile \/ OpenFails \/ WriteLine \/ WriteFails \/ Newline \/ NewlineFails

Next ==
  \/ Open \/ (\E day \in 1 .. Days : Append_(day)) \/ Send \/ Flush \/ FlushTimesOut
  \/ Close \/ Closed \/ Kill
  \/ Writes

Spec == Init /\ [][Next]_vars

\* The writer's thread runs, and Core's does what it has begun.
FairSpec == Spec /\ WF_vars(Writes) /\ WF_vars(Send)

-----------------------------------------------------------------------------
\* A line was left without its newline, and another came behind it.
Glued == \E d \in 0 .. Days : \E i \in DOMAIN files[d] : Len(files[d][i].recs) > 1

\* The chain that `verify` walks is whole as long as no write failed and no kill
\* came between a line and its newline: over days, with the clock set back, with
\* queues lost to kills, across starts and with the file from before.
NoFalseAlarm == failed = {} /\ ~Glued => Intact

\* A record that is missing is seen once a later one of the same run of the
\* program is there: it cannot be left out of the middle.
HolesAreSeen ==
  Intact => \A n \in DOMAIN made \ OnDisk, m \in OnDisk :
              n < m => made[n].life # made[m].life

\* When a flush has been answered, every record appended before it is on disk, or
\* was counted as a failure, or went with an earlier kill.
FlushedMeansWritten == promised \subseteq Accounted

\* What `verify` and `flush` say is so (audit.rs), the three above together.
ChainTells == NoFalseAlarm /\ HolesAreSeen /\ FlushedMeansWritten

\* A record that was appended is written, or counted, or goes with a kill; an
\* append that waits for a full queue does not wait for ever.
Lands == \A n \in 1 .. MaxRecords : (n \in DOMAIN made) ~> (n \in Accounted)

\* Whoever reads the files in order reads records with rising numbers, and never
\* finds the past changed: the log implements Trail, whatever the clock says.
Ids == LET recs == RecordsOf(Lines) IN [i \in DOMAIN recs |-> made[recs[i]].id]
T == INSTANCE Trail WITH trail <- Ids
ImplementsTrail == T!Spec
=============================================================================
