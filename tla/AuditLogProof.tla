---------------------------- MODULE AuditLogProof ----------------------------
(***************************************************************************)
(* What the audit log's `verify` and `flush` say is so, for any number of  *)
(* days, records and starts and a queue of any size.                       *)
(*                                                                         *)
(* Two arguments meet.  Every record is somewhere: on disk, counted as a   *)
(* failure, lost to a kill, or still on its way (Found).  And as long as   *)
(* nothing failed, the records on their way go on from the last one on     *)
(* disk, in the order of their numbers (Flight, Flow): so the one that is  *)
(* written is the one whose prev is the last on disk.                      *)
(*                                                                         *)
(* The log implements Trail: the files are read as one list of records     *)
(* (Recs), whose numbers rise (Numbers), and a write to the newest file    *)
(* puts one record at the end of it (ReadOn) or none.                      *)
(***************************************************************************)
EXTENDS AuditLog, SequenceTheorems, WellFoundedInduction, TLAPS

-----------------------------------------------------------------------------
(* The inductive invariant. *)

Records == [prev : Nat, id : Nat, day : 1 .. Days, life : Nat]
LineSet == [recs : Seq(Nat), torn : BOOLEAN, ended : BOOLEAN]
Writers == [pc : {"off", "recv", "open", "line", "newline"}, rec : Nat,
            open : 0 .. Days, floor : 0 .. Days]

Types ==
  /\ made \in Seq(Records) /\ life \in Nat /\ state \in [prev : Nat, seq : Nat]
  /\ core \in [pc : {"down", "up", "sending", "flushing", "closing"}, rec : Nat]
  /\ queue \in Seq(Nat) /\ writer \in Writers
  /\ files \in [0 .. Days -> Seq(LineSet)] /\ exists \subseteq 1 .. Days

\* The records of one start follow one another, each with the one before it.
Lives ==
  /\ \A n \in DOMAIN made : made[n].life <= life
  /\ \A m, n \in DOMAIN made : m < n => made[m].life <= made[n].life
  /\ \A n \in DOMAIN made :
       n > 1 /\ made[n - 1].life = made[n].life => made[n].prev = n - 1
  /\ core.pc # "down" => \A n \in DOMAIN made : made[n].life = life => state.prev = Len(made)

\* A record on its way to the disk.
Pending(n) ==
  \/ \E i \in DOMAIN queue : queue[i] = n
  \/ At("open") /\ n = writer.rec
  \/ At("line") /\ n = writer.rec
  \/ core.pc = "sending" /\ n = core.rec

\* What is on its way is of this start, behind what is on disk, and in order.
Flight ==
  /\ \A n \in DOMAIN made : Pending(n) => made[n].life = life /\ \A r \in OnDisk : r < n
  /\ \A i \in DOMAIN queue : queue[i] = FLUSH \/ queue[i] \in DOMAIN made
  /\ At("open") \/ At("line") => writer.rec \in DOMAIN made
  /\ core.pc = "sending" => core.rec = Len(made) /\ core.rec \in DOMAIN made
  /\ \A i, j \in DOMAIN queue :
       i < j /\ queue[i] # FLUSH /\ queue[j] # FLUSH => queue[i] < queue[j]
  /\ At("open") \/ At("line") => \A i \in DOMAIN queue : queue[i] # FLUSH => writer.rec < queue[i]
  /\ core.pc = "sending" =>
       /\ \A i \in DOMAIN queue : queue[i] # FLUSH => queue[i] < core.rec
       /\ At("open") \/ At("line") => writer.rec < core.rec
  /\ core.pc = "down" <=> At("off")
  /\ core.pc = "down" => queue = <<>>
  /\ core.pc = "flushing" =>
       queue # <<>> /\ queue[Len(queue)] = FLUSH /\ core.rec = Len(made)

\* No record is nowhere, and those a kill took are of earlier starts.
Found ==
  /\ \A n \in DOMAIN made : n \in Accounted \/ Pending(n)
  /\ \A n \in lost : n \in DOMAIN made /\ (core.pc # "down" => made[n].life < life)
  /\ promised \subseteq Accounted

Newest(d) ==
  /\ d \in 0 .. Days /\ (files[d] # <<>> \/ d = 0)
  /\ \A x \in 0 .. Days : x > d => files[x] = <<>>

\* The writer is never in a file older than the newest.
Folder ==
  /\ \A d \in 0 .. Days : \A i \in DOMAIN files[d] :
       /\ files[d][i].recs # <<>>
       /\ \A j \in DOMAIN files[d][i].recs : files[d][i].recs[j] \in DOMAIN made
  /\ \A d \in 0 .. Days : files[d] # <<>> => d = 0 \/ d \in exists
  /\ exists = {} \/ \E d \in exists : \A x \in exists : x <= d
  /\ \E d \in 0 .. Days : Newest(d)
  /\ ~At("off") =>
       /\ \A d \in exists : d <= writer.floor
       /\ writer.open = 0 \/ (writer.open = writer.floor /\ writer.open \in exists)
  /\ At("line") \/ At("newline") => writer.open # 0
  /\ At("newline") => files[writer.open] # <<>>

\* While nothing failed and no line is glued: the chain is whole, and goes on.
Flow ==
  failed = {} /\ ~Glued =>
    /\ Intact
    /\ \A r \in OnDisk : r <= LastRecord
    /\ core.pc # "down" =>
         /\ (\A n \in DOMAIN made : made[n].life # life) => state.prev = LastRecord
         /\ \A n \in DOMAIN made :
              n \notin OnDisk /\ made[n].life = life /\ (n = 1 \/ made[n - 1].life # life)
                => made[n].prev = LastRecord

AuditInv == Types /\ Lives /\ Flight /\ Found /\ Folder /\ Flow

-----------------------------------------------------------------------------
(* The disk, record by record. *)

LEMMA LeastOf ==
  ASSUME NEW S, S \subseteq Nat, S # {}
  PROVE  \E x \in S : \A y \in S : x <= y
<1>1. \E x \in S : \A y \in S : ~ (<<y, x>> \in OpToRel(<, Nat))
  BY WFMin, NatLessThanWellFounded
<1>2. PICK x \in S : \A y \in S : ~ (y < x)
  BY <1>1 DEF OpToRel
<1> QED
  BY <1>2

LEMMA Bounds == Days \in Nat \ {0} /\ Queue \in Nat \ {0}
BY BoundsAssumption

LEMMA MadeIs ==
  ASSUME Types
  PROVE  /\ Len(made) \in Nat /\ DOMAIN made = 1 .. Len(made)
         /\ \A n \in DOMAIN made : /\ made[n].prev \in Nat /\ made[n].id \in Nat
                                   /\ made[n].day \in 1 .. Days /\ made[n].life \in Nat
<1>1. made \in Seq(Records)
  BY DEF Types
<1>2. \A n \in DOMAIN made : made[n] \in Records
  BY <1>1, ElementOfSeq, LenProperties
<1> QED
  BY <1>1, <1>2, LenProperties DEF Records

LEMMA FileIs ==
  ASSUME Types, NEW d \in 0 .. Days
  PROVE  /\ files[d] \in Seq(LineSet)
         /\ Len(files[d]) \in Nat /\ DOMAIN files[d] = 1 .. Len(files[d])
         /\ files[d] # <<>> <=> Len(files[d]) > 0
         /\ \A i \in DOMAIN files[d] : files[d][i] \in LineSet
<1>1. files[d] \in Seq(LineSet)
  BY DEF Types
<1> QED
  BY <1>1, ElementOfSeq, LenProperties, EmptySeq

LEMMA LineIs ==
  ASSUME NEW line \in LineSet
  PROVE  /\ line.recs \in Seq(Nat)
         /\ Len(line.recs) \in Nat /\ DOMAIN line.recs = 1 .. Len(line.recs)
         /\ line.recs # <<>> <=> Len(line.recs) > 0
<1>1. line.recs \in Seq(Nat)
  BY DEF LineSet
<1> QED
  BY <1>1, LenProperties, EmptySeq

LEMMA OnDiskIs ==
  ASSUME NEW n
  PROVE  n \in OnDisk <=>
           \E d \in 0 .. Days : \E i \in DOMAIN files[d] : \E j \in DOMAIN files[d][i].recs :
             files[d][i].recs[j] = n
BY DEF OnDisk, Range

LEMMA GluedIs == Glued <=> \E d \in 0 .. Days : \E i \in DOMAIN files[d] : Len(files[d][i].recs) > 1
BY DEF Glued

\* The newest file with a record is the one CHOOSE finds.
LEMMA NewestIs ==
  ASSUME NEW d, Newest(d)
  PROVE  LastFile = d
<1> DEFINE P(x) == (files[x] # <<>> \/ x = 0) /\ \A y \in 0 .. Days : y > x => files[y] = <<>>
<1>1. d \in 0 .. Days /\ P(d)
  BY DEF Newest
<1>2. ASSUME NEW x \in 0 .. Days, P(x) PROVE x = d
  <2>1. ~ (x > d)
    BY <1>1, <1>2, Bounds
  <2>2. ~ (d > x)
    BY <1>1, <1>2, Bounds
  <2> QED
    BY <1>1, <1>2, <2>1, <2>2, Bounds
<1> HIDE DEF P
<1>3. (CHOOSE x \in 0 .. Days : P(x)) = d
  BY <1>1, <1>2, Zenon
<1> QED
  BY <1>3 DEF LastFile, P

\* Where the last record is.
LEMMA LastIs ==
  ASSUME Folder
  PROVE  /\ Newest(LastFile)
         /\ files[LastFile] = <<>> => LastRecord = GENESIS /\ \A d \in 0 .. Days : files[d] = <<>>
         /\ files[LastFile] # <<>> =>
              LastRecord = files[LastFile][Len(files[LastFile])].recs[1]
<1>1. PICK d \in 0 .. Days : Newest(d)
  BY DEF Folder
<1>2. LastFile = d
  BY <1>1, NewestIs
<1>3. files[d] = <<>> => \A x \in 0 .. Days : files[x] = <<>>
  <2>1. files[d] = <<>> => d = 0
    BY <1>1 DEF Newest
  <2> QED
    BY <1>1, <2>1, Bounds DEF Newest
<1> QED
  BY <1>1, <1>2, <1>3 DEF LastRecord, Last

LEMMA LastIsOnDisk ==
  ASSUME Types, Folder
  PROVE  LastRecord = GENESIS \/ LastRecord \in OnDisk
<1>1. CASE files[LastFile] # <<>>
  <2>1. PICK d, f, r : d = LastFile /\ f = files[d] /\ r = f[Len(f)].recs
    OBVIOUS
  <2>2. d \in 0 .. Days /\ f \in Seq(LineSet) /\ f # <<>>
    BY <1>1, <2>1, LastIs DEF Newest, Types
  <2>3. Len(f) \in DOMAIN f /\ f[Len(f)] \in LineSet
    BY <2>2, LenProperties, EmptySeq, ElementOfSeq
  <2>4. r \in Seq(Nat) /\ r # <<>>
    BY <2>1, <2>2, <2>3 DEF LineSet, Folder
  <2>5. 1 \in DOMAIN r
    BY <2>4, LenProperties, EmptySeq
  <2>6. LastRecord = r[1]
    BY <1>1, <2>1, LastIs
  <2> QED
    BY <2>1, <2>2, <2>3, <2>5, <2>6, OnDiskIs
<1> QED
  BY <1>1, LastIs

LEMMA DiskIsMade ==
  ASSUME Folder
  PROVE  OnDisk \subseteq DOMAIN made
BY OnDiskIs DEF Folder

-----------------------------------------------------------------------------
(* What the runs check follows. *)

\* A record that is missing has no later one of its start behind it: going back
\* from that one, each record on disk has its predecessor on disk.
LEMMA Holes == AuditInv => HolesAreSeen
<1> SUFFICES ASSUME AuditInv, Intact, NEW n \in DOMAIN made \ OnDisk, NEW m \in OnDisk, n < m,
                    made[n].life = made[m].life
             PROVE  FALSE
  BY DEF HolesAreSeen
<1>1. /\ DOMAIN made = 1 .. Len(made) /\ Len(made) \in Nat /\ m \in DOMAIN made
      /\ \A x \in DOMAIN made : made[x].life \in Nat
  BY MadeIs, DiskIsMade DEF AuditInv
<1> DEFINE S == {k \in OnDisk : n < k /\ k <= m}
<1>2. S \subseteq Nat /\ m \in S
  BY <1>1, DiskIsMade DEF AuditInv
<1>3. PICK k \in S : \A y \in S : k <= y
  BY <1>2, LeastOf
<1>4. k \in OnDisk /\ k \in DOMAIN made /\ n < k /\ k <= m /\ k - 1 \in DOMAIN made /\ n <= k - 1
  BY <1>1, <1>3, DiskIsMade DEF AuditInv
<1>5. made[k].life = made[n].life /\ made[k - 1].life = made[n].life
  <2>1. \A x, y \in DOMAIN made : x < y => made[x].life <= made[y].life
    BY DEF AuditInv, Lives
  <2>2. \A x, y \in DOMAIN made : x <= y => made[x].life <= made[y].life
    BY <1>1, <2>1
  <2>3. PICK o : o = k - 1
    OBVIOUS
  <2>4. /\ made[n].life <= made[o].life /\ made[o].life <= made[m].life
        /\ made[n].life <= made[k].life /\ made[k].life <= made[m].life
    BY <1>1, <1>4, <2>2, <2>3
  <2> QED
    BY <1>1, <1>4, <2>3, <2>4
<1>6. made[k].prev = k - 1 /\ k - 1 # GENESIS /\ k - 1 \in Nat
  BY <1>1, <1>4, <1>5 DEF AuditInv, Lives, GENESIS
<1>7. PICK d, i, j : /\ d \in 0 .. Days /\ i \in DOMAIN files[d] /\ j \in DOMAIN files[d][i].recs
                     /\ files[d][i].recs[j] = k
  BY <1>4, OnDiskIs
<1>8. Types /\ InOrder(files[d])
  BY <1>7 DEF AuditInv, Intact
<1>9. \A x \in 0 .. Days : \A z \in DOMAIN files[x] :
        Len(files[x][z].recs) = 1 /\ 1 \in DOMAIN files[x][z].recs
        /\ \A q \in DOMAIN files[x][z].recs : q = 1
  <2>1. ASSUME NEW x \in 0 .. Days, NEW z \in DOMAIN files[x]
        PROVE  Len(files[x][z].recs) = 1 /\ DOMAIN files[x][z].recs = 1 .. 1
    <3>1. Len(files[x][z].recs) = 1
      BY <2>1 DEF Intact, InOrder, Fine
    <3>2. files[x][z] \in LineSet
      BY <1>8, FileIs
    <3> QED
      BY <3>1, <3>2, LineIs
  <2> QED
    BY <2>1
<1>10. files[d][i].recs[1] = k
  BY <1>7, <1>9
<1>11. PICK f : f = files[d] /\ DOMAIN f = 1 .. Len(f) /\ Len(f) \in Nat /\ i \in 1 .. Len(f)
  BY <1>7, <1>8, FileIs
<1>12. k - 1 \in OnDisk
  <2>1. CASE i > 1
    <3>1. PICK h : h = i - 1 /\ h \in DOMAIN f
      BY <1>11, <2>1
    <3>2. f[h].recs[1] = k - 1
      BY <1>6, <1>7, <1>8, <1>10, <1>11, <2>1, <3>1 DEF InOrder
    <3> QED
      BY <1>7, <1>9, <1>11, <3>1, <3>2, OnDiskIs
  <2>2. CASE i = 1
    <3>1. files[d] # <<>> /\ files[d][1].recs[1] = k
      BY <1>7, <1>8, <1>10, <1>11, <2>2, FileIs
    <3>2. PICK x \in 0 .. Days : files[x] # <<>> /\ k - 1 = Last(files[x]).recs[1]
      BY <1>6, <1>7, <3>1 DEF Intact
    <3>3. PICK z : z = Len(files[x]) /\ z \in DOMAIN files[x]
      BY <1>8, <3>2, FileIs
    <3>4. files[x][z].recs[1] = k - 1
      BY <3>2, <3>3 DEF Last
    <3> QED
      BY <1>9, <3>3, <3>4, OnDiskIs
  <2> QED
    BY <1>11, <2>1, <2>2
<1> QED
  BY <1>1, <1>3, <1>4, <1>6, <1>12

LEMMA InvTells == AuditInv => ChainTells
BY Holes DEF AuditInv, Flow, Found, ChainTells, NoFalseAlarm, FlushedMeansWritten

-----------------------------------------------------------------------------
(* The queue. *)

\* q is the queue with x behind it.
Longer(q, x) ==
  /\ q \in Seq(Nat) /\ Len(queue) \in Nat /\ Len(q) = Len(queue) + 1
  /\ DOMAIN queue = 1 .. Len(queue) /\ DOMAIN q = 1 .. Len(q) /\ q # <<>>
  /\ \A i \in DOMAIN queue : i \in DOMAIN q /\ q[i] = queue[i]
  /\ q[Len(q)] = x
  /\ \A i \in DOMAIN q : i \in DOMAIN queue \/ i = Len(q)

LEMMA Appended ==
  ASSUME Types, NEW x \in Nat, NEW q, q = Append(queue, x)
  PROVE  Longer(q, x)
<1>1. queue \in Seq(Nat) /\ Len(queue) \in Nat /\ DOMAIN queue = 1 .. Len(queue)
  BY LenProperties DEF Types
<1>2. /\ q \in Seq(Nat) /\ Len(q) = Len(queue) + 1
      /\ \A i \in 1 .. Len(queue) : q[i] = queue[i]
      /\ q[Len(queue) + 1] = x /\ q # <<>>
  BY <1>1, AppendProperties
<1>3. DOMAIN q = 1 .. Len(q)
  BY <1>2, LenProperties
<1> QED
  BY <1>1, <1>2, <1>3 DEF Longer

\* q is the queue without its head.
Rest(q) ==
  /\ q \in Seq(Nat) /\ Len(queue) \in Nat \ {0} /\ Len(q) = Len(queue) - 1
  /\ DOMAIN queue = 1 .. Len(queue) /\ DOMAIN q = 1 .. Len(q)
  /\ q # <<>> <=> Len(queue) > 1
  /\ 1 \in DOMAIN queue /\ Head(queue) = queue[1]
  /\ \A i \in DOMAIN q : i + 1 \in DOMAIN queue /\ q[i] = queue[i + 1]
  /\ \A i \in DOMAIN queue : i = 1 \/ (i - 1 \in DOMAIN q /\ q[i - 1] = queue[i])

LEMMA Taken ==
  ASSUME Types, queue # <<>>, NEW q, q = Tail(queue)
  PROVE  Rest(q)
<1>1. queue \in Seq(Nat) /\ Len(queue) \in Nat /\ DOMAIN queue = 1 .. Len(queue)
  BY LenProperties DEF Types
<1>2. /\ q \in Seq(Nat) /\ Len(q) = Len(queue) - 1 /\ Len(queue) \in Nat \ {0}
      /\ \A i \in 1 .. Len(q) : q[i] = queue[i + 1]
  BY <1>1, HeadTailProperties, EmptySeq
<1>3. DOMAIN q = 1 .. Len(q)
  BY <1>2, LenProperties
<1>4. q # <<>> <=> Len(q) # 0
  BY <1>2, EmptySeq
<1>5. Head(queue) = queue[1]
  BY <1>1, <1>2
<1>6. \A i \in DOMAIN queue : i = 1 \/ (i - 1 \in DOMAIN q /\ (i - 1) + 1 = i)
  BY <1>1, <1>2, <1>3
<1> QED
  BY <1>1, <1>2, <1>3, SMTT(30), <1>4, <1>5, <1>6 DEF Rest

-----------------------------------------------------------------------------
(* Steps that leave the disk alone. *)

\* The records that were made stay as they are; there may be more.
More == /\ DOMAIN made \subseteq DOMAIN made'
        /\ \A n \in DOMAIN made : made'[n] = made[n]

LEMMA SameDisk ==
  ASSUME Types, Folder, files' = files, More
  PROVE  /\ OnDisk' = OnDisk /\ (Glued' <=> Glued) /\ LastRecord' = LastRecord
         /\ Intact => Intact'
<1>1. OnDisk' = OnDisk
  BY DEF OnDisk
<1>2. Glued' <=> Glued
  BY DEF Glued
<1>3. LastRecord' = LastRecord
  BY DEF LastRecord, LastFile
<1>4. ASSUME Intact PROVE Intact'
  <2>1. \A d \in 0 .. Days : \A i \in DOMAIN files[d] : made'[files[d][i].recs[1]] = made[files[d][i].recs[1]]
    <3>1. ASSUME NEW d \in 0 .. Days, NEW i \in DOMAIN files[d]
          PROVE  files[d][i].recs[1] \in DOMAIN made
      <4>1. files[d][i] \in LineSet /\ files[d][i].recs # <<>>
        BY FileIs DEF Folder
      <4>2. 1 \in DOMAIN files[d][i].recs
        BY <4>1, LineIs
      <4> QED
        BY <4>2 DEF Folder
    <3> QED
      BY <3>1 DEF More
  <2>2. \A d \in 0 .. Days : InOrder(files[d])'
    BY <1>4, <2>1 DEF Intact, InOrder, Fine
  <2>3. \A d \in 0 .. Days : files[d] # <<>> => 1 \in DOMAIN files[d]
    BY FileIs
  <2> QED
    BY <1>4, <2>1, <2>2, <2>3 DEF Intact
<1> QED
  BY <1>1, <1>2, <1>3, <1>4

LEMMA FlowKept ==
  ASSUME AuditInv, files' = files, made' = made, failed \subseteq failed',
         core'.pc # "down" => core.pc # "down" /\ state' = state /\ life' = life
  PROVE  Flow'
<1>1. OnDisk' = OnDisk /\ (Glued' <=> Glued) /\ LastRecord' = LastRecord /\ (Intact => Intact')
  BY SameDisk DEF AuditInv, More
<1> QED
  BY <1>1 DEF AuditInv, Flow

LEMMA FolderKept ==
  ASSUME AuditInv, files' = files, exists' = exists, More,
         ~At("off")' =>
           /\ \A d \in exists : d <= writer'.floor
           /\ writer'.open = 0 \/ (writer'.open = writer'.floor /\ writer'.open \in exists),
         At("line")' \/ At("newline")' => writer'.open # 0,
         At("newline")' => files[writer'.open] # <<>>
  PROVE  Folder'
<1>1. \A d \in 0 .. Days : Newest(d)' <=> Newest(d)
  BY DEF Newest
<1>2. \A d \in 0 .. Days : \A i \in DOMAIN files[d] :
        /\ files[d][i].recs # <<>>
        /\ \A j \in DOMAIN files[d][i].recs : files[d][i].recs[j] \in DOMAIN made'
  BY DEF AuditInv, Folder, More
<1> QED
  BY <1>1, <1>2 DEF AuditInv, Folder

\* The writer's place in the folder is as it was.
LEMMA FolderStays ==
  ASSUME AuditInv, files' = files, exists' = exists, More, writer' = writer
  PROVE  Folder'
BY FolderKept DEF AuditInv, Folder, At

LEMMA LivesKept ==
  ASSUME AuditInv, made' = made, life' = life, state' = state,
         core'.pc # "down" => core.pc # "down"
  PROVE  Lives'
BY DEF AuditInv, Lives

\* What a record's being somewhere depends on.
LEMMA FoundKept ==
  ASSUME AuditInv, Accounted \subseteq Accounted', made' = made, life' = life, lost' = lost,
         core'.pc # "down" => core.pc # "down", promised' = promised,
         \A n \in DOMAIN made : Pending(n) => Pending(n)' \/ n \in Accounted'
  PROVE  Found'
BY DEF AuditInv, Found

-----------------------------------------------------------------------------
(* Core's steps. *)

LEMMA OpenStep ==
  ASSUME AuditInv, Open
  PROVE  AuditInv'
<1>1. /\ core.pc = "down" /\ made' = made /\ files' = files /\ exists' = exists
      /\ failed' = failed /\ lost' = lost /\ promised' = promised
      /\ state' = [prev |-> LastRecord, seq |-> SeqAfter(LastRecord)]
      /\ core' = [pc |-> "up", rec |-> 0] /\ queue' = <<>> /\ life' = life + 1
      /\ writer' = [NoWriter EXCEPT !.pc = "recv", !.floor = NewestDay]
  BY DEF Open, disk, ghosts
<1>2. /\ Types /\ Lives /\ Flight /\ Found /\ Folder /\ Flow
      /\ life \in Nat /\ \A n \in DOMAIN made : made[n].life \in Nat /\ made[n].life <= life
  BY MadeIs DEF AuditInv, Types, Lives
<1>3. NewestDay \in 0 .. Days /\ \A d \in exists : d <= NewestDay
  <2>1. CASE exists = {}
    BY <2>1, Bounds DEF NewestDay
  <2>2. CASE exists # {}
    <3>1. \E d \in exists : \A x \in exists : x <= d
      BY <1>2, <2>2 DEF Folder
    <3> DEFINE newest == CHOOSE d \in exists : \A x \in exists : x <= d
    <3>2. newest \in exists /\ \A x \in exists : x <= newest
      BY <3>1, Zenon
    <3>3. NewestDay = newest
      BY <2>2 DEF NewestDay
    <3> HIDE DEF newest
    <3> QED
      BY <1>2, <3>2, <3>3, Bounds DEF Types
  <2> QED
    BY <2>1, <2>2
<1>4. /\ writer' \in Writers /\ writer'.pc = "recv" /\ writer'.open = 0
      /\ writer'.floor = NewestDay
  <2>1. PICK f : f = NewestDay
    OBVIOUS
  <2>2. PICK w : w = [NoWriter EXCEPT !.pc = "recv", !.floor = f]
    OBVIOUS
  <2>3. w = [pc |-> "recv", rec |-> 0, open |-> 0, floor |-> f]
    BY <2>2 DEF NoWriter
  <2>4. w \in Writers /\ w.pc = "recv" /\ w.open = 0 /\ w.floor = f
    BY <1>3, <2>1, <2>3, Bounds DEF Writers
  <2>5. writer' = w
    BY <1>1, <2>1, <2>2
  <2> QED
    BY <2>1, <2>4, <2>5
<1>5. LastRecord \in Nat /\ SeqAfter(LastRecord) \in Nat
  BY <1>2, LastIsOnDisk, DiskIsMade, MadeIs DEF SeqAfter, GENESIS
<1>6. Types'
  <2>1. state' \in [prev : Nat, seq : Nat] /\ queue' \in Seq(Nat)
    BY <1>1, <1>5
  <2> QED
    BY <1>1, <1>2, <1>4, <2>1 DEF Types
<1>7. Lives'
  <2>1. \A n \in DOMAIN made : made[n].life # life'
    BY <1>1, <1>2
  <2> QED
    BY <1>1, <1>2, <2>1 DEF Lives
<1>8. \A n : ~Pending(n) /\ ~Pending(n)'
  <2>1. ~At("open") /\ ~At("line") /\ core.pc # "sending" /\ queue = <<>>
    BY <1>1, <1>2 DEF Flight, At
  <2> QED
    BY <1>1, <1>4, <2>1 DEF Pending, At
<1>9. Flight'
  BY <1>1, <1>4, <1>8 DEF Flight, At
<1>10. Found'
  BY <1>1, <1>2, <1>8 DEF Found, Accounted, OnDisk
<1>11. Folder'
  BY <1>1, <1>3, <1>4, FolderKept DEF At, More
<1>12. Flow'
  <2>1. OnDisk' = OnDisk /\ (Glued' <=> Glued) /\ LastRecord' = LastRecord /\ (Intact => Intact')
    BY <1>1, <1>2, SameDisk DEF More
  <2>2. state'.prev = LastRecord' /\ \A n \in DOMAIN made : made[n].life # life'
    BY <1>1, <1>2, <2>1
  <2> QED
    BY <1>1, <1>2, <2>1, <2>2 DEF Flow
<1> QED
  BY <1>6, <1>7, <1>9, <1>10, <1>11, <1>12 DEF AuditInv

LEMMA AppendStep ==
  ASSUME AuditInv, NEW day \in 1 .. Days, Append_(day)
  PROVE  AuditInv'
<1>1. PICK rec, N :
        /\ rec = [prev |-> state.prev, id |-> state.seq, day |-> day, life |-> life]
        /\ N = Len(made) + 1 /\ core.pc = "up" /\ made' = Append(made, rec)
        /\ state' = [prev |-> N, seq |-> state.seq + 1]
        /\ core' = [pc |-> "sending", rec |-> N]
        /\ queue' = queue /\ writer' = writer /\ files' = files /\ exists' = exists
        /\ failed' = failed /\ lost' = lost /\ promised' = promised /\ life' = life
  BY DEF Append_, disk, ghosts
<1>2. Types /\ Lives /\ Flight /\ Found /\ Folder /\ Flow
  BY DEF AuditInv
<1>3. /\ rec \in Records /\ rec.prev = state.prev /\ rec.life = life
      /\ state.prev \in Nat /\ state.seq \in Nat /\ life \in Nat
  BY <1>1, <1>2 DEF Types, Records
<1>4. /\ made \in Seq(Records) /\ Len(made) \in Nat /\ DOMAIN made = 1 .. Len(made)
      /\ \A n \in DOMAIN made : made[n].life \in Nat /\ made[n].life <= life
  BY <1>2, MadeIs DEF Types, Lives
<1>5. /\ made' \in Seq(Records) /\ Len(made') = N /\ DOMAIN made' = 1 .. N
      /\ N \in Nat /\ N = Len(made) + 1
      /\ \A n \in DOMAIN made : made'[n] = made[n]
      /\ made'[N] = rec
  BY <1>1, <1>3, <1>4, AppendProperties, LenProperties
<1>6. DOMAIN made' = DOMAIN made \union {N} /\ N \notin DOMAIN made /\ \A n \in DOMAIN made : n < N
  BY <1>1, <1>4, <1>5
<1>7. More
  BY <1>5, <1>6 DEF More
<1>8. OnDisk' = OnDisk /\ (Glued' <=> Glued) /\ LastRecord' = LastRecord /\ (Intact => Intact')
  BY <1>1, <1>2, <1>7, SameDisk
<1>9. OnDisk \subseteq DOMAIN made
  BY <1>2, DiskIsMade
<1>10. Types'
  BY <1>1, <1>2, <1>3, <1>5 DEF Types
<1>11. Lives'
  <2>1. \A n \in DOMAIN made' : made'[n].life <= life
    <3>1. \A n \in DOMAIN made : made'[n].life <= life
      BY <1>4, <1>5
    <3>2. made'[N].life <= life
      BY <1>3, <1>5
    <3> QED
      BY <1>6, <3>1, <3>2
  <2>2. \A m, n \in DOMAIN made' : m < n => m \in DOMAIN made
    BY ONLY <1>4, <1>5
  <2>3. \A m, n \in DOMAIN made' : m < n => made'[m].life <= made'[n].life
    BY <1>2, <1>3, <1>4, <1>5, <1>6, <2>2 DEF Lives
  <2>4. ASSUME NEW n \in DOMAIN made', n > 1, made'[n - 1].life = made'[n].life
        PROVE  made'[n].prev = n - 1
    <3>1. PICK o : o = n - 1 /\ o \in DOMAIN made /\ made'[o] = made[o]
      BY ONLY <1>4, <1>5, <2>4
    <3>2. CASE n \in DOMAIN made
      BY <1>2, <1>5, <2>4, <3>1, <3>2 DEF Lives
    <3>3. CASE n = N
      <4>1. made[o].life = life /\ o = Len(made)
        BY <1>1, <1>3, <1>4, <1>5, <2>4, <3>1, <3>3
      <4> QED
        BY <1>1, <1>2, <1>3, <1>5, <3>1, <3>3, <4>1 DEF Lives
    <3> QED
      BY <1>6, <3>2, <3>3
  <2>5. state'.prev = Len(made')
    BY <1>1, <1>5
  <2> QED
    BY <1>1, <2>1, <2>3, <2>4, <2>5 DEF Lives
<1>12. \A n : Pending(n)' <=> Pending(n) \/ n = N
  BY <1>1 DEF Pending, At
<1>13. Flight'
  <2>1. \A i \in DOMAIN queue : queue[i] # FLUSH => queue[i] < N
    BY <1>2, <1>6 DEF Flight
  <2>2. At("open") \/ At("line") => writer.rec < N
    BY <1>2, <1>6 DEF Flight
  <2>3. \A n \in DOMAIN made' : Pending(n)' => made'[n].life = life' /\ \A r \in OnDisk' : r < n
    BY <1>1, <1>2, <1>3, <1>5, <1>6, <1>8, <1>9, <1>12 DEF Flight
  <2> QED
    BY <1>1, <1>2, <1>5, <1>6, <2>1, <2>2, <2>3 DEF Flight, At
<1>14. Found'
  BY <1>1, <1>2, <1>5, <1>6, <1>8, <1>12 DEF Found, Accounted
<1>15. Folder'
  BY <1>1, <1>7, FolderStays
<1>16. Flow'
  <2>1. SUFFICES ASSUME failed = {}, ~Glued, NEW n \in DOMAIN made', n \notin OnDisk,
                        made'[n].life = life, n = 1 \/ made'[n - 1].life # life
                 PROVE  made'[n].prev = LastRecord
    <3>1. \A r \in OnDisk' : failed = {} /\ ~Glued => r <= LastRecord'
      BY <1>2, <1>8 DEF Flow
    <3>2. made'[N].life = life
      BY <1>3, <1>5
    <3> QED
      BY <1>1, <1>2, <1>5, <1>6, <1>8, <3>1, <3>2 DEF Flow
  <2>2. CASE n \in DOMAIN made
    <3>1. n = 1 \/ made[n - 1].life # life
      BY <1>4, <1>5, <2>1, <2>2
    <3> QED
      BY <1>1, <1>2, <1>5, <2>1, <2>2, <3>1 DEF Flow
  <2>3. CASE n = N
    <3>1. \A m \in DOMAIN made : made[m].life # life
      <4>1. ASSUME NEW m \in DOMAIN made, made[m].life = life
            PROVE  FALSE
        <5>1. PICK o : o = N - 1 /\ o \in DOMAIN made /\ m <= o /\ N # 1
          BY <1>1, <1>4, <4>1, SMTT(30)
        <5>2. made[o].life = life
          BY <1>2, <1>4, <4>1, <5>1 DEF Lives
        <5> QED
          BY <1>5, <2>1, <2>3, <5>1, <5>2
      <4> QED
        BY <4>1
    <3> QED
      BY <1>1, <1>2, <1>3, <1>5, <2>1, <2>3, <3>1 DEF Flow
  <2> QED
    BY <1>6, <2>2, <2>3
<1> QED
  BY <1>10, <1>11, <1>13, <1>14, <1>15, <1>16 DEF AuditInv

LEMMA SendStep ==
  ASSUME AuditInv, Send
  PROVE  AuditInv'
<1>1. PICK n, q :
        /\ n = core.rec /\ q = Append(queue, n) /\ queue' = q
        /\ core.pc = "sending" /\ core' = [pc |-> "up", rec |-> 0]
        /\ made' = made /\ state' = state /\ writer' = writer /\ files' = files /\ exists' = exists
        /\ failed' = failed /\ lost' = lost /\ promised' = promised /\ life' = life
  BY DEF Send, disk, ghosts
<1>2. Types /\ Lives /\ Flight /\ Found /\ Folder /\ Flow
  BY DEF AuditInv
<1>3. n \in Nat /\ n \in DOMAIN made
  BY <1>1, <1>2 DEF Types, Flight
<1>4. /\ q \in Seq(Nat) /\ Len(queue) \in Nat /\ Len(q) = Len(queue) + 1
      /\ DOMAIN queue = 1 .. Len(queue) /\ DOMAIN q = 1 .. Len(q) /\ q # <<>>
      /\ \A i \in DOMAIN queue : i \in DOMAIN q /\ q[i] = queue[i]
      /\ q[Len(q)] = n
      /\ \A i \in DOMAIN q : i \in DOMAIN queue \/ i = Len(q)
  <2>1. Longer(q, n)
    BY <1>1, <1>2, <1>3, Appended
  <2> QED
    BY <2>1 DEF Longer
<1>5. Types'
  BY <1>1, <1>2, <1>4 DEF Types
<1>6. \A m : Pending(m)' <=> Pending(m)
  <2>1. Len(q) \in DOMAIN q
    BY <1>4
  <2>2. \A m : (\E i \in DOMAIN q : q[i] = m) <=> m = n \/ \E i \in DOMAIN queue : queue[i] = m
    BY <1>4, <2>1
  <2> QED
    BY <1>1, <2>2 DEF Pending, At
<1>7. OnDisk' = OnDisk
  BY <1>1, <1>2, SameDisk DEF More
<1>8. Flight'
  <2>1. \A i \in DOMAIN q : q[i] = FLUSH \/ q[i] \in DOMAIN made
    BY <1>2, <1>3, <1>4 DEF Flight
  <2>2. ASSUME NEW i \in DOMAIN q, NEW j \in DOMAIN q, i < j, q[i] # FLUSH, q[j] # FLUSH
        PROVE  q[i] < q[j]
    <3>1. i \in DOMAIN queue
      BY <1>4, <2>2
    <3> QED
      BY <1>1, <1>2, <1>4, <2>2, <3>1 DEF Flight
  <2>3. At("open") \/ At("line") => \A i \in DOMAIN q : q[i] # FLUSH => writer.rec < q[i]
    BY <1>1, <1>2, <1>4 DEF Flight
  <2> QED
    BY <1>1, <1>2, <1>6, <1>7, <2>1, <2>2, <2>3 DEF Flight, At
<1>9. Found'
  BY <1>1, <1>6, <1>7, FoundKept DEF Accounted
<1>10. Lives' /\ Folder' /\ Flow'
  BY <1>1, LivesKept, FolderStays, FlowKept DEF More
<1> QED
  BY <1>5, <1>8, <1>9, <1>10 DEF AuditInv

LEMMA FlushStep ==
  ASSUME AuditInv, Flush
  PROVE  AuditInv'
<1>1. PICK q :
        /\ q = Append(queue, FLUSH) /\ queue' = q
        /\ core.pc = "up" /\ core' = [pc |-> "flushing", rec |-> Len(made)]
        /\ made' = made /\ state' = state /\ writer' = writer /\ files' = files /\ exists' = exists
        /\ failed' = failed /\ lost' = lost /\ promised' = promised /\ life' = life
  BY DEF Flush, disk, ghosts
<1>2. Types /\ Lives /\ Flight /\ Found /\ Folder /\ Flow
  BY DEF AuditInv
<1>3. Len(made) \in Nat /\ FLUSH \in Nat /\ FLUSH \notin DOMAIN made
  BY <1>2, MadeIs DEF FLUSH
<1>4. /\ q \in Seq(Nat) /\ Len(queue) \in Nat /\ Len(q) = Len(queue) + 1
      /\ DOMAIN queue = 1 .. Len(queue) /\ DOMAIN q = 1 .. Len(q) /\ q # <<>>
      /\ \A i \in DOMAIN queue : i \in DOMAIN q /\ q[i] = queue[i]
      /\ q[Len(q)] = FLUSH
      /\ \A i \in DOMAIN q : i \in DOMAIN queue \/ i = Len(q)
  <2>1. Longer(q, FLUSH)
    BY <1>1, <1>2, <1>3, Appended
  <2> QED
    BY <2>1 DEF Longer
<1>5. Types'
  BY <1>1, <1>2, <1>3, <1>4 DEF Types
<1>6. \A m \in DOMAIN made : Pending(m)' <=> Pending(m)
  <2>1. \A m \in DOMAIN made : (\E i \in DOMAIN q : q[i] = m) <=> \E i \in DOMAIN queue : queue[i] = m
    BY <1>3, <1>4
  <2> QED
    BY <1>1, <2>1 DEF Pending, At
<1>7. OnDisk' = OnDisk
  BY <1>1, <1>2, SameDisk DEF More
<1>8. Flight'
  <2>1. \A i \in DOMAIN q : q[i] # FLUSH => i \in DOMAIN queue /\ q[i] = queue[i]
    BY <1>4
  <2> QED
    BY <1>1, <1>2, <1>4, <1>6, <1>7, <2>1 DEF Flight, At
<1>9. Found'
  BY <1>1, <1>6, <1>7, FoundKept DEF Accounted
<1>10. Lives' /\ Folder' /\ Flow'
  BY <1>1, LivesKept, FolderStays, FlowKept DEF More
<1> QED
  BY <1>5, <1>8, <1>9, <1>10 DEF AuditInv

LEMMA QuietStep ==
  ASSUME AuditInv, FlushTimesOut \/ Close
  PROVE  AuditInv'
<1>1. /\ core.pc \in {"flushing", "up"} /\ core'.pc \in {"up", "closing"}
      /\ core' \in [pc : {"down", "up", "sending", "flushing", "closing"}, rec : Nat]
      /\ queue' = queue
      /\ made' = made /\ state' = state /\ writer' = writer /\ files' = files /\ exists' = exists
      /\ failed' = failed /\ lost' = lost /\ promised' = promised /\ life' = life
  BY DEF FlushTimesOut, Close, disk, ghosts
<1>2. Types /\ Flight /\ Folder
  BY DEF AuditInv
<1>3. Types'
  BY <1>1, <1>2 DEF Types
<1>4. \A m : Pending(m)' <=> Pending(m)
  BY <1>1 DEF Pending, At
<1>5. OnDisk' = OnDisk
  BY <1>1, <1>2, SameDisk DEF More
<1>6. Flight'
  BY <1>1, <1>2, <1>4, <1>5 DEF Flight, At
<1>7. Found'
  BY <1>1, <1>4, <1>5, FoundKept DEF Accounted
<1>8. Lives' /\ Folder' /\ Flow'
  BY <1>1, LivesKept, FolderStays, FlowKept DEF More
<1> QED
  BY <1>3, <1>6, <1>7, <1>8 DEF AuditInv

\* The log goes, or the process: nothing is on its way any more.
LEMMA EndStep ==
  ASSUME AuditInv, Closed \/ Kill
  PROVE  AuditInv'
<1>1. /\ core.pc # "down" /\ core' = [pc |-> "down", rec |-> 0] /\ writer' = NoWriter
      /\ made' = made /\ state' = state /\ files' = files /\ exists' = exists
      /\ failed' = failed /\ promised' = promised /\ life' = life
      /\ \/ Closed /\ queue' = queue /\ lost' = lost
         \/ queue' = <<>> /\ lost' = lost \cup (DOMAIN made \ (OnDisk \cup failed))
  BY DEF Closed, Kill, Up, disk, ghosts
<1>2. Types /\ Lives /\ Flight /\ Found /\ Folder /\ Flow
  BY DEF AuditInv
<1>3. queue' = <<>> /\ writer' \in Writers /\ writer'.pc = "off"
  BY <1>1, Bounds DEF Closed, NoWriter, Writers
<1>4. Types'
  BY <1>1, <1>2, <1>3 DEF Types
<1>5. OnDisk' = OnDisk
  BY <1>1, <1>2, SameDisk DEF More
<1>6. \A n : ~Pending(n)'
  BY <1>1, <1>3 DEF Pending, At
<1>7. Flight'
  BY <1>1, <1>3, <1>6 DEF Flight, At
<1>8. \A n \in DOMAIN made : n \in Accounted'
  <2>1. CASE Closed /\ lost' = lost
    <3>1. queue = <<>> /\ writer.pc = "recv" /\ core.pc = "closing"
      BY <2>1 DEF Closed, At
    <3>2. \A n : ~Pending(n)
      BY <3>1 DEF Pending, At
    <3> QED
      BY <1>1, <1>2, <1>5, <2>1, <3>2 DEF Found, Accounted
  <2>2. CASE lost' = lost \cup (DOMAIN made \ (OnDisk \cup failed))
    BY <1>1, <1>5, <2>2 DEF Accounted
  <2> QED
    BY <1>1, <2>1, <2>2
<1>9. Found'
  BY <1>1, <1>2, <1>5, <1>8 DEF Found, Accounted
<1>10. Lives' /\ Flow'
  BY <1>1, LivesKept, FlowKept
<1>11. Folder'
  BY <1>1, <1>3, FolderKept DEF At, More
<1> QED
  BY <1>4, <1>7, <1>9, <1>10, <1>11 DEF AuditInv
-----------------------------------------------------------------------------
(* The writer's steps. *)

\* A record is taken from the queue.
LEMMA TakeStep ==
  ASSUME AuditInv, Recv, Head(queue) # FLUSH
  PROVE  AuditInv'
<1>1. PICK h, q :
        /\ h = Head(queue) /\ q = Tail(queue) /\ queue' = q /\ queue # <<>> /\ writer.pc = "recv"
        /\ h # FLUSH
        /\ writer' = [writer EXCEPT !.rec = h, !.pc = IF writer.open = DayOf(h) THEN "line" ELSE "open"]
        /\ core' = core /\ made' = made /\ state' = state /\ files' = files /\ exists' = exists
        /\ failed' = failed /\ lost' = lost /\ promised' = promised /\ life' = life
  BY DEF Recv, Elsewhere, disk, At
<1>2. Types /\ Lives /\ Flight /\ Found /\ Folder /\ Flow
  BY DEF AuditInv
<1>3. /\ q \in Seq(Nat) /\ Len(queue) \in Nat \ {0} /\ Len(q) = Len(queue) - 1
      /\ DOMAIN queue = 1 .. Len(queue) /\ DOMAIN q = 1 .. Len(q)
      /\ q # <<>> <=> Len(queue) > 1
      /\ 1 \in DOMAIN queue /\ h = queue[1]
      /\ \A i \in DOMAIN q : i + 1 \in DOMAIN queue /\ q[i] = queue[i + 1]
      /\ \A i \in DOMAIN queue : i = 1 \/ (i - 1 \in DOMAIN q /\ q[i - 1] = queue[i])
  <2>1. Rest(q)
    BY <1>1, <1>2, Taken
  <2> QED
    BY <1>1, <2>1 DEF Rest
<1>4. h \in DOMAIN made /\ h \in Nat /\ made[h].day \in 1 .. Days
  BY <1>1, <1>2, <1>3, MadeIs DEF Flight
<1>5. /\ writer' \in Writers /\ writer'.rec = h /\ writer'.pc \in {"open", "line"}
      /\ writer'.open = writer.open /\ writer'.floor = writer.floor
      /\ writer'.pc = "line" => writer.open = DayOf(h)
  BY <1>1, <1>2, <1>4 DEF Types, Writers
<1>6. Types'
  BY <1>1, <1>2, <1>3, <1>5 DEF Types
<1>7. \A m : Pending(m)' <=> Pending(m)
  <2>1. \A m : (\E i \in DOMAIN queue : queue[i] = m) <=> m = h \/ \E i \in DOMAIN q : q[i] = m
    BY <1>3
  <2>2. \A m : Pending(m) <=>
          (\E i \in DOMAIN queue : queue[i] = m) \/ (core.pc = "sending" /\ m = core.rec)
    BY <1>1 DEF Pending, At
  <2>3. \A m : Pending(m)' <=>
          (m = h \/ \E i \in DOMAIN q : q[i] = m) \/ (core.pc = "sending" /\ m = core.rec)
    BY <1>1, <1>5 DEF Pending, At
  <2> QED
    BY <2>1, <2>2, <2>3
<1>8. OnDisk' = OnDisk
  BY <1>1, <1>2, SameDisk DEF More
<1>9. Flight'
  <2>1. \A i \in DOMAIN q : q[i] = FLUSH \/ q[i] \in DOMAIN made
    BY <1>2, <1>3 DEF Flight
  <2>2. \A i, j \in DOMAIN queue :
          i < j /\ queue[i] # FLUSH /\ queue[j] # FLUSH => queue[i] < queue[j]
    BY <1>2 DEF Flight
  <2>3. \A i, j \in DOMAIN q : i < j /\ q[i] # FLUSH /\ q[j] # FLUSH => q[i] < q[j]
    <3>1. ASSUME NEW i \in DOMAIN q, NEW j \in DOMAIN q, i < j, q[i] # FLUSH, q[j] # FLUSH
          PROVE  q[i] < q[j]
      <4>1. PICK k, l : k = i + 1 /\ l = j + 1
        OBVIOUS
      <4>2. k \in DOMAIN queue /\ l \in DOMAIN queue /\ q[i] = queue[k] /\ q[j] = queue[l] /\ k < l
        BY <1>3, <3>1, <4>1
      <4> QED
        BY <2>2, <3>1, <4>2
    <3> QED
      BY <3>1
  <2>4. ASSUME NEW i \in DOMAIN q, q[i] # FLUSH PROVE h < q[i]
    <3>1. PICK k : k = i + 1 /\ k \in DOMAIN queue /\ q[i] = queue[k] /\ 1 < k
      BY <1>3, <2>4
    <3> QED
      BY <1>1, <1>3, <2>2, <2>4, <3>1
  <2>5. core.pc = "sending" =>
          (\A i \in DOMAIN queue : queue[i] # FLUSH => queue[i] < core.rec)
    BY <1>2 DEF Flight
  <2>6. core.pc = "sending" =>
          h < core.rec /\ \A i \in DOMAIN q : q[i] # FLUSH => q[i] < core.rec
    BY <1>1, <1>3, <2>5
  <2>7. core.pc = "flushing" => q # <<>> /\ q[Len(q)] = FLUSH /\ core.rec = Len(made)
    <3>1. SUFFICES ASSUME core.pc = "flushing"
                   PROVE  q # <<>> /\ q[Len(q)] = FLUSH /\ core.rec = Len(made)
      OBVIOUS
    <3>2. queue[Len(queue)] = FLUSH /\ core.rec = Len(made)
      BY <1>2, <3>1 DEF Flight
    <3>3. PICK n : n = Len(queue) /\ n \in DOMAIN queue /\ n # 1
      BY <1>1, <1>3, <3>2
    <3> QED
      BY <1>3, <3>2, <3>3
  <2>8. core.pc # "down"
    BY <1>1, <1>2 DEF Flight, At
  <2>9. \A n \in DOMAIN made : Pending(n) => made[n].life = life /\ \A r \in OnDisk : r < n
    BY <1>2 DEF Flight
  <2>10. core.pc = "sending" => core.rec = Len(made) /\ core.rec \in DOMAIN made
    BY <1>2 DEF Flight
  <2> QED
    BY ONLY <1>1, <1>4, <1>5, <1>7, <1>8, <2>1, <2>3, <2>4, <2>6, <2>7, <2>8, <2>9, <2>10
       DEF Flight, At
<1>10. Found'
  BY <1>1, <1>7, <1>8, FoundKept DEF Accounted
<1>11. Lives' /\ Flow'
  BY <1>1, LivesKept, FlowKept
<1>12. Folder'
  <2>1. writer'.pc = "line" => writer.open # 0
    BY <1>2, <1>4, <1>5, Bounds DEF DayOf, Types, Writers
  <2> QED
    BY <1>1, <1>2, <1>5, <2>1, FolderKept DEF At, More, Folder
<1> QED
  BY <1>6, <1>9, <1>10, <1>11, <1>12 DEF AuditInv

\* A flush is answered: it was the last in the line, and nothing is on its way.
LEMMA AnswerStep ==
  ASSUME AuditInv, Recv, Head(queue) = FLUSH
  PROVE  AuditInv'
<1>1. PICK q :
        /\ q = Tail(queue) /\ queue' = q /\ queue # <<>> /\ writer.pc = "recv" /\ writer' = writer
        /\ \/ /\ core.pc = "flushing" /\ \A i \in 2 .. Len(queue) : queue[i] # FLUSH
              /\ core' = [pc |-> "up", rec |-> 0] /\ promised' = promised \cup (1 .. core.rec)
           \/ /\ core.pc = "flushing" => \E i \in 2 .. Len(queue) : queue[i] = FLUSH
              /\ core' = core /\ promised' = promised
        /\ made' = made /\ state' = state /\ files' = files /\ exists' = exists
        /\ failed' = failed /\ lost' = lost /\ life' = life
  BY DEF Recv, Elsewhere, disk, At
<1>2. Types /\ Lives /\ Flight /\ Found /\ Folder /\ Flow
  BY DEF AuditInv
<1>3. /\ q \in Seq(Nat) /\ Len(queue) \in Nat \ {0} /\ Len(q) = Len(queue) - 1
      /\ DOMAIN queue = 1 .. Len(queue) /\ DOMAIN q = 1 .. Len(q)
      /\ q # <<>> <=> Len(queue) > 1
      /\ 1 \in DOMAIN queue /\ queue[1] = FLUSH
      /\ \A i \in DOMAIN q : i + 1 \in DOMAIN queue /\ q[i] = queue[i + 1]
      /\ \A i \in DOMAIN queue : i = 1 \/ (i - 1 \in DOMAIN q /\ q[i - 1] = queue[i])
  <2>1. Rest(q)
    BY <1>1, <1>2, Taken
  <2> QED
    BY <2>1 DEF Rest
<1>4. Types'
  BY <1>1, <1>2, <1>3 DEF Types
<1>5. core.pc # "down" /\ core'.pc # "down" /\ (core'.pc = "sending" <=> core.pc = "sending")
  BY <1>1, <1>2 DEF Flight, At
<1>6. \A m \in DOMAIN made : Pending(m)' <=> Pending(m)
  <2>1. FLUSH \notin DOMAIN made
    BY <1>2, MadeIs DEF FLUSH
  <2>2. \A m \in DOMAIN made : (\E i \in DOMAIN queue : queue[i] = m) <=> \E i \in DOMAIN q : q[i] = m
    BY <1>3, <2>1
  <2> QED
    BY <1>1, <1>5, <2>2 DEF Pending, At
<1>7. OnDisk' = OnDisk
  BY <1>1, <1>2, SameDisk DEF More
<1>8. Flight'
  <2>1. \A i \in DOMAIN q : q[i] = FLUSH \/ q[i] \in DOMAIN made
    BY <1>2, <1>3 DEF Flight
  <2>2. \A i, j \in DOMAIN queue :
          i < j /\ queue[i] # FLUSH /\ queue[j] # FLUSH => queue[i] < queue[j]
    BY <1>2 DEF Flight
  <2>3. \A i, j \in DOMAIN q : i < j /\ q[i] # FLUSH /\ q[j] # FLUSH => q[i] < q[j]
    <3>1. ASSUME NEW i \in DOMAIN q, NEW j \in DOMAIN q, i < j, q[i] # FLUSH, q[j] # FLUSH
          PROVE  q[i] < q[j]
      <4>1. PICK k, l : k = i + 1 /\ l = j + 1
        OBVIOUS
      <4>2. k \in DOMAIN queue /\ l \in DOMAIN queue /\ q[i] = queue[k] /\ q[j] = queue[l] /\ k < l
        BY <1>3, <3>1, <4>1
      <4> QED
        BY <2>2, <3>1, <4>2
    <3> QED
      BY <3>1
  <2>4. core.pc = "sending" =>
          /\ \A i \in DOMAIN queue : queue[i] # FLUSH => queue[i] < core.rec
          /\ core.rec = Len(made) /\ core.rec \in DOMAIN made
    BY <1>2 DEF Flight
  <2>5. core.pc = "sending" => \A i \in DOMAIN q : q[i] # FLUSH => q[i] < core.rec
    BY <1>3, <2>4
  <2>6. core'.pc = "flushing" => q # <<>> /\ q[Len(q)] = FLUSH /\ core'.rec = Len(made)
    <3>1. SUFFICES ASSUME core'.pc = "flushing"
                   PROVE  q # <<>> /\ q[Len(q)] = FLUSH /\ core'.rec = Len(made)
      OBVIOUS
    <3>2. core' = core /\ core.pc = "flushing" /\ \E i \in 2 .. Len(queue) : queue[i] = FLUSH
      BY <1>1, <3>1
    <3>3. queue[Len(queue)] = FLUSH /\ core.rec = Len(made)
      BY <1>2, <3>2 DEF Flight
    <3>4. PICK n : n = Len(queue) /\ n \in DOMAIN queue /\ n # 1
      BY <1>3, <3>2
    <3>5. n - 1 \in DOMAIN q /\ n - 1 = Len(q) /\ q[n - 1] = queue[n]
      BY <1>3, <3>4
    <3>6. core'.rec = Len(made) /\ q[Len(q)] = FLUSH
      BY <3>2, <3>3, <3>4, <3>5
    <3> QED
      BY <1>3, <3>4, <3>6
  <2>7. \A n \in DOMAIN made : Pending(n) => made[n].life = life /\ \A r \in OnDisk : r < n
    BY <1>2 DEF Flight
  <2>8. core'.pc = "sending" => core' = core
    BY <1>1
  <2> QED
    BY ONLY <1>1, <1>5, <1>6, <1>7, <2>1, <2>3, <2>4, <2>5, <2>6, <2>7, <2>8 DEF Flight, At
<1>9. Found'
  <2>1. CASE promised' = promised
    BY <1>1, <1>5, <1>6, <1>7, <2>1, FoundKept DEF Accounted
  <2>2. CASE /\ core.pc = "flushing" /\ \A i \in 2 .. Len(queue) : queue[i] # FLUSH
             /\ promised' = promised \cup (1 .. core.rec)
    <3>1. queue[Len(queue)] = FLUSH /\ core.rec = Len(made)
      BY <1>2, <2>2 DEF Flight
    <3>2. q = <<>>
      BY <1>3, <2>2, <3>1
    <3>3. \A m \in DOMAIN made : ~Pending(m)
      <4>1. \A m : ~(\E i \in DOMAIN q : q[i] = m)
        BY <1>3, <3>2
      <4>2. \A m : ~Pending(m)'
        BY <1>1, <1>5, <2>2, <4>1 DEF Pending, At
      <4> QED
        BY <1>6, <4>2
    <3>4. \A m \in DOMAIN made : m \in Accounted
      BY <1>2, <3>3 DEF Found
    <3>5. DOMAIN made = 1 .. core.rec
      BY <1>2, <3>1, MadeIs
    <3>6. Accounted' = Accounted
      BY <1>1, <1>7 DEF Accounted
    <3> QED
      BY <1>1, <1>2, <1>5, <2>2, <3>4, <3>5, <3>6 DEF Found
  <2> QED
    BY <1>1, <2>1, <2>2
<1>10. Lives' /\ Folder' /\ Flow'
  BY <1>1, <1>5, LivesKept, FolderStays, FlowKept DEF More
<1> QED
  BY <1>4, <1>8, <1>9, <1>10 DEF AuditInv

\* The file of the day is opened, and it is the newest.
LEMMA OpenFileStep ==
  ASSUME AuditInv, OpenFile
  PROVE  AuditInv'
<1>1. PICK n, d :
        /\ n = writer.rec /\ d = DayOf(n) /\ writer.pc = "open"
        /\ exists' = exists \cup {d}
        /\ writer' = [writer EXCEPT !.open = d, !.floor = d, !.pc = "line"]
        /\ core' = core /\ queue' = queue /\ made' = made /\ state' = state /\ files' = files
        /\ failed' = failed /\ lost' = lost /\ promised' = promised /\ life' = life
  BY DEF OpenFile, Elsewhere, At
<1>2. Types /\ Lives /\ Flight /\ Found /\ Folder /\ Flow
  BY DEF AuditInv
<1>3. n \in DOMAIN made /\ made[n].day \in 1 .. Days /\ writer.floor \in 0 .. Days
  BY <1>1, <1>2, MadeIs DEF Flight, At, Types, Writers
<1>4. d \in 1 .. Days /\ writer.floor <= d
  BY <1>1, <1>3, Bounds DEF DayOf
<1>5. /\ writer' \in Writers /\ writer'.rec = n /\ writer'.pc = "line"
      /\ writer'.open = d /\ writer'.floor = d
  <2>1. PICK v : v = writer /\ v \in Writers /\ v.rec = n
    BY <1>1, <1>2 DEF Types
  <2>2. PICK w : w = [v EXCEPT !.open = d, !.floor = d, !.pc = "line"]
    OBVIOUS
  <2>3. w \in Writers /\ w.rec = n /\ w.pc = "line" /\ w.open = d /\ w.floor = d
    <3>1. d \in 0 .. Days /\ v \in Writers /\ v.rec = n
      BY <1>4, <2>1, Bounds
    <3> QED
      BY ONLY <2>2, <3>1 DEF Writers
  <2>4. writer' = w
    BY <1>1, <2>1, <2>2
  <2> QED
    BY <2>3, <2>4
<1>6. Types'
  BY <1>1, <1>2, <1>4, <1>5 DEF Types
<1>7. \A m : Pending(m)' <=> Pending(m)
  BY <1>1, <1>5 DEF Pending, At
<1>8. OnDisk' = OnDisk
  BY <1>1, <1>2, SameDisk DEF More
<1>9. Flight'
  BY <1>1, <1>2, <1>5, <1>7, <1>8 DEF Flight, At
<1>10. Found'
  BY <1>1, <1>7, <1>8, FoundKept DEF Accounted
<1>11. Lives' /\ Flow'
  BY <1>1, LivesKept, FlowKept
<1>12. Folder'
  <2>1. \A x \in exists : x <= d
    <3>1. \A x \in exists : x <= writer.floor /\ x \in 1 .. Days
      BY <1>1, <1>2 DEF Folder, At, Types
    <3> QED
      BY <1>3, <1>4, <3>1
  <2>2. \A x \in exists' : x <= d
    BY <1>1, <1>4, <2>1
  <2>3. \A x \in 0 .. Days : Newest(x)' <=> Newest(x)
    BY <1>1 DEF Newest
  <2> QED
    BY <1>1, <1>2, <1>4, <1>5, <2>2, <2>3 DEF Folder, At
<1> QED
  BY <1>6, <1>9, <1>10, <1>11, <1>12 DEF AuditInv

\* A record that is not written is counted.
LEMMA FailStep ==
  ASSUME AuditInv, \/ OpenFails \/ NewlineFails
                   \/ (WriteFails /\ UNCHANGED files)
  PROVE  AuditInv'
<1>1. PICK n, o :
        /\ n = writer.rec /\ o \in {0, writer.open} /\ writer.pc \in {"open", "line", "newline"}
        /\ writer' = [writer EXCEPT !.open = o, !.rec = 0, !.pc = "recv"]
        /\ core' = core /\ queue' = queue /\ made' = made /\ state' = state /\ files' = files
        /\ exists' = exists /\ failed' = failed \cup {n} /\ lost' = lost
        /\ promised' = promised /\ life' = life
  <2>1. CASE OpenFails
    BY <2>1 DEF OpenFails, Elsewhere, disk, At
  <2>2. CASE NewlineFails \/ (WriteFails /\ UNCHANGED files)
    <3>1. writer' = [writer EXCEPT !.rec = 0, !.pc = "recv"]
      BY <2>2 DEF NewlineFails, WriteFails
    <3>2. writer' = [writer EXCEPT !.open = writer.open, !.rec = 0, !.pc = "recv"]
      BY <3>1 DEF AuditInv, Types, Writers
    <3>3. PICK n, o : n = writer.rec /\ o = writer.open
      OBVIOUS
    <3>4. /\ writer.pc \in {"open", "line", "newline"}
          /\ core' = core /\ queue' = queue /\ made' = made /\ state' = state /\ files' = files
          /\ exists' = exists /\ failed' = failed \cup {n} /\ lost' = lost
          /\ promised' = promised /\ life' = life
      BY <2>2, <3>3 DEF NewlineFails, WriteFails, Elsewhere, disk, At
    <3> QED
      BY <3>2, <3>3, <3>4
  <2> QED
    BY <2>1, <2>2
<1>2. Types /\ Lives /\ Flight /\ Found /\ Folder /\ Flow
  BY DEF AuditInv
<1>3. /\ writer' \in Writers /\ writer'.rec = 0 /\ writer'.pc = "recv"
      /\ writer'.open = o /\ writer'.floor = writer.floor
  <2>1. PICK v : v = writer /\ v \in Writers
    BY <1>2 DEF Types
  <2>2. PICK w : w = [v EXCEPT !.open = o, !.rec = 0, !.pc = "recv"]
    OBVIOUS
  <2>3. o \in 0 .. Days
    BY <1>1, <2>1, Bounds DEF Writers
  <2>4. w \in Writers /\ w.rec = 0 /\ w.pc = "recv" /\ w.open = o /\ w.floor = v.floor
    BY <2>1, <2>2, <2>3 DEF Writers
  <2>5. writer' = w
    BY <1>1, <2>1, <2>2
  <2> QED
    BY <2>1, <2>4, <2>5
<1>4. Types'
  BY <1>1, <1>2, <1>3 DEF Types
<1>5. /\ \A m : Pending(m)' => Pending(m)
      /\ \A m : Pending(m) => Pending(m)' \/ m = n
  BY <1>1, <1>3 DEF Pending, At
<1>6. OnDisk' = OnDisk
  BY <1>1, <1>2, SameDisk DEF More
<1>7. Flight'
  BY <1>1, <1>2, <1>3, <1>5, <1>6 DEF Flight, At
<1>8. Found'
  BY <1>1, <1>5, <1>6, FoundKept DEF Accounted
<1>9. Lives' /\ Flow'
  BY <1>1, LivesKept, FlowKept
<1>10. Folder'
  BY <1>1, <1>2, <1>3, FolderKept DEF At, More, Folder
<1> QED
  BY <1>4, <1>7, <1>8, <1>9, <1>10 DEF AuditInv
-----------------------------------------------------------------------------
(* What a write does to a file. *)

\* g is was, with line for its last one.
Ends(g, was, line) ==
  /\ g \in Seq(LineSet) /\ Len(was) \in Nat \ {0} /\ Len(g) = Len(was)
  /\ DOMAIN was = 1 .. Len(was) /\ DOMAIN g = 1 .. Len(was)
  /\ \A i \in DOMAIN was : i # Len(was) => g[i] = was[i]
  /\ g[Len(was)] = line

LEMMA EndIs ==
  ASSUME NEW was \in Seq(LineSet), was # <<>>, NEW line \in LineSet,
         NEW g, g = Append(Front(was), line)
  PROVE  Ends(g, was, line)
<1>1. /\ Len(was) \in Nat \ {0} /\ DOMAIN was = 1 .. Len(was)
      /\ \A i \in DOMAIN was : was[i] \in LineSet
  BY LenProperties, EmptySeq, ElementOfSeq
<1>2. PICK front, k : front = Front(was) /\ k = Len(was) - 1
  OBVIOUS
<1>3. k \in Nat /\ front = SubSeq(was, 1, k) /\ Len(was) = k + 1
  BY <1>1, <1>2 DEF Front
<1>4. /\ front \in Seq(LineSet) /\ Len(front) = k
      /\ \A i \in 1 .. k : front[i] = was[i]
  <2>1. \A i \in 1 .. k : was[i] \in LineSet
    BY <1>1, <1>3
  <2>2. /\ SubSeq(was, 1, k) \in Seq(LineSet)
        /\ Len(SubSeq(was, 1, k)) = IF 1 <= k THEN k - 1 + 1 ELSE 0
        /\ \A i \in 1 .. k - 1 + 1 : SubSeq(was, 1, k)[i] = was[1 + i - 1]
    BY <1>3, <2>1, SubSeqProperties
  <2>3. \A i \in 1 .. k : i \in 1 .. k - 1 + 1 /\ 1 + i - 1 = i
    BY <1>3
  <2> QED
    BY <1>3, <2>2, <2>3
<1>5. /\ g \in Seq(LineSet) /\ Len(g) = k + 1 /\ g[k + 1] = line
      /\ \A i \in 1 .. k : g[i] = front[i]
  BY <1>2, <1>4, AppendProperties
<1>6. DOMAIN g = 1 .. k + 1
  BY <1>5, LenProperties
<1> QED
  BY <1>1, <1>3, <1>4, <1>5, <1>6 DEF Ends

\* The records of new are those of last, and n behind them.
Joined(new, last, n) ==
  /\ new \in LineSet
  /\ Len(last.recs) \in Nat /\ Len(new.recs) = Len(last.recs) + 1
  /\ DOMAIN last.recs = 1 .. Len(last.recs) /\ DOMAIN new.recs = 1 .. Len(new.recs)
  /\ \A j \in DOMAIN last.recs : new.recs[j] = last.recs[j]
  /\ new.recs[Len(new.recs)] = n

LEMMA JoinedIs ==
  ASSUME NEW last \in LineSet, NEW line \in LineSet, NEW n \in Nat, line.recs = <<n>>, NEW new,
         new = [recs |-> last.recs \o line.recs, torn |-> last.torn \/ line.torn, ended |-> FALSE]
  PROVE  Joined(new, last, n)
<1>1. PICK old : old = last.recs /\ old \in Seq(Nat)
  BY DEF LineSet
<1>2. new.recs = Append(old, n)
  BY <1>1, AppendIsConcat
<1>3. /\ Append(old, n) \in Seq(Nat) /\ Len(Append(old, n)) = Len(old) + 1
      /\ \A j \in 1 .. Len(old) : Append(old, n)[j] = old[j]
      /\ Append(old, n)[Len(old) + 1] = n
  BY <1>1, AppendProperties
<1>4. /\ Len(old) \in Nat /\ DOMAIN old = 1 .. Len(old)
      /\ DOMAIN Append(old, n) = 1 .. Len(Append(old, n))
  BY <1>1, <1>3, LenProperties
<1>5. new \in LineSet
  <2>1. last.torn \in BOOLEAN /\ line.torn \in BOOLEAN
    BY DEF LineSet
  <2>2. (last.torn \/ line.torn) \in BOOLEAN
    BY <2>1
  <2>3. last.recs \o line.recs \in Seq(Nat)
    BY <1>2, <1>3
  <2> QED
    BY <2>2, <2>3 DEF LineSet
<1> QED
  BY <1>1, <1>2, <1>3, <1>4, <1>5 DEF Joined

\* What the disk is after a line with record n went to the file of day d.
Written(d, n, line) ==
  /\ files' \in [0 .. Days -> Seq(LineSet)]
  /\ \A x \in 0 .. Days : x # d => files'[x] = files[x]
  /\ files'[d] # <<>>
  /\ \A x \in 0 .. Days : \A i \in DOMAIN files'[x] : files'[x][i].recs # <<>>
  /\ \A m : m \in OnDisk' <=> m \in OnDisk \/ m = n
  /\ Glued => Glued'
  /\ Glued' \/ files'[d] = Append(files[d], line)

LEMMA PutIs ==
  ASSUME Types, Folder, NEW line \in LineSet, NEW n \in Nat, line.recs = <<n>>, Put(line),
         NEW d \in 0 .. Days, d = writer.open
  PROVE  Written(d, n, line)
<1>1. PICK was, g :
        /\ was = files[d] /\ g = files'[d]
        /\ g = IF was = <<>> \/ Last(was).ended THEN Append(was, line)
               ELSE Append(Front(was), [recs |-> Last(was).recs \o line.recs,
                                        torn |-> Last(was).torn \/ line.torn, ended |-> FALSE])
        /\ \A x \in 0 .. Days : x # d => files'[x] = files[x]
        /\ files' = [files EXCEPT ![d] = g]
  BY DEF Put, Types
<1>2. /\ was \in Seq(LineSet) /\ Len(was) \in Nat /\ DOMAIN was = 1 .. Len(was)
      /\ \A i \in DOMAIN was : was[i] \in LineSet /\ was[i].recs # <<>>
  BY <1>1, FileIs DEF Folder
<1>3. line.recs # <<>> /\ DOMAIN line.recs = 1 .. 1 /\ line.recs[1] = n
  OBVIOUS
<1> DEFINE In(f, m) == \E i \in DOMAIN f : \E j \in DOMAIN f[i].recs : f[i].recs[j] = m
<1> DEFINE Sticks(f) == \E i \in DOMAIN f : Len(f[i].recs) > 1
<1>4. ASSUME g \in Seq(LineSet), g # <<>>, \A i \in DOMAIN g : g[i].recs # <<>>,
             \A m : In(g, m) <=> In(was, m) \/ m = n,
             Sticks(was) => Sticks(g), Sticks(g) \/ g = Append(was, line)
      PROVE  Written(d, n, line)
  <2>1. files' \in [0 .. Days -> Seq(LineSet)]
    <3>1. files \in [0 .. Days -> Seq(LineSet)]
      BY DEF Types
    <3> QED
      BY <1>1, <1>4, <3>1
  <2>2. \A m : m \in OnDisk' <=> \E x \in 0 .. Days : In(files'[x], m)
    BY DEF OnDisk, Range
  <2>3. \A m : m \in OnDisk <=> \E x \in 0 .. Days : In(files[x], m)
    BY DEF OnDisk, Range
  <2>4. Glued' <=> \E x \in 0 .. Days : Sticks(files'[x])
    BY DEF Glued
  <2>5. Glued <=> \E x \in 0 .. Days : Sticks(files[x])
    BY DEF Glued
  <2>6. \A x \in 0 .. Days : \A i \in DOMAIN files'[x] : files'[x][i].recs # <<>>
    <3>1. ASSUME NEW x \in 0 .. Days, x # d PROVE \A i \in DOMAIN files'[x] : files'[x][i].recs # <<>>
      BY <1>1, <3>1 DEF Folder
    <3>2. \A i \in DOMAIN files'[d] : files'[d][i].recs # <<>>
      <4>1. files'[d] = g /\ \A i \in DOMAIN g : g[i].recs # <<>>
        BY <1>1, <1>4
      <4> QED
        BY ONLY <4>1
    <3> QED
      BY ONLY <3>1, <3>2
  <2> HIDE DEF In, Sticks
  <2>7. \A x \in 0 .. Days : \A m : In(files'[x], m) <=> In(files[x], m) \/ (x = d /\ m = n)
    BY <1>1, <1>4
  <2>8. \A m : m \in OnDisk' <=> m \in OnDisk \/ m = n
    BY <2>2, <2>3, <2>7
  <2>9. (Glued => Glued') /\ (Glued' \/ files'[d] = Append(files[d], line))
    BY <1>1, <1>4, <2>4, <2>5
  <2> QED
    BY <1>1, <1>4, <2>1, <2>6, <2>8, <2>9 DEF Written
<1>5. CASE was = <<>> \/ Last(was).ended
  <2>0. g = Append(was, line)
    BY <1>1, <1>5
  <2>1. /\ g \in Seq(LineSet) /\ g # <<>> /\ Len(g) = Len(was) + 1
        /\ \A i \in 1 .. Len(was) : g[i] = was[i]
        /\ g[Len(was) + 1] = line
    BY <1>2, <2>0, AppendProperties
  <2>2. DOMAIN g = 1 .. Len(was) + 1
    BY <2>1, LenProperties
  <2>3. PICK k : k = Len(was) + 1 /\ k \in DOMAIN g /\ g[k] = line
    BY <1>2, <2>1, <2>2
  <2>4. \A i \in DOMAIN g : (i \in DOMAIN was /\ g[i] = was[i]) \/ i = k
    BY <1>2, <2>1, <2>2, <2>3
  <2>5. \A i \in DOMAIN was : i \in DOMAIN g /\ g[i] = was[i]
    BY <1>2, <2>1, <2>2
  <2>6. \A i \in DOMAIN g : g[i].recs # <<>>
    BY <1>2, <1>3, <2>3, <2>4
  <2>7. \A m : In(g, m) <=> In(was, m) \/ m = n
    BY <1>3, <2>3, <2>4, <2>5
  <2>8. Sticks(was) => Sticks(g)
    BY <2>5
  <2> QED
    BY <1>4, <2>0, <2>1, <2>6, <2>7, <2>8
<1>6. CASE ~(was = <<>> \/ Last(was).ended)
  <2>1. PICK k, last, new :
          /\ k = Len(was) /\ last = was[k]
          /\ new = [recs |-> last.recs \o line.recs, torn |-> last.torn \/ line.torn, ended |-> FALSE]
          /\ g = Append(Front(was), new)
    <3>1. g = Append(Front(was), [recs |-> Last(was).recs \o line.recs,
                                  torn |-> Last(was).torn \/ line.torn, ended |-> FALSE])
      BY ONLY <1>1, <1>6
    <3>2. Last(was) = was[Len(was)]
      BY DEF Last
    <3> QED
      BY ONLY <3>1, <3>2
  <2>2. k \in DOMAIN was /\ last \in LineSet /\ last.recs # <<>>
    BY <1>2, <1>6, <2>1, EmptySeq
  <2>3. Joined(new, last, n)
    BY <2>1, <2>2, JoinedIs
  <2>4. Ends(g, was, new)
    BY <1>2, <1>6, <2>1, <2>3, EndIs DEF Joined
  <2>5. /\ g \in Seq(LineSet) /\ DOMAIN g = DOMAIN was /\ g[k] = new
        /\ \A i \in DOMAIN was : i # k => g[i] = was[i]
    BY <2>1, <2>4 DEF Ends
  <2>6. g # <<>>
    BY <2>2, <2>5, EmptySeq
  <2>7. PICK l : /\ l = Len(new.recs) /\ l \in DOMAIN new.recs /\ new.recs[l] = n
                 /\ \A j \in DOMAIN new.recs : j \in DOMAIN last.recs \/ j = l
                 /\ \A j \in DOMAIN last.recs : j \in DOMAIN new.recs /\ new.recs[j] = last.recs[j]
    BY <2>3 DEF Joined
  <2>8. Len(new.recs) > 1 /\ new.recs # <<>>
    <3>1. Len(last.recs) > 0
      BY <2>2, LineIs
    <3> QED
      BY <2>3, <3>1, LineIs DEF Joined
  <2>9. \A i \in DOMAIN g : g[i].recs # <<>>
    BY <1>2, <2>5, <2>8
  <2>10. \A m : In(g, m) <=> In(was, m) \/ m = n
    <3>1. ASSUME NEW m, In(g, m) PROVE In(was, m) \/ m = n
      <4>1. PICK i \in DOMAIN g : \E j \in DOMAIN g[i].recs : g[i].recs[j] = m
        BY <3>1
      <4>2. CASE i = k
        BY <2>1, <2>2, <2>5, <2>7, <4>1, <4>2
      <4>3. CASE i # k
        BY <2>5, <4>1, <4>3
      <4> QED
        BY <4>2, <4>3
    <3>2. ASSUME NEW m, In(was, m) PROVE In(g, m)
      <4>1. PICK i \in DOMAIN was : \E j \in DOMAIN was[i].recs : was[i].recs[j] = m
        BY <3>2
      <4>2. CASE i = k
        BY <2>1, <2>2, <2>5, <2>7, <4>1, <4>2
      <4>3. CASE i # k
        BY <2>5, <4>1, <4>3
      <4> QED
        BY <4>2, <4>3
    <3>3. In(g, n)
      BY <2>2, <2>5, <2>7
    <3> HIDE DEF In
    <3> QED
      BY <3>1, <3>2, <3>3
  <2>11. Sticks(g)
    BY <2>2, <2>5, <2>8
  <2> QED
    BY <1>4, <2>5, <2>6, <2>9, <2>10, <2>11
<1> QED
  BY <1>5, <1>6
-----------------------------------------------------------------------------
(* The writer's writes. *)

\* A line goes to the newest file, and is of this start.
LEMMA Place ==
  ASSUME AuditInv, At("line") \/ At("newline")
  PROVE  /\ writer.open \in 1 .. Days /\ writer.open = writer.floor /\ writer.open \in exists
         /\ \A x \in 0 .. Days : x > writer.open => files[x] = <<>>
         /\ core.pc # "down"
<1>1. Types /\ Flight /\ Folder /\ ~At("off")
  BY DEF AuditInv, At
<1>2. writer.open \in 0 .. Days /\ exists \subseteq 1 .. Days
  BY <1>1 DEF Types, Writers
<1>3. writer.open = writer.floor /\ writer.open \in exists
  BY <1>1 DEF Folder
<1>4. \A x \in 0 .. Days : x > writer.open => files[x] = <<>>
  <2>1. ASSUME NEW x \in 0 .. Days, x > writer.open, files[x] # <<>>
        PROVE  FALSE
    <3>1. x = 0 \/ x \in exists
      BY <1>1, <2>1 DEF Folder
    <3>2. x \in exists => x <= writer.floor
      BY <1>1 DEF Folder
    <3> QED
      BY <1>2, <1>3, <2>1, <3>1, <3>2
  <2> QED
    BY <2>1
<1>5. core.pc # "down"
  BY <1>1 DEF Flight
<1> QED
  BY <1>2, <1>3, <1>4, <1>5

\* A record is on disk, in a line that may be whole or not.
LEMMA LandStep ==
  ASSUME AuditInv, At("line"), NEW n \in Nat, n = writer.rec, NEW d \in 0 .. Days, d = writer.open,
         NEW line, Written(d, n, line),
         writer' \in Writers, writer'.open = d, writer'.floor = writer.floor,
         writer'.pc \in {"newline", "recv"},
         core' = core, queue' = queue, made' = made, state' = state, exists' = exists,
         failed \subseteq failed', lost' = lost, promised' = promised, life' = life
  PROVE  Types' /\ Lives' /\ Flight' /\ Found' /\ Folder'
<1>1. Types /\ Lives /\ Flight /\ Found /\ Folder /\ Flow
  BY DEF AuditInv
<1>2. /\ d \in 1 .. Days /\ d = writer.floor /\ d \in exists /\ core.pc # "down"
      /\ \A x \in 0 .. Days : x > d => files[x] = <<>>
      /\ n \in DOMAIN made
  BY <1>1, Place DEF Flight
<1>3. \A m : m \in OnDisk' <=> m \in OnDisk \/ m = n
  BY DEF Written
<1>4. Types'
  BY <1>1 DEF Types, Written
<1>5. Lives'
  BY LivesKept
<1>6. \A m : Pending(m)' <=> (\E i \in DOMAIN queue : queue[i] = m) \/ (core.pc = "sending" /\ m = core.rec)
  BY DEF Pending, At
<1>7. \A m : Pending(m) <=> Pending(m)' \/ m = n
  BY <1>6 DEF Pending, At
<1>8. \A m \in DOMAIN made : Pending(m)' => n < m
  <2>1. FLUSH \notin DOMAIN made
    BY <1>1, MadeIs DEF FLUSH
  <2>2. \A i \in DOMAIN queue : queue[i] # FLUSH => n < queue[i]
    BY <1>1 DEF Flight
  <2>3. core.pc = "sending" => n < core.rec
    BY <1>1 DEF Flight
  <2> QED
    BY <1>6, <2>1, <2>2, <2>3
<1>9. Flight'
  <2>1. \A m \in DOMAIN made : Pending(m)' => made[m].life = life /\ \A r \in OnDisk' : r < m
    BY <1>1, <1>3, <1>7, <1>8 DEF Flight
  <2>2. ~At("open")' /\ ~At("line")' /\ ~At("off")'
    BY DEF At
  <2> QED
    BY <1>1, <1>2, <2>1, <2>2 DEF Flight
<1>10. Found'
  <2>1. Accounted \subseteq Accounted' /\ n \in Accounted'
    BY <1>3 DEF Accounted
  <2> QED
    BY <1>7, <2>1, FoundKept
<1>11. Folder'
  <2>1. ASSUME NEW x \in 0 .. Days, NEW i \in DOMAIN files'[x]
        PROVE  /\ files'[x][i].recs # <<>>
               /\ \A j \in DOMAIN files'[x][i].recs : files'[x][i].recs[j] \in DOMAIN made
    <3>1. ASSUME NEW j \in DOMAIN files'[x][i].recs
          PROVE  files'[x][i].recs[j] \in DOMAIN made
      <4>1. files'[x][i].recs[j] \in OnDisk'
        BY <2>1, <3>1 DEF OnDisk, Range
      <4> QED
        BY <1>1, <1>2, <1>3, <4>1, DiskIsMade
    <3> QED
      BY <2>1, <3>1 DEF Written
  <2>2. \A x \in 0 .. Days : files'[x] # <<>> => x = 0 \/ x \in exists
    BY <1>1, <1>2 DEF Folder, Written
  <2>3. Newest(d)'
    BY <1>2 DEF Newest, Written
  <2>4. files'[d] # <<>> /\ d # 0 /\ ~At("line")'
    BY <1>2 DEF Written, At
  <2>5. /\ exists = {} \/ \E x \in exists : \A y \in exists : y <= x
        /\ \A x \in exists : x <= writer.floor
    BY <1>1 DEF Folder, At
  <2> QED
    BY <1>2, <2>1, <2>2, <2>3, <2>4, <2>5 DEF Folder
<1> QED
  BY <1>4, <1>5, <1>9, <1>10, <1>11

\* The disk took a part of the line.
LEMMA TornStep ==
  ASSUME AuditInv, WriteFails, Put([Line(writer.rec) EXCEPT !.torn = TRUE])
  PROVE  AuditInv'
<1>1. PICK n, d, line :
        /\ n = writer.rec /\ d = writer.open
        /\ line = [recs |-> <<n>>, torn |-> TRUE, ended |-> FALSE] /\ Put(line)
  BY DEF Line
<1>2. /\ At("line") /\ writer' = [writer EXCEPT !.rec = 0, !.pc = "recv"]
      /\ core' = core /\ queue' = queue /\ made' = made /\ state' = state /\ exists' = exists
      /\ failed' = failed \cup {n} /\ lost' = lost /\ promised' = promised /\ life' = life
  BY <1>1 DEF WriteFails, Elsewhere
<1>3. Types /\ Folder /\ writer \in Writers
  BY DEF AuditInv, Types
<1>4. n \in Nat /\ d \in 0 .. Days
  BY <1>1, <1>3 DEF Writers
<1>5. line \in LineSet /\ line.recs = <<n>>
  BY <1>1, <1>4 DEF LineSet
<1>6. Written(d, n, line)
  BY <1>1, <1>3, <1>4, <1>5, PutIs
<1>7. /\ writer' \in Writers /\ writer'.pc = "recv"
      /\ writer'.open = d /\ writer'.floor = writer.floor
  BY <1>1, <1>2, <1>3 DEF Writers
<1>8. Types' /\ Lives' /\ Flight' /\ Found' /\ Folder'
  BY <1>1, <1>2, <1>4, <1>6, <1>7, LandStep
<1>9. Flow'
  BY <1>2 DEF Flow
<1> QED
  BY <1>8, <1>9 DEF AuditInv
\* The record whose turn it is goes on from the last one on disk.
LEMMA GoesOn ==
  ASSUME AuditInv, At("line"), failed = {}, ~Glued
  PROVE  made[writer.rec].prev = LastRecord
<1>1. Types /\ Lives /\ Flight /\ Found /\ Folder /\ Flow
  BY DEF AuditInv
<1>2. PICK n : n = writer.rec /\ n \in DOMAIN made
  BY <1>1 DEF Flight
<1>3. DOMAIN made = 1 .. Len(made) /\ Len(made) \in Nat
  BY <1>1, MadeIs
<1>4. core.pc # "down"
  BY Place
<1>5. Pending(n) /\ made[n].life = life /\ \A r \in OnDisk : r < n
  BY <1>1, <1>2 DEF Pending, Flight
<1>6. n \notin OnDisk
  BY <1>2, <1>3, <1>5
<1>7. CASE n = 1 \/ made[n - 1].life # life
  BY <1>1, <1>2, <1>4, <1>5, <1>6, <1>7 DEF Flow
<1>8. CASE n # 1 /\ made[n - 1].life = life
  <2>1. PICK o : o = n - 1 /\ o \in DOMAIN made /\ o < n /\ o > 0
    BY <1>2, <1>3, <1>8
  <2>2. made[n].prev = o
    BY <1>1, <1>2, <1>3, <1>5, <1>8, <2>1 DEF Lives
  <2>3. ~Pending(o)
    <3>1. FLUSH \notin DOMAIN made
      BY <1>3 DEF FLUSH
    <3>2. \A i \in DOMAIN queue : queue[i] # FLUSH => n < queue[i]
      BY <1>1, <1>2 DEF Flight
    <3>3. core.pc = "sending" => n < core.rec /\ core.rec \in DOMAIN made
      BY <1>1, <1>2 DEF Flight
    <3>4. \A i \in DOMAIN queue : queue[i] # o
      <4>1. ASSUME NEW i \in DOMAIN queue, queue[i] = o PROVE FALSE
        BY <1>2, <1>3, <2>1, <3>1, <3>2, <4>1
      <4> QED
        BY <4>1
    <3>5. core.pc = "sending" => core.rec # o
      BY <1>2, <1>3, <2>1, <3>3
    <3>6. writer.rec # o
      BY <1>2, <1>3, <2>1
    <3> QED
      BY <3>4, <3>5, <3>6 DEF Pending
  <2>4. o \notin lost
    BY <1>1, <1>3, <1>4, <1>8, <2>1, MadeIs DEF Found, Types
  <2>5. o \in OnDisk
    BY <1>1, <2>1, <2>3, <2>4 DEF Found, Accounted
  <2>6. o <= LastRecord
    BY <1>1, <2>5 DEF Flow
  <2>7. LastRecord = GENESIS \/ LastRecord < n
    BY <1>1, <1>5, LastIsOnDisk
  <2>8. LastRecord \in Nat
    BY <1>1, <1>3, LastIsOnDisk, DiskIsMade DEF GENESIS
  <2> QED
    BY <1>2, <1>3, <2>1, <2>2, <2>6, <2>7, <2>8 DEF GENESIS
<1> QED
  BY <1>7, <1>8

\* The line is there, and nothing failed before: the chain is whole, and ends in it.
LEMMA ChainGrows ==
  ASSUME AuditInv, At("line"), failed = {}, ~Glued, NEW n \in DOMAIN made, n = writer.rec,
         NEW d \in 1 .. Days, d = writer.open,
         NEW line \in LineSet, line.recs = <<n>>, ~line.torn,
         files' \in [0 .. Days -> Seq(LineSet)], files'[d] = Append(files[d], line),
         \A x \in 0 .. Days : x # d => files'[x] = files[x], made' = made
  PROVE  Intact' /\ LastRecord' = n
<1>1. Types /\ Folder /\ Intact
  BY DEF AuditInv, Flow
<1>d. d \in 0 .. Days /\ d # 0 /\ d \in Nat /\ Days \in Nat
  BY Bounds
<1>2. PICK was, g, k :
        /\ was = files[d] /\ g = files'[d] /\ k = Len(was) + 1
        /\ was \in Seq(LineSet) /\ g = Append(was, line)
  BY <1>d, <1>1 DEF Types
<1>3. /\ Len(was) \in Nat /\ DOMAIN was = 1 .. Len(was)
      /\ \A i \in DOMAIN was : was[i] \in LineSet
  BY <1>2, LenProperties, ElementOfSeq
<1>4. /\ g \in Seq(LineSet) /\ g # <<>> /\ Len(g) = k /\ DOMAIN g = 1 .. k /\ g[k] = line
      /\ \A i \in DOMAIN was : i \in DOMAIN g /\ g[i] = was[i]
      /\ \A i \in DOMAIN g : i \in DOMAIN was \/ i = k
  <2>1. /\ g \in Seq(LineSet) /\ g # <<>> /\ Len(g) = k
        /\ \A i \in 1 .. Len(was) : g[i] = was[i]
        /\ g[Len(was) + 1] = line
    BY <1>2, AppendProperties
  <2>2. DOMAIN g = 1 .. k
    BY <2>1, LenProperties
  <2> QED
    BY <1>2, <1>3, <2>1, <2>2
<1>5. /\ d = writer.floor /\ \A x \in 0 .. Days : x > d => files[x] = <<>>
  BY Place
<1>6. Newest(d)' /\ (was # <<>> => Newest(d))
  <2>1. \A x \in 0 .. Days : x > d => files'[x] = <<>>
    <3>1. ASSUME NEW x \in 0 .. Days, x > d PROVE files'[x] = <<>>
      <4>1. x # d
        BY <1>d, <3>1
      <4> QED
        BY <1>5, <3>1, <4>1
    <3> QED
      BY <3>1
  <2>2. files'[d] # <<>>
    BY <1>2, <1>4
  <2> QED
    BY <1>d, <1>2, <1>5, <2>1, <2>2 DEF Newest
<1>7. LastRecord' = n
  <2>1. LastFile' = d
    <3> DEFINE P(x) == (files'[x] # <<>> \/ x = 0) /\ \A y \in 0 .. Days : y > x => files'[y] = <<>>
    <3>1. d \in 0 .. Days /\ P(d)
      BY <1>6 DEF Newest
    <3>2. ASSUME NEW x \in 0 .. Days, P(x) PROVE x = d
      <4>1. ~ (x > d)
        BY <3>1, <3>2, Bounds
      <4>2. ~ (d > x)
        BY <1>2, <1>4, <3>1, <3>2, Bounds
      <4> QED
        BY <3>1, <3>2, <4>1, <4>2, Bounds
    <3> HIDE DEF P
    <3>3. (CHOOSE x \in 0 .. Days : P(x)) = d
      BY <3>1, <3>2, Zenon
    <3> QED
      BY <3>3 DEF LastFile, P
  <2>2. LastRecord' = g[Len(g)].recs[1]
    BY <1>2, <1>4, <2>1 DEF LastRecord, Last
  <2> QED
    BY <1>4, <2>2
<1>8. made[n].prev = LastRecord
  BY GoesOn
<1>9. was # <<>> => LastRecord = was[Len(was)].recs[1]
  BY <1>1, <1>2, <1>6, NewestIs, LastIs
<1>10. InOrder(g)
  <2>1. InOrder(was)
    BY <1>1, <1>2 DEF Intact
  <2>2. Fine(line) /\ line.recs[1] = n
    BY DEF Fine
  <2>3. ASSUME NEW i \in DOMAIN was
        PROVE  /\ Fine(g[i])
               /\ i > 1 => made[g[i].recs[1]].prev = g[i - 1].recs[1]
    <3>1. Fine(was[i]) /\ (i > 1 => made[was[i].recs[1]].prev = was[i - 1].recs[1])
      BY <2>1 DEF InOrder
    <3>2. i > 1 => i - 1 \in DOMAIN was
      BY <1>3
    <3> QED
      BY <1>4, <2>3, <3>1, <3>2
  <2>4. k > 1 => made[n].prev = g[k - 1].recs[1]
    <3>1. SUFFICES ASSUME k > 1 PROVE made[n].prev = g[k - 1].recs[1]
      OBVIOUS
    <3>2. was # <<>> /\ k - 1 = Len(was) /\ Len(was) \in DOMAIN was
      BY <1>2, <1>3, <3>1
    <3> QED
      BY <1>4, <1>8, <1>9, <3>2
  <2>5. Fine(g[k]) /\ (k > 1 => made[g[k].recs[1]].prev = g[k - 1].recs[1])
    BY <1>4, <2>2, <2>4
  <2> QED
    BY <1>4, <2>3, <2>5 DEF InOrder
<1>11. ASSUME NEW x \in 0 .. Days
       PROVE  InOrder(files'[x])
  BY <1>1, <1>2, <1>10, <1>11 DEF Intact
<1> DEFINE After(f, x) ==
      \/ made[f[1].recs[1]].prev = GENESIS /\ \A y \in 0 .. Days : y < x => files'[y] = <<>>
      \/ \E y \in 0 .. Days :
           /\ y < x /\ files'[y] # <<>> /\ made[f[1].recs[1]].prev = Last(files'[y]).recs[1]
           /\ \A z \in 0 .. Days : y < z /\ z < x => files'[z] = <<>>
<1>12. ASSUME NEW x \in 0 .. Days, files'[x] # <<>>
       PROVE  After(files'[x], x)
  <2>1. CASE x # d \/ was # <<>>
    <3>1. x <= d
      <4>1. SUFFICES ASSUME x > d PROVE FALSE
        BY <1>d
      <4>2. x # d /\ files[x] = <<>>
        BY <1>d, <1>5, <4>1
      <4> QED
        BY <1>12, <4>2
    <3>2. \A y \in 0 .. Days : y < x => files'[y] = files[y]
      BY <3>1, Bounds
    <3>3. files[x] # <<>> /\ files'[x][1] = files[x][1]
      <4>1. CASE x # d
        BY <1>12, <4>1
      <4>2. CASE x = d
        <5>1. was # <<>> /\ 1 \in DOMAIN was
          BY <1>2, <1>3, <2>1, <4>2, EmptySeq
        <5> QED
          BY <1>2, <1>4, <4>2, <5>1
      <4> QED
        BY <4>1, <4>2
    <3>4. PICK first : first = made[files[x][1].recs[1]].prev
      OBVIOUS
    <3>5. \/ first = GENESIS /\ \A y \in 0 .. Days : y < x => files[y] = <<>>
          \/ \E y \in 0 .. Days :
               /\ y < x /\ files[y] # <<>> /\ first = Last(files[y]).recs[1]
               /\ \A z \in 0 .. Days : y < z /\ z < x => files[z] = <<>>
      BY <1>1, <3>3, <3>4 DEF Intact
    <3>6. \/ first = GENESIS /\ \A y \in 0 .. Days : y < x => files'[y] = <<>>
          \/ \E y \in 0 .. Days :
               /\ y < x /\ files'[y] # <<>> /\ first = Last(files'[y]).recs[1]
               /\ \A z \in 0 .. Days : y < z /\ z < x => files'[z] = <<>>
      BY <3>2, <3>5
    <3> QED
      BY <3>3, <3>4, <3>6
  <2>2. CASE x = d /\ was = <<>>
    <3>1. g[1].recs[1] = n
      BY <1>2, <1>4, <2>2, EmptySeq
    <3>2. files'[x][1].recs[1] = n
      BY <1>2, <2>2, <3>1
    <3>3. PICK l : l = LastFile /\ Newest(l)
      BY <1>1, LastIs
    <3>4. CASE files[l] = <<>>
      <4>1. LastRecord = GENESIS /\ \A y \in 0 .. Days : files[y] = <<>>
        BY <1>1, <3>3, <3>4, LastIs
      <4> QED
        BY <1>8, <2>2, <3>2, <4>1
    <3>5. CASE files[l] # <<>>
      <4>1. LastRecord = Last(files[l]).recs[1]
        BY <1>1, <3>3, <3>5, LastIs DEF Last
      <4>2. l \in 0 .. Days /\ l < d /\ \A y \in 0 .. Days : y > l => files[y] = <<>>
        <5>1. l \in 0 .. Days /\ \A y \in 0 .. Days : y > l => files[y] = <<>>
          BY <3>3 DEF Newest
        <5>2. l # d
          BY <1>2, <2>2, <3>5
        <5>3. ~ (l > d)
          BY <1>5, <3>5, <5>1
        <5> QED
          BY <1>d, <5>1, <5>2, <5>3
      <4>3. files'[l] = files[l] /\ \A z \in 0 .. Days : l < z /\ z < d => files'[z] = <<>>
        <5>1. l # d
          BY <1>d, <4>2
        <5>2. ASSUME NEW z \in 0 .. Days, l < z, z < d PROVE files'[z] = <<>>
          <6>1. z # d
            BY <1>d, <5>2
          <6>2. files[z] = <<>>
            BY <1>d, <4>2, <5>2
          <6> QED
            BY <6>1, <6>2
        <5> QED
          BY <4>2, <5>1, <5>2
      <4>4. made[files'[d][1].recs[1]].prev = Last(files'[l]).recs[1]
        <5>1. made[files'[d][1].recs[1]].prev = LastRecord
          BY <1>8, <2>2, <3>2
        <5> QED
          BY <4>1, <4>3, <5>1
      <4>5. files'[l] # <<>>
        BY <3>5, <4>3
      <4>6. After(files'[d], d)
        BY ONLY <4>2, <4>3, <4>4, <4>5
      <4> QED
        BY <2>2, <4>6
    <3> QED
      BY <3>4, <3>5
  <2> QED
    BY <2>1, <2>2
<1>13. Intact'
  BY <1>11, <1>12 DEF Intact, InOrder
<1> QED
  BY <1>7, <1>13

LEMMA WriteStep ==
  ASSUME AuditInv, WriteLine
  PROVE  AuditInv'
<1>1. PICK n, d, line :
        /\ n = writer.rec /\ d = writer.open
        /\ line = [recs |-> <<n>>, torn |-> FALSE, ended |-> FALSE] /\ Put(line)
  BY DEF WriteLine, Line
<1>2. /\ At("line") /\ writer' = [writer EXCEPT !.pc = "newline"]
      /\ core' = core /\ queue' = queue /\ made' = made /\ state' = state /\ exists' = exists
      /\ failed' = failed /\ lost' = lost /\ promised' = promised /\ life' = life
  BY <1>1 DEF WriteLine, Elsewhere
<1>3. Types /\ Lives /\ Flight /\ Found /\ Folder /\ Flow /\ writer \in Writers
  BY DEF AuditInv, Types
<1>4. n \in Nat /\ d \in 0 .. Days /\ n \in DOMAIN made /\ d \in 1 .. Days
  BY <1>1, <1>2, <1>3, Place DEF Writers, Flight
<1>5. line \in LineSet /\ line.recs = <<n>> /\ ~line.torn
  BY <1>1, <1>4 DEF LineSet
<1>6. Written(d, n, line)
  BY <1>1, <1>3, <1>4, <1>5, PutIs
<1>7. /\ writer' \in Writers /\ writer'.pc = "newline"
      /\ writer'.open = d /\ writer'.floor = writer.floor
  BY <1>1, <1>2, <1>3 DEF Writers
<1>8. Types' /\ Lives' /\ Flight' /\ Found' /\ Folder'
  BY <1>1, <1>2, <1>4, <1>6, <1>7, LandStep
<1>9. Flow'
  <2>1. SUFFICES ASSUME failed = {}, ~Glued'
        PROVE  /\ Intact' /\ \A r \in OnDisk' : r <= LastRecord'
               /\ ~ \A m \in DOMAIN made : made[m].life # life
               /\ \A m \in DOMAIN made :
                    m \notin OnDisk' /\ made[m].life = life /\ (m = 1 \/ made[m - 1].life # life) => FALSE
    BY <1>2 DEF Flow
  <2>2. ~Glued /\ files'[d] = Append(files[d], line)
    BY <1>6, <2>1 DEF Written
  <2>3. Intact' /\ LastRecord' = n
    BY <1>1, <1>2, <1>4, <1>5, <1>6, <2>1, <2>2, ChainGrows DEF Written
  <2>4. DOMAIN made = 1 .. Len(made) /\ Len(made) \in Nat /\ \A m \in DOMAIN made : made[m].life \in Nat
    BY <1>3, MadeIs
  <2>5. Pending(n) /\ made[n].life = life /\ \A r \in OnDisk : r < n
    BY <1>1, <1>2, <1>3, <1>4 DEF Pending, Flight
  <2>6. \A r \in OnDisk' : r <= n
    BY <1>3, <1>4, <1>6, <2>4, <2>5, DiskIsMade DEF Written
  <2>7. ASSUME NEW m \in DOMAIN made, m \notin OnDisk', made[m].life = life,
               m = 1 \/ made[m - 1].life # life
        PROVE  FALSE
    <3>1. m # n /\ m \notin OnDisk
      BY <1>6, <2>7 DEF Written
    <3>2. ~ (n < m)
      <4>1. SUFFICES ASSUME n < m PROVE FALSE
        OBVIOUS
      <4>2. PICK o : o = m - 1 /\ o \in DOMAIN made /\ n <= o /\ o < m /\ m # 1
        BY <1>4, <2>4, <4>1
      <4>3. made[n].life <= made[o].life /\ made[o].life <= made[m].life
        BY <1>3, <1>4, <2>4, <4>2 DEF Lives
      <4> QED
        BY <1>4, <2>4, <2>5, <2>7, <4>2, <4>3
    <3>3. m < n
      BY <1>4, <2>4, <3>1, <3>2
    <3>4. core.pc # "down"
      BY <1>2, Place
    <3>5. m \notin lost
      BY <1>3, <2>4, <2>7, <3>4 DEF Found, Types
    <3>6. Pending(m)
      BY <1>3, <2>1, <3>1, <3>5 DEF Found, Accounted
    <3>7. FLUSH \notin DOMAIN made
      BY <2>4 DEF FLUSH
    <3>8. (\E i \in DOMAIN queue : queue[i] = m) => n < m
      BY <1>1, <1>2, <1>3, <3>7 DEF Flight
    <3>9. core.pc = "sending" /\ m = core.rec => n < m
      BY <1>1, <1>2, <1>3 DEF Flight
    <3> QED
      BY <1>1, <3>2, <3>3, <3>6, <3>8, <3>9 DEF Pending
  <2> QED
    BY <1>4, <2>3, <2>5, <2>6, <2>7
<1> QED
  BY <1>8, <1>9 DEF AuditInv
\* Every line holds the records it held.
Holds(x) ==
  /\ Len(files'[x]) = Len(files[x]) /\ DOMAIN files'[x] = DOMAIN files[x]
  /\ files'[x] = <<>> <=> files[x] = <<>>
  /\ \A i \in DOMAIN files[x] :
       files'[x][i].recs = files[x][i].recs /\ files'[x][i].torn = files[x][i].torn

LEMMA SameRecords ==
  ASSUME Types, Folder, made' = made, \A x \in 0 .. Days : Holds(x)
  PROVE  /\ OnDisk' = OnDisk /\ (Glued' <=> Glued) /\ LastRecord' = LastRecord
         /\ Intact => Intact'
         /\ \A x \in 0 .. Days : Newest(x)' <=> Newest(x)
<1>1. \A m : m \in OnDisk' <=> m \in OnDisk
  BY DEF OnDisk, Range, Holds
<1>2. Glued' <=> Glued
  BY DEF Glued, Holds
<1>3. LastFile' = LastFile
  <2>1. \A x \in 0 .. Days : files'[x] = <<>> <=> files[x] = <<>>
    BY DEF Holds
  <2> DEFINE P(x) == (files[x] # <<>> \/ x = 0) /\ \A y \in 0 .. Days : y > x => files[y] = <<>>
  <2> DEFINE Q(x) == (files'[x] # <<>> \/ x = 0) /\ \A y \in 0 .. Days : y > x => files'[y] = <<>>
  <2>2. \A x \in 0 .. Days : P(x) <=> Q(x)
    BY <2>1
  <2> HIDE DEF P, Q
  <2>3. (CHOOSE x \in 0 .. Days : P(x)) = CHOOSE x \in 0 .. Days : Q(x)
    BY <2>2
  <2> QED
    BY <2>3 DEF LastFile, P, Q
<1>4. \A x \in 0 .. Days : files[x] # <<>> =>
        /\ Last(files'[x]).recs[1] = Last(files[x]).recs[1]
        /\ files'[x][1].recs[1] = files[x][1].recs[1]
  <2>1. ASSUME NEW x \in 0 .. Days, files[x] # <<>>
        PROVE  1 \in DOMAIN files[x] /\ Len(files[x]) \in DOMAIN files[x]
    BY <2>1, FileIs
  <2> QED
    BY <2>1 DEF Holds, Last
<1>5. LastRecord' = LastRecord
  <2>1. LastFile \in 0 .. Days
    BY LastIs DEF Newest
  <2> QED
    BY <1>3, <1>4, <2>1 DEF LastRecord, Holds
<1>6. ASSUME Intact PROVE Intact'
  <2>1. ASSUME NEW x \in 0 .. Days PROVE InOrder(files'[x])
    <3>1. InOrder(files[x]) /\ Holds(x)
      BY <1>6, <2>1 DEF Intact
    <3>2. DOMAIN files[x] = 1 .. Len(files[x]) /\ Len(files[x]) \in Nat
      BY <2>1, FileIs
    <3>3. \A i \in DOMAIN files[x] : i > 1 => i - 1 \in DOMAIN files[x]
      BY <3>2
    <3> QED
      BY <3>1, <3>3 DEF InOrder, Fine, Holds
  <2>2. \A x \in 0 .. Days : files'[x] = <<>> <=> files[x] = <<>>
    BY DEF Holds
  <2>3. \A x \in 0 .. Days : InOrder(files[x])'
    BY <2>1 DEF InOrder
  <2> QED
    BY <1>4, <1>6, <2>2, <2>3 DEF Intact
<1>7. \A x \in 0 .. Days : Newest(x)' <=> Newest(x)
  BY DEF Newest, Holds
<1> QED
  BY <1>1, <1>2, <1>5, <1>6, <1>7

LEMMA NewlineHolds ==
  ASSUME AuditInv, Newline
  PROVE  files' \in [0 .. Days -> Seq(LineSet)] /\ \A x \in 0 .. Days : Holds(x)
<1>1. /\ writer.pc = "newline" /\ writer' = [writer EXCEPT !.rec = 0, !.pc = "recv"]
      /\ core' = core /\ queue' = queue /\ made' = made /\ state' = state /\ exists' = exists
      /\ failed' = failed /\ lost' = lost /\ promised' = promised /\ life' = life
  BY DEF Newline, Elsewhere, At
<1>2. Types /\ Lives /\ Flight /\ Found /\ Folder /\ Flow
  BY DEF AuditInv
<1>3. writer.open \in 1 .. Days /\ core.pc # "down"
  BY <1>1, Place DEF At
<1>4. PICK d, was, g, last, new :
        /\ d = writer.open /\ d \in 0 .. Days
        /\ was = files[d] /\ last = Last(was) /\ new = [last EXCEPT !.ended = TRUE]
        /\ g = Append(Front(was), new) /\ files' = [files EXCEPT ![d] = g]
  <2>1. writer.open \in 0 .. Days
    BY <1>3, Bounds
  <2> QED
    BY <2>1 DEF Newline
<1>5. was \in Seq(LineSet) /\ was # <<>>
  BY <1>1, <1>2, <1>4 DEF Types, Folder, At
<1>6. Len(was) \in DOMAIN was /\ last = was[Len(was)] /\ last \in LineSet
  <2>1. Len(was) \in DOMAIN was
    BY <1>5, LenProperties, EmptySeq
  <2>2. last = was[Len(was)]
    BY <1>4 DEF Last
  <2> QED
    BY <1>5, <2>1, <2>2, LenProperties, ElementOfSeq
<1>7. new \in LineSet /\ new.recs = last.recs /\ new.torn = last.torn
  BY <1>4, <1>6 DEF LineSet
<1>8. Ends(g, was, new)
  BY <1>4, <1>5, <1>7, EndIs
<1>9. files' \in [0 .. Days -> Seq(LineSet)] /\ \A x \in 0 .. Days : Holds(x)
  <2>1. files \in [0 .. Days -> Seq(LineSet)] /\ g \in Seq(LineSet)
    BY <1>2, <1>8 DEF Types, Ends
  <2>2. /\ files' \in [0 .. Days -> Seq(LineSet)] /\ files'[d] = g
        /\ \A x \in 0 .. Days : x # d => files'[x] = files[x]
    BY <1>4, <2>1
  <2>3. \A x \in 0 .. Days : x # d => Holds(x)
    BY <2>2 DEF Holds
  <2>4. /\ Len(g) = Len(was) /\ DOMAIN g = DOMAIN was /\ g # <<>>
        /\ \A i \in DOMAIN was : g[i].recs = was[i].recs /\ g[i].torn = was[i].torn
    <3>1. Len(g) = Len(was) /\ DOMAIN g = DOMAIN was
      BY <1>8 DEF Ends
    <3>2. g # <<>>
      BY <1>6, <3>1, EmptySeq
    <3>3. \A i \in DOMAIN was : g[i].recs = was[i].recs /\ g[i].torn = was[i].torn
      BY <1>6, <1>7, <1>8 DEF Ends
    <3> QED
      BY <3>1, <3>2, <3>3
  <2>5. Holds(d)
    BY <1>4, <1>5, <2>2, <2>4 DEF Holds
  <2> QED
    BY <2>2, <2>3, <2>5
<1> QED
  BY <1>9

LEMMA NewlineKeeps ==
  ASSUME AuditInv, Newline
  PROVE  OnDisk' = OnDisk
<1>1. Types /\ Folder /\ made' = made
  BY DEF AuditInv, Newline, Elsewhere
<1> QED
  BY <1>1, NewlineHolds, SameRecords

LEMMA NewlineStep ==
  ASSUME AuditInv, Newline
  PROVE  AuditInv'
<1>1. /\ writer.pc = "newline" /\ writer' = [writer EXCEPT !.rec = 0, !.pc = "recv"]
      /\ core' = core /\ queue' = queue /\ made' = made /\ state' = state /\ exists' = exists
      /\ failed' = failed /\ lost' = lost /\ promised' = promised /\ life' = life
  BY DEF Newline, Elsewhere, At
<1>2. Types /\ Lives /\ Flight /\ Found /\ Folder /\ Flow
  BY DEF AuditInv
<1>3. writer.open \in 1 .. Days /\ core.pc # "down"
  BY <1>1, Place DEF At
<1>9. files' \in [0 .. Days -> Seq(LineSet)] /\ \A x \in 0 .. Days : Holds(x)
  BY NewlineHolds
<1>10. /\ OnDisk' = OnDisk /\ (Glued' <=> Glued) /\ LastRecord' = LastRecord
       /\ Intact => Intact'
       /\ \A x \in 0 .. Days : Newest(x)' <=> Newest(x)
  BY <1>1, <1>2, <1>9, SameRecords
<1>11. /\ writer' \in Writers /\ writer'.rec = 0 /\ writer'.pc = "recv"
       /\ writer'.open = writer.open /\ writer'.floor = writer.floor
  <2>1. writer \in Writers
    BY <1>2 DEF Types
  <2> QED
    BY <1>1, <2>1 DEF Writers
<1>12. Types'
  BY <1>1, <1>2, <1>9, <1>11 DEF Types
<1>13. \A m : Pending(m)' <=> Pending(m)
  BY <1>1, <1>11 DEF Pending, At
<1>14. Flight'
  BY <1>1, <1>2, <1>10, <1>11, <1>13 DEF Flight, At
<1>15. Found'
  BY <1>1, <1>10, <1>13, FoundKept DEF Accounted
<1>16. Folder'
  <2>1. \A x \in 0 .. Days : \A i \in DOMAIN files'[x] :
          /\ files'[x][i].recs # <<>>
          /\ \A j \in DOMAIN files'[x][i].recs : files'[x][i].recs[j] \in DOMAIN made
    BY <1>2, <1>9 DEF Folder, Holds
  <2>2. \A x \in 0 .. Days : files'[x] # <<>> => x = 0 \/ x \in exists
    BY <1>2, <1>9 DEF Folder, Holds
  <2> QED
    BY <1>1, <1>2, <1>10, <1>11, <2>1, <2>2 DEF Folder, At
<1>17. Lives'
  BY <1>1, LivesKept
<1>18. Flow'
  BY <1>1, <1>2, <1>10 DEF Flow
<1> QED
  BY <1>12, <1>14, <1>15, <1>16, <1>17, <1>18 DEF AuditInv

-----------------------------------------------------------------------------
(* From the start, always. *)

LEMMA Begins == Init => AuditInv
<1> SUFFICES ASSUME Init PROVE AuditInv
  OBVIOUS
<1>1. PICK old, rec, line :
        /\ line = [Line(1) EXCEPT !.ended = TRUE]
        /\ rec = [prev |-> 0, id |-> 0, day |-> 1, life |-> 0]
        /\ old = <<>> \/ old = <<line>>
        /\ files = [d \in 0 .. Days |-> IF d = 0 THEN old ELSE <<>>]
        /\ made = [i \in DOMAIN old |-> rec]
  <2>1. PICK rec, line : /\ line = [Line(1) EXCEPT !.ended = TRUE]
                         /\ rec = [prev |-> 0, id |-> 0, day |-> 1, life |-> 0]
    OBVIOUS
  <2>2. PICK old \in {<<>>, <<[Line(1) EXCEPT !.ended = TRUE]>>} :
          /\ files = [d \in 0 .. Days |-> IF d = LEGACY THEN old ELSE <<>>]
          /\ made = [i \in DOMAIN old |-> [prev |-> GENESIS, id |-> 0, day |-> 1, life |-> 0]]
    BY Zenon DEF Init
  <2>3. old = <<>> \/ old = <<line>>
    BY <2>1, <2>2
  <2>4. files = [d \in 0 .. Days |-> IF d = 0 THEN old ELSE <<>>]
    BY <2>2 DEF LEGACY
  <2>5. made = [i \in DOMAIN old |-> rec]
    BY <2>1, <2>2 DEF GENESIS
  <2> QED
    BY ONLY <2>1, <2>3, <2>4, <2>5
<1>2. /\ state = [prev |-> 0, seq |-> 0] /\ core = [pc |-> "down", rec |-> 0]
      /\ queue = <<>> /\ writer = [pc |-> "off", rec |-> 0, open |-> 0, floor |-> 0]
      /\ exists = {} /\ failed = {} /\ lost = {} /\ promised = {} /\ life = 0
  BY DEF Init, GENESIS, NoWriter
<1>3. line \in LineSet /\ line.recs = <<1>> /\ ~line.torn
  <2>1. PICK one, first : one = <<1>> /\ first = [recs |-> one, torn |-> FALSE, ended |-> FALSE]
    OBVIOUS
  <2>2. line = [first EXCEPT !.ended = TRUE]
    BY <1>1, <2>1 DEF Line
  <2>3. first \in LineSet
    BY <2>1 DEF LineSet
  <2>4. line \in LineSet /\ line.recs = first.recs /\ line.torn = first.torn
    BY <2>2, <2>3 DEF LineSet
  <2> QED
    BY <2>1, <2>4
<1>4. /\ old \in Seq(LineSet) /\ DOMAIN old = 1 .. Len(old) /\ Len(old) \in {0, 1}
      /\ old = <<>> <=> Len(old) = 0
      /\ \A i \in DOMAIN old : i = 1 /\ old[i] = line
  <2>1. CASE old = <<>>
    BY <2>1
  <2>2. CASE old = <<line>>
    BY <1>3, <2>2
  <2> QED
    BY <1>1, <2>1, <2>2
<1>5. rec \in Records /\ rec.prev = GENESIS /\ rec.life = 0
  BY <1>1, Bounds DEF Records, GENESIS
<1>6. /\ made \in Seq(Records) /\ DOMAIN made = DOMAIN old
      /\ \A n \in DOMAIN made : n = 1 /\ made[n] = rec
  <2>1. made \in [1 .. Len(old) -> Records]
    BY <1>1, <1>4, <1>5
  <2>2. Len(old) \in Nat
    BY <1>4
  <2>3. made \in Seq(Records)
    BY <2>1, <2>2, SeqDef
  <2> QED
    BY <1>1, <1>4, <2>3
<1>7. files[0] = old /\ \A d \in 0 .. Days : d # 0 => files[d] = <<>>
  BY <1>1, Bounds
<1>8. \A d \in 0 .. Days : \A i \in DOMAIN files[d] : d = 0 /\ i \in DOMAIN old /\ i = 1 /\ files[d][i] = line
  <2>1. DOMAIN <<>> = {}
    OBVIOUS
  <2> QED
    BY <1>4, <1>7, <2>1
<1>9. Types
  <2>1. files \in [0 .. Days -> Seq(LineSet)]
    BY <1>1, <1>4
  <2>2. writer \in Writers
    BY <1>2, Bounds DEF Writers
  <2> QED
    BY <1>2, <1>6, <2>1, <2>2 DEF Types
<1>10. Lives
  BY <1>2, <1>5, <1>6 DEF Lives
<1>11. Flight
  BY <1>2 DEF Flight, Pending, At
<1>12. \A n : n \in OnDisk <=> n \in DOMAIN made
  <2>1. \A n : n \in OnDisk => n = 1 /\ 1 \in DOMAIN old
    BY <1>3, <1>8, OnDiskIs
  <2>2. 1 \in DOMAIN old => 1 \in OnDisk
    BY <1>3, <1>4, <1>7, Bounds, OnDiskIs
  <2> QED
    BY <1>6, <2>1, <2>2
<1>13. Found
  BY <1>2, <1>12 DEF Found, Accounted
<1>14. Newest(0)
  BY <1>7, Bounds DEF Newest
<1>15. Folder
  <2>1. \A d \in 0 .. Days : \A i \in DOMAIN files[d] :
          /\ files[d][i].recs # <<>>
          /\ \A j \in DOMAIN files[d][i].recs : files[d][i].recs[j] \in DOMAIN made
    BY <1>3, <1>6, <1>8
  <2>2. 0 \in 0 .. Days
    BY Bounds
  <2> QED
    BY <1>2, <1>7, <1>14, <2>1, <2>2 DEF Folder, At
<1>16. Flow
  <2>1. LastFile = 0
    BY <1>14, NewestIs
  <2>2. \A r \in OnDisk : r <= LastRecord
    <3>1. ASSUME NEW r \in OnDisk PROVE r = 1 /\ LastRecord = 1
      <4>1. r = 1 /\ old # <<>> /\ Len(old) = 1 /\ 1 \in DOMAIN old
        BY <1>4, <1>6, <1>12, <3>1
      <4>2. LastRecord = old[1].recs[1]
        BY <1>7, <2>1, <4>1 DEF LastRecord, Last
      <4> QED
        BY <1>3, <1>4, <4>1, <4>2
    <3> QED
      BY <3>1
  <2>3. \A d \in 0 .. Days : InOrder(files[d])
    BY <1>3, <1>8 DEF InOrder, Fine
  <2>4. ASSUME NEW d \in 0 .. Days, files[d] # <<>>
        PROVE  made[files[d][1].recs[1]].prev = GENESIS /\ \A x \in 0 .. Days : x < d => files[x] = <<>>
    <3>1. d = 0 /\ old # <<>>
      BY <1>7, <2>4
    <3>2. 1 \in DOMAIN old /\ old[1] = line
      BY <1>4, <3>1
    <3>3. made[1].prev = GENESIS
      BY <1>5, <1>6, <3>2
    <3> QED
      BY <1>3, <1>7, <3>1, <3>2, <3>3, Bounds
  <2>5. Intact
    BY <2>3, <2>4 DEF Intact
  <2> QED
    BY <1>2, <2>2, <2>5 DEF Flow
<1> QED
  BY <1>9, <1>10, <1>11, <1>13, <1>15, <1>16 DEF AuditInv

LEMMA Stays == AuditInv /\ UNCHANGED vars => AuditInv'
<1> SUFFICES ASSUME AuditInv, UNCHANGED vars PROVE AuditInv'
  OBVIOUS
<1>1. /\ made' = made /\ state' = state /\ core' = core /\ queue' = queue /\ writer' = writer
      /\ files' = files /\ exists' = exists /\ failed' = failed /\ lost' = lost
      /\ promised' = promised /\ life' = life
  BY DEF vars
<1>2. OnDisk' = OnDisk /\ \A m : Pending(m)' <=> Pending(m)
  BY <1>1 DEF OnDisk, Pending, At
<1>3. Types' /\ Flight'
  BY <1>1, <1>2 DEF AuditInv, Types, Flight, At
<1>4. Lives' /\ Folder' /\ Flow'
  BY <1>1, LivesKept, FolderStays, FlowKept DEF AuditInv, More
<1>5. Found'
  BY <1>1, <1>2, FoundKept DEF Accounted
<1> QED
  BY <1>3, <1>4, <1>5 DEF AuditInv

LEMMA Steps == AuditInv /\ [Next]_vars => AuditInv'
<1> SUFFICES ASSUME AuditInv, [Next]_vars PROVE AuditInv'
  OBVIOUS
<1>1. CASE Open
  BY <1>1, OpenStep
<1>2. CASE \E day \in 1 .. Days : Append_(day)
  BY <1>2, AppendStep
<1>3. CASE Send
  BY <1>3, SendStep
<1>4. CASE Flush
  BY <1>4, FlushStep
<1>5. CASE FlushTimesOut \/ Close
  BY <1>5, QuietStep
<1>6. CASE Closed \/ Kill
  BY <1>6, EndStep
<1>7. CASE Recv
  BY <1>7, TakeStep, AnswerStep
<1>8. CASE OpenFile
  BY <1>8, OpenFileStep
<1>9. CASE OpenFails \/ NewlineFails
  BY <1>9, FailStep
<1>10. CASE WriteLine
  BY <1>10, WriteStep
<1>11. CASE WriteFails
  <2>1. UNCHANGED files \/ Put([Line(writer.rec) EXCEPT !.torn = TRUE])
    BY <1>11 DEF WriteFails
  <2> QED
    BY <1>11, <2>1, FailStep, TornStep
<1>12. CASE Newline
  BY <1>12, NewlineStep
<1>13. CASE UNCHANGED vars
  BY <1>13, Stays
<1> QED
  BY <1>1, <1>2, <1>3, <1>4, <1>5, <1>6, <1>7, <1>8, <1>9, <1>10, <1>11, <1>12, <1>13
     DEF Next, Writes

\* Every variable keeps its type: what append_at, the writer's thread and open
\* leave in the log, its queue and its files.
THEOREM AuditTypeCorrect == Spec => []Types
<1>1. AuditInv => Types
  BY DEF AuditInv
<1> QED
  BY <1>1, Begins, Steps, PTL DEF Spec

\* What `verify` and `flush` of audit.rs say is always so: no false alarm while no
\* write failed, no hole unseen, and what was promised is accounted for.
THEOREM ChainAlwaysTells == Spec => []ChainTells
BY Begins, Steps, InvTells, PTL DEF Spec

-----------------------------------------------------------------------------
(* Reading the files in order: FlattenSeq, one piece at a time. *)

LEMMA Induction ==
  ASSUME NEW S \in SUBSET Nat, 0 \in S, \A n \in S : n + 1 \in S
  PROVE  S = Nat
<1> SUFFICES ASSUME Nat \ S # {} PROVE FALSE
  OBVIOUS
<1>1. PICK n \in Nat \ S : \A m \in Nat \ S : n <= m
  <2>1. Nat \ S \subseteq Nat
    OBVIOUS
  <2> QED
    BY <2>1, LeastOf
<1>2. n # 0 /\ n - 1 \in Nat /\ n - 1 < n /\ (n - 1) + 1 = n
  BY <1>1
<1>3. n - 1 \in S
  BY <1>1, <1>2
<1> QED
  BY <1>1, <1>2, <1>3

\* What `flatten` of FlattenSeq is, as far as piece n.
Flats(f, s, n) ==
  DOMAIN f = 1 .. n /\ \A i \in 1 .. n : f[i] = IF i = 1 THEN s[i] ELSE f[i - 1] \o s[i]

LEMMA FlatsExist ==
  ASSUME NEW s, NEW n \in Nat
  PROVE  \E f : Flats(f, s, n)
<1> DEFINE S == {k \in Nat : \E f : Flats(f, s, k)}
<1>1. 0 \in S
  <2>1. Flats([i \in 1 .. 0 |-> 0], s, 0)
    BY DEF Flats
  <2> QED
    BY <2>1
<1>2. ASSUME NEW k \in S PROVE k + 1 \in S
  <2>1. PICK f : Flats(f, s, k)
    OBVIOUS
  <2>2. PICK x, h : /\ x = IF k + 1 = 1 THEN s[k + 1] ELSE f[k] \o s[k + 1]
                    /\ h = [i \in 1 .. (k + 1) |-> IF i = k + 1 THEN x ELSE f[i]]
    OBVIOUS
  <2>3. ASSUME NEW i \in 1 .. (k + 1) PROVE h[i] = IF i = 1 THEN s[i] ELSE h[i - 1] \o s[i]
    <3>1. CASE i = k + 1
      <4>1. i # 1 => i - 1 \in 1 .. (k + 1) /\ i - 1 # k + 1 /\ i - 1 = k
        BY <3>1
      <4>2. i # 1 => h[i - 1] = f[k]
        BY <2>2, <4>1
      <4> QED
        BY <2>2, <3>1, <4>2
    <3>2. CASE i # k + 1
      <4>1. i \in 1 .. k /\ (i # 1 => i - 1 \in 1 .. (k + 1) /\ i - 1 # k + 1)
        BY <3>2
      <4>2. h[i] = f[i] /\ (i # 1 => h[i - 1] = f[i - 1])
        BY <2>2, <3>2, <4>1
      <4> QED
        BY <2>1, <4>1, <4>2 DEF Flats
    <3> QED
      BY <3>1, <3>2
  <2>4. DOMAIN h = 1 .. (k + 1)
    BY <2>2
  <2>5. Flats(h, s, k + 1)
    BY <2>3, <2>4 DEF Flats
  <2> QED
    BY <2>5
<1> HIDE DEF S
<1>3. S = Nat
  <2>1. S \in SUBSET Nat
    BY DEF S
  <2> QED
    BY <1>1, <1>2, <2>1, Induction
<1> QED
  BY <1>3 DEF S

Same(s, t, n) == \A i \in 1 .. n : s[i] = t[i]

\* Two of them agree as far as both go and their pieces are the same.
LEMMA FlatsAgree ==
  ASSUME NEW s, NEW t, NEW m \in Nat, NEW n \in Nat, m <= n,
         Same(s, t, m),
         NEW e, NEW f, Flats(e, s, m), Flats(f, t, n)
  PROVE  Same(e, f, m)
<1> DEFINE S == {k \in Nat : k \in 1 .. m => e[k] = f[k]}
<1>1. 0 \in S
  OBVIOUS
<1>2. ASSUME NEW k \in S PROVE k + 1 \in S
  <2>1. CASE k + 1 \in 1 .. m
    <3>1. k + 1 \in 1 .. n /\ (k + 1) - 1 = k /\ (k + 1 # 1 => k \in 1 .. m)
      BY <2>1
    <3>2. /\ e[k + 1] = IF k + 1 = 1 THEN s[k + 1] ELSE e[k] \o s[k + 1]
          /\ f[k + 1] = IF k + 1 = 1 THEN t[k + 1] ELSE f[k] \o t[k + 1]
      BY <2>1, <3>1 DEF Flats
    <3>3. s[k + 1] = t[k + 1] /\ (k + 1 # 1 => e[k] = f[k])
      BY <2>1, <3>1 DEF Same
    <3> QED
      BY <2>1, <3>1, <3>2, <3>3
  <2> QED
    BY <2>1
<1> HIDE DEF S
<1>3. S = Nat
  <2>1. S \in SUBSET Nat
    BY DEF S
  <2> QED
    BY <1>1, <1>2, <2>1, Induction
<1> QED
  BY <1>3 DEF S, Same

LEMMA FlattenIs ==
  ASSUME NEW s, Len(s) \in Nat \ {0}, NEW f, Flats(f, s, Len(s))
  PROVE  FlattenSeq(s) = f[Len(s)]
<1> DEFINE Step(g) == [i \in 1 .. Len(s) |-> IF i = 1 THEN s[i] ELSE g[i - 1] \o s[i]]
           g == CHOOSE h : h = Step(h)
<1>1. FlattenSeq(s) = g[Len(s)]
  BY DEF FlattenSeq
<1>2. \E h : h = Step(h)
  <2>1. PICK h : h = Step(f)
    OBVIOUS
  <2>2. \A i \in 1 .. Len(s) : h[i] = f[i]
    BY <2>1 DEF Flats
  <2>3. \A i \in 1 .. Len(s) : i # 1 => i - 1 \in 1 .. Len(s)
    OBVIOUS
  <2>4. \A i \in 1 .. Len(s) :
          (IF i = 1 THEN s[i] ELSE h[i - 1] \o s[i]) = (IF i = 1 THEN s[i] ELSE f[i - 1] \o s[i])
    BY <2>2, <2>3
  <2>5. Step(h) = Step(f)
    BY <2>4
  <2> HIDE DEF Step
  <2>6. h = Step(h)
    BY <2>1, <2>5
  <2> QED
    BY <2>6
<1> HIDE DEF Step
<1>3. g = Step(g)
  BY <1>2
<1> HIDE DEF g
<1>4. Flats(g, s, Len(s))
  BY <1>3 DEF Step, Flats
<1>5. PICK n \in Nat : n = Len(s) /\ n # 0
  OBVIOUS
<1>6. Flats(g, s, n) /\ Flats(f, s, n) /\ n <= n /\ n \in 1 .. n /\ Same(s, s, n)
  BY <1>4, <1>5 DEF Same
<1>7. Same(g, f, n)
  BY <1>6, FlatsAgree
<1> QED
  BY <1>1, <1>5, <1>6, <1>7 DEF Same

\* Pieces of U read as a sequence of U ...
LEMMA FlattenType ==
  ASSUME NEW U, NEW s \in Seq(Seq(U))
  PROVE  FlattenSeq(s) \in Seq(U)
<1>1. PICK n : n = Len(s) /\ n \in Nat /\ \A i \in 1 .. n : s[i] \in Seq(U)
  BY LenProperties, ElementOfSeq
<1>2. CASE n = 0
  BY <1>1, <1>2, EmptySeq DEF FlattenSeq
<1>3. CASE n # 0
  <2>1. PICK f : Flats(f, s, n)
    BY <1>1, FlatsExist
  <2> DEFINE S == {k \in Nat : k \in 1 .. n => f[k] \in Seq(U)}
  <2>2. 0 \in S
    OBVIOUS
  <2>3. ASSUME NEW k \in S PROVE k + 1 \in S
    <3>1. CASE k + 1 \in 1 .. n
      <4>1. k \in Nat /\ (k + 1) - 1 = k /\ (k + 1 # 1 => k \in 1 .. n)
        BY <1>1, <3>1
      <4>2. f[k + 1] = IF k + 1 = 1 THEN s[k + 1] ELSE f[k] \o s[k + 1]
        BY <2>1, <3>1, <4>1 DEF Flats
      <4>3. s[k + 1] \in Seq(U) /\ (k + 1 # 1 => f[k] \in Seq(U))
        BY <1>1, <3>1, <4>1
      <4>4. k + 1 # 1 => f[k] \o s[k + 1] \in Seq(U)
        BY <4>3, ConcatProperties
      <4>5. f[k + 1] \in Seq(U)
        BY <4>2, <4>3, <4>4
      <4> QED
        BY <4>1, <4>5
    <3> QED
      BY <3>1
  <2> HIDE DEF S
  <2>4. S = Nat
    <3>1. S \in SUBSET Nat
      BY DEF S
    <3> QED
      BY <2>2, <2>3, <3>1, Induction
  <2>5. f[n] \in Seq(U)
    BY <1>1, <1>3, <2>4 DEF S
  <2> QED
    BY <1>1, <1>3, <2>1, <2>5, FlattenIs
<1> QED
  BY <1>2, <1>3

\* ... and one more piece comes last.
LEMMA FlattenAppend ==
  ASSUME NEW U, NEW s \in Seq(Seq(U)), NEW x \in Seq(U)
  PROVE  FlattenSeq(Append(s, x)) = FlattenSeq(s) \o x
<1>2. PICK n, t : n = Len(s) /\ t = Append(s, x)
  OBVIOUS
<1>3. n \in Nat /\ Len(t) = n + 1 /\ t[n + 1] = x /\ \A i \in 1 .. n : t[i] = s[i]
  BY <1>2, LenProperties, AppendProperties
<1>4. PICK f : Flats(f, t, n + 1)
  <2>1. n + 1 \in Nat
    BY <1>3
  <2> QED
    BY <2>1, FlatsExist
<1>5. FlattenSeq(t) = f[n + 1]
  <2>1. Len(t) \in Nat \ {0} /\ Flats(f, t, Len(t))
    BY <1>3, <1>4
  <2> QED
    BY <1>3, <2>1, FlattenIs
<1>6. CASE n = 0
  <2>1. FlattenSeq(s) = <<>>
    BY <1>2, <1>6, EmptySeq DEF FlattenSeq
  <2>2. f[n + 1] = x
    BY <1>3, <1>4, <1>6 DEF Flats
  <2> QED
    BY <1>2, <1>5, <2>1, <2>2, ConcatEmptySeq
<1>7. CASE n # 0
  <2>1. PICK e : Flats(e, s, n)
    BY <1>3, FlatsExist
  <2>2. FlattenSeq(s) = e[n]
    BY <1>2, <1>3, <1>7, <2>1, FlattenIs
  <2>3. e[n] = f[n]
    <3>1. n <= n + 1 /\ n + 1 \in Nat /\ n \in 1 .. n /\ Same(s, t, n)
      BY <1>3, <1>7 DEF Same
    <3>2. Same(e, f, n)
      BY <1>3, <1>4, <2>1, <3>1, FlatsAgree
    <3> QED
      BY <3>1, <3>2 DEF Same
  <2>4. n + 1 \in 1 .. (n + 1) /\ n + 1 # 1 /\ (n + 1) - 1 = n
    BY <1>3, <1>7
  <2>5. f[n + 1] = f[n] \o x
    BY <1>3, <1>4, <2>4 DEF Flats
  <2> QED
    BY <1>2, <1>5, <2>2, <2>3, <2>5
<1> QED
  BY <1>6, <1>7, <1>3

\* Pieces with nothing in them at the end are not seen.
LEMMA FlattenEnd ==
  ASSUME NEW U, NEW s \in Seq(Seq(U)), NEW o \in 1 .. Len(s),
         \A i \in 1 .. Len(s) : i > o => s[i] = <<>>
  PROVE  /\ FlattenSeq(SubSeq(s, 1, o - 1)) \in Seq(U)
         /\ FlattenSeq(s) = FlattenSeq(SubSeq(s, 1, o - 1)) \o s[o]
<1>1. PICK n : n = Len(s) /\ n \in Nat /\ o \in 1 .. n /\ \A i \in 1 .. n : s[i] \in Seq(U)
  BY LenProperties, ElementOfSeq
<1>2. PICK f : Flats(f, s, n)
  BY <1>1, FlatsExist
<1>3. FlattenSeq(s) = f[n]
  BY <1>1, <1>2, FlattenIs
<1> DEFINE t == SubSeq(s, 1, o - 1)
<1>4. /\ t \in Seq(Seq(U)) /\ Len(t) = o - 1 /\ o - 1 \in Nat /\ \A i \in 1 .. (o - 1) : t[i] = s[i]
  <2>1. \A i \in 1 .. (o - 1) : s[i] \in Seq(U)
    BY <1>1
  <2>2. /\ t \in Seq(Seq(U)) /\ Len(t) = (IF 1 <= o - 1 THEN o - 1 - 1 + 1 ELSE 0)
        /\ \A i \in 1 .. (o - 1 - 1 + 1) : t[i] = s[1 + i - 1]
    BY <1>1, <2>1, SubSeqProperties
  <2>3. \A i \in 1 .. (o - 1) : i \in 1 .. (o - 1 - 1 + 1) /\ 1 + i - 1 = i
    BY <1>1
  <2> HIDE DEF t
  <2> QED
    BY <1>1, <2>2, <2>3
<1> HIDE DEF t
<1>5. FlattenSeq(t) \in Seq(U)
  BY <1>4, FlattenType
<1>6. f[o] = FlattenSeq(t) \o s[o]
  <2>1. CASE o = 1
    <3>1. FlattenSeq(t) = <<>>
      BY <1>4, <2>1, EmptySeq DEF FlattenSeq
    <3>2. f[o] = s[o]
      BY <1>1, <1>2, <2>1 DEF Flats
    <3> QED
      BY <1>1, <3>1, <3>2, ConcatEmptySeq
  <2>2. CASE o # 1
    <3>1. PICK e : Flats(e, t, o - 1)
      BY <1>4, FlatsExist
    <3>2. FlattenSeq(t) = e[o - 1]
      <4>1. Len(t) \in Nat \ {0} /\ Flats(e, t, Len(t))
        BY <1>1, <1>4, <2>2, <3>1
      <4> QED
        BY <1>4, <4>1, FlattenIs
    <3>3. o - 1 \in 1 .. (o - 1) /\ o - 1 \in Nat /\ n \in Nat /\ o - 1 <= n
          /\ Same(t, s, o - 1)
      BY <1>1, <1>4, <2>2 DEF Same
    <3>4. Same(e, f, o - 1)
      BY <1>1, <1>2, <1>4, <3>1, <3>3, FlatsAgree
    <3>5. f[o] = f[o - 1] \o s[o]
      BY <1>1, <1>2, <2>2 DEF Flats
    <3> QED
      BY <3>2, <3>3, <3>4, <3>5 DEF Same
  <2> QED
    BY <2>1, <2>2
<1>7. f[o] \in Seq(U)
  BY <1>1, <1>5, <1>6, ConcatProperties
<1> DEFINE S == {k \in Nat : o + k \in 1 .. n => f[o + k] = f[o]}
<1>8. 0 \in S
  BY <1>1
<1>9. ASSUME NEW k \in S PROVE k + 1 \in S
  <2>1. CASE o + (k + 1) \in 1 .. n
    <3>1. /\ o + k \in 1 .. n /\ o + (k + 1) # 1 /\ (o + (k + 1)) - 1 = o + k /\ o + (k + 1) > o
      BY <1>1, <2>1
    <3>2. f[o + (k + 1)] = f[o + k] \o s[o + (k + 1)]
      BY <1>2, <2>1, <3>1 DEF Flats
    <3>3. s[o + (k + 1)] = <<>> /\ f[o + k] = f[o]
      BY <1>1, <2>1, <3>1
    <3> QED
      BY <1>7, <3>2, <3>3, ConcatEmptySeq
  <2> QED
    BY <2>1
<1> HIDE DEF S
<1>10. S = Nat
  <2>1. S \in SUBSET Nat
    BY DEF S
  <2> QED
    BY <1>8, <1>9, <2>1, Induction
<1>11. n - o \in S /\ o + (n - o) = n /\ n \in 1 .. n
  BY <1>1, <1>10
<1>12. f[n] = f[o]
  BY <1>11 DEF S
<1> QED
  BY <1>3, <1>5, <1>6, <1>12 DEF t

-----------------------------------------------------------------------------
(* The records, in the order in which they are read. *)

Recs == RecordsOf(Lines)
LinesOf(U) == [recs : Seq(U), torn : BOOLEAN, ended : BOOLEAN]

LEMMA RecordsType ==
  ASSUME NEW U, NEW ls \in Seq(LinesOf(U))
  PROVE  RecordsOf(ls) \in Seq(U)
<1>1. PICK p : p = [i \in DOMAIN ls |-> ls[i].recs]
  OBVIOUS
<1>2. Len(ls) \in Nat /\ DOMAIN ls = 1 .. Len(ls) /\ \A i \in DOMAIN ls : ls[i].recs \in Seq(U)
  <2>1. Len(ls) \in Nat /\ DOMAIN ls = 1 .. Len(ls)
    BY LenProperties
  <2>2. \A i \in 1 .. Len(ls) : ls[i] \in LinesOf(U)
    BY ElementOfSeq
  <2> QED
    BY <2>1, <2>2 DEF LinesOf
<1>3. p \in [1 .. Len(ls) -> Seq(U)]
  BY <1>1, <1>2
<1>4. p \in Seq(Seq(U))
  BY <1>2, <1>3, SeqDef
<1>5. FlattenSeq(p) \in Seq(U)
  BY <1>4, FlattenType
<1> QED
  BY <1>1, <1>5 DEF RecordsOf

\* A line that comes last brings its records last.
LEMMA RecordsAppend ==
  ASSUME NEW U, NEW ls \in Seq(LinesOf(U)), NEW line \in LinesOf(U)
  PROVE  RecordsOf(Append(ls, line)) = RecordsOf(ls) \o line.recs
<1>1. PICK p, q, ms : /\ ms = Append(ls, line)
                      /\ p = [i \in DOMAIN ls |-> ls[i].recs] /\ q = [i \in DOMAIN ms |-> ms[i].recs]
  OBVIOUS
<1>2. Len(ls) \in Nat /\ DOMAIN ls = 1 .. Len(ls) /\ \A i \in DOMAIN ls : ls[i].recs \in Seq(U)
  <2>1. Len(ls) \in Nat /\ DOMAIN ls = 1 .. Len(ls)
    BY LenProperties
  <2>2. \A i \in 1 .. Len(ls) : ls[i] \in LinesOf(U)
    BY ElementOfSeq
  <2> QED
    BY <2>1, <2>2 DEF LinesOf
<1>3. /\ ms \in Seq(LinesOf(U)) /\ Len(ms) = Len(ls) + 1 /\ ms[Len(ls) + 1] = line
      /\ \A i \in 1 .. Len(ls) : ms[i] = ls[i]
  BY <1>1, AppendProperties
<1>4. DOMAIN ms = 1 .. (Len(ls) + 1) /\ line.recs \in Seq(U)
  BY <1>3, LenProperties DEF LinesOf
<1>5. p \in Seq(Seq(U)) /\ Len(p) = Len(ls) /\ \A i \in 1 .. Len(ls) : p[i] = ls[i].recs
  <2>1. p \in [1 .. Len(ls) -> Seq(U)]
    BY <1>1, <1>2
  <2>2. p \in Seq(Seq(U))
    BY <1>2, <2>1, SeqDef
  <2> QED
    BY <1>1, <1>2, <2>2, LenProperties
<1>6. q \in Seq(Seq(U)) /\ Len(q) = Len(ls) + 1
  <2>1. \A i \in 1 .. (Len(ls) + 1) : ms[i].recs \in Seq(U)
    BY <1>2, <1>3, <1>4
  <2>2. q \in [1 .. (Len(ls) + 1) -> Seq(U)]
    BY <1>1, <1>4, <2>1
  <2>3. q \in Seq(Seq(U))
    BY <1>2, <2>2, SeqDef
  <2> QED
    BY <1>2, <2>2, <2>3, LenProperties
<1>7. q = Append(p, line.recs)
  <2>1. /\ Append(p, line.recs) \in Seq(Seq(U)) /\ Len(Append(p, line.recs)) = Len(ls) + 1
        /\ \A i \in 1 .. Len(ls) : Append(p, line.recs)[i] = p[i]
        /\ Append(p, line.recs)[Len(ls) + 1] = line.recs
    BY <1>4, <1>5, AppendProperties
  <2>2. ASSUME NEW i \in 1 .. Len(q) PROVE q[i] = Append(p, line.recs)[i]
    <3>1. i \in 1 .. (Len(ls) + 1) /\ q[i] = ms[i].recs
      BY <1>1, <1>4, <1>6
    <3>2. CASE i = Len(ls) + 1
      BY <1>3, <2>1, <3>1, <3>2
    <3>3. CASE i # Len(ls) + 1
      <4>1. i \in 1 .. Len(ls)
        BY <1>2, <3>1, <3>3
      <4> QED
        BY <1>3, <1>5, <2>1, <3>1, <4>1
    <3> QED
      BY <3>2, <3>3
  <2> QED
    BY <1>6, <2>1, <2>2, SeqEqual
<1>8. PICK r : r = line.recs /\ r \in Seq(U)
  BY <1>4
<1>9. FlattenSeq(Append(p, r)) = FlattenSeq(p) \o r
  BY <1>5, <1>8, FlattenAppend
<1> QED
  BY <1>1, <1>7, <1>8, <1>9 DEF RecordsOf

\* What is read before the file of day d.
Before(fs, d) == fs[0] \o FlattenSeq(SubSeq([x \in 1 .. Days |-> fs[x]], 1, d - 1))

LEMMA Split ==
  ASSUME NEW L, NEW fs \in [0 .. Days -> Seq(L)], NEW d \in 1 .. Days,
         \A x \in 0 .. Days : x > d => fs[x] = <<>>
  PROVE  /\ Before(fs, d) \in Seq(L)
         /\ fs[0] \o FlattenSeq([x \in 1 .. Days |-> fs[x]]) = Before(fs, d) \o fs[d]
<1>1. PICK s : s = [x \in 1 .. Days |-> fs[x]]
  OBVIOUS
<1>2. s \in Seq(Seq(L)) /\ Len(s) = Days /\ \A x \in 1 .. Days : s[x] = fs[x]
  <2>1. s \in [1 .. Days -> Seq(L)] /\ Days \in Nat
    BY <1>1, Bounds
  <2>2. s \in Seq(Seq(L))
    BY <2>1, SeqDef
  <2> QED
    BY <1>1, <2>1, <2>2, LenProperties
<1>3. d \in 1 .. Len(s) /\ \A x \in 1 .. Len(s) : x > d => s[x] = <<>>
  BY <1>2, Bounds
<1>4. PICK t : t = FlattenSeq(SubSeq(s, 1, d - 1))
  OBVIOUS
<1>5. t \in Seq(L) /\ FlattenSeq(s) = t \o s[d]
  BY <1>2, <1>3, <1>4, FlattenEnd
<1>6. fs[0] \in Seq(L) /\ fs[d] \in Seq(L) /\ s[d] = fs[d]
  BY <1>2, Bounds
<1>7. fs[0] \o t \in Seq(L) /\ fs[0] \o (t \o fs[d]) = (fs[0] \o t) \o fs[d]
  <2>1. PICK old \in Seq(L), f \in Seq(L) : old = fs[0] /\ f = fs[d]
    BY <1>6
  <2>2. old \o t \in Seq(L)
    BY <1>5, <2>1, ConcatProperties
  <2>3. (old \o t) \o f = old \o (t \o f)
    BY <1>5, ConcatAssociative
  <2> QED
    BY <2>1, <2>2, <2>3
<1> QED
  BY <1>1, <1>4, <1>5, <1>6, <1>7 DEF Before

LEMMA SameBefore ==
  ASSUME NEW L, NEW fs \in [0 .. Days -> Seq(L)], NEW gs \in [0 .. Days -> Seq(L)],
         NEW d \in 1 .. Days, \A x \in 0 .. Days : x # d => gs[x] = fs[x]
  PROVE  Before(gs, d) = Before(fs, d)
<1>1. PICK s, t : s = [x \in 1 .. Days |-> fs[x]] /\ t = [x \in 1 .. Days |-> gs[x]]
  OBVIOUS
<1>2. \A x \in 1 .. (d - 1) : s[x] \in Seq(L) /\ t[x] = s[x]
  <2>1. ASSUME NEW x \in 1 .. (d - 1) PROVE x \in 1 .. Days /\ x \in 0 .. Days /\ x # d
    BY Bounds
  <2> QED
    BY <1>1, <2>1
<1>3. PICK u, v : u = SubSeq(s, 1, d - 1) /\ v = SubSeq(t, 1, d - 1)
  OBVIOUS
<1>4. PICK k : k = d - 1 /\ k \in Int /\ k - 1 + 1 = k
  BY Bounds
<1>5. /\ u \in Seq(Seq(L)) /\ Len(u) = (IF 1 <= k THEN k - 1 + 1 ELSE 0)
      /\ \A i \in 1 .. (k - 1 + 1) : u[i] = s[1 + i - 1]
  BY <1>2, <1>3, <1>4, SubSeqProperties
<1>6. /\ v \in Seq(Seq(L)) /\ Len(v) = (IF 1 <= k THEN k - 1 + 1 ELSE 0)
      /\ \A i \in 1 .. (k - 1 + 1) : v[i] = t[1 + i - 1]
  <2>1. \A x \in 1 .. (d - 1) : t[x] \in Seq(L)
    BY <1>2
  <2> QED
    BY <1>3, <1>4, <2>1, SubSeqProperties
<1>7. u = v
  <2>1. ASSUME NEW i \in 1 .. Len(u) PROVE u[i] = v[i]
    <3>1. i \in 1 .. (k - 1 + 1) /\ 1 + i - 1 = i /\ i \in 1 .. (d - 1)
      BY <1>4, <1>5
    <3> QED
      BY <1>2, <1>5, <1>6, <3>1
  <2> QED
    BY <1>5, <1>6, <2>1, SeqEqual
<1>8. gs[0] = fs[0]
  BY Bounds
<1> QED
  BY <1>1, <1>3, <1>7, <1>8 DEF Before

\* What a change of the end of the newest file does to what is read.
Extends(f, g, more) ==
  \E head \in Seq(LineSet), new \in LineSet :
    /\ g = Append(head, new)
    /\ \/ f = head /\ new.recs = more
       \/ \E last \in LineSet : f = Append(head, last) /\ new.recs = last.recs \o more

LEMMA ReadOn ==
  ASSUME NEW fs \in [0 .. Days -> Seq(LineSet)], NEW gs \in [0 .. Days -> Seq(LineSet)],
         NEW d \in 1 .. Days, \A x \in 0 .. Days : x > d => fs[x] = <<>>,
         \A x \in 0 .. Days : x # d => gs[x] = fs[x],
         NEW more \in Seq(Nat), Extends(fs[d], gs[d], more)
  PROVE  RecordsOf(gs[0] \o FlattenSeq([x \in 1 .. Days |-> gs[x]]))
           = RecordsOf(fs[0] \o FlattenSeq([x \in 1 .. Days |-> fs[x]])) \o more
<1>1. PICK b, ls, ms :
        /\ b = Before(fs, d)
        /\ ls = fs[0] \o FlattenSeq([x \in 1 .. Days |-> fs[x]])
        /\ ms = gs[0] \o FlattenSeq([x \in 1 .. Days |-> gs[x]])
  OBVIOUS
<1>2. b \in Seq(LineSet) /\ ls = b \o fs[d]
  BY <1>1, Split
<1>3. ms = b \o gs[d]
  <2>1. \A x \in 0 .. Days : x > d => gs[x] = <<>>
    BY Bounds
  <2>2. ms = Before(gs, d) \o gs[d]
    BY <1>1, <2>1, Split
  <2>3. Before(gs, d) = b
    BY <1>1, SameBefore
  <2> QED
    BY <2>2, <2>3
<1>4. PICK head \in Seq(LineSet), new \in LineSet :
        /\ gs[d] = Append(head, new)
        /\ \/ fs[d] = head /\ new.recs = more
           \/ \E last \in LineSet : fs[d] = Append(head, last) /\ new.recs = last.recs \o more
  BY DEF Extends
<1>5. ASSUME NEW l \in LineSet PROVE b \o Append(head, l) = Append(b \o head, l)
  <2>1. <<l>> \in Seq(LineSet) /\ b \o head \in Seq(LineSet)
    BY <1>2, ConcatProperties
  <2>2. Append(head, l) = head \o <<l>> /\ Append(b \o head, l) = (b \o head) \o <<l>>
    BY <2>1, AppendIsConcat
  <2> QED
    BY <1>2, <2>1, <2>2, ConcatAssociative
<1>6. PICK h : h = b \o head /\ h \in Seq(LineSet)
  BY <1>2, ConcatProperties
<1>7. LineSet = LinesOf(Nat)
  BY DEF LineSet, LinesOf
<1>8. RecordsOf(h) \in Seq(Nat)
  BY <1>6, <1>7, RecordsType
<1>9. \A l \in LineSet : RecordsOf(Append(h, l)) = RecordsOf(h) \o l.recs
  BY <1>6, <1>7, RecordsAppend
<1>10. ms = Append(h, new)
  BY <1>3, <1>4, <1>5, <1>6
<1>11. CASE fs[d] = head /\ new.recs = more
  BY <1>1, <1>2, <1>6, <1>9, <1>10, <1>11
<1>12. CASE \E last \in LineSet : fs[d] = Append(head, last) /\ new.recs = last.recs \o more
  <2>1. PICK last \in LineSet : fs[d] = Append(head, last) /\ new.recs = last.recs \o more
    BY <1>12
  <2>2. ls = Append(h, last)
    BY <1>2, <1>5, <1>6, <2>1
  <2>3. RecordsOf(ls) = RecordsOf(h) \o last.recs /\ RecordsOf(ms) = RecordsOf(h) \o new.recs
    BY <1>9, <1>10, <2>2
  <2>4. last.recs \in Seq(Nat)
    BY DEF LineSet
  <2>5. RecordsOf(h) \o (last.recs \o more) = (RecordsOf(h) \o last.recs) \o more
    <3>1. PICK U : U = Nat
      OBVIOUS
    <3>2. PICK r \in Seq(U), q \in Seq(U), m \in Seq(U) : r = RecordsOf(h) /\ q = last.recs /\ m = more
      BY <1>8, <2>4, <3>1
    <3>3. (r \o q) \o m = r \o (q \o m)
      BY ConcatAssociative
    <3> QED
      BY <3>2, <3>3
  <2> QED
    BY <1>1, <2>1, <2>3, <2>5
<1> QED
  BY <1>4, <1>11, <1>12

\* Every record that is read is on disk.
LEMMA ReadIsOnDisk ==
  ASSUME Types
  PROVE  Recs \in Seq(OnDisk)
<1>1. PICK U, L : U = OnDisk /\ L = LinesOf(U)
  OBVIOUS
<1>2. ASSUME NEW x \in 0 .. Days PROVE files[x] \in Seq(L)
  <2>1. PICK f : f = files[x] /\ f \in Seq(LineSet)
    BY FileIs
  <2>2. ASSUME NEW i \in DOMAIN f PROVE f[i] \in L
    <3>1. PICK l : l = f[i] /\ l \in LineSet
      BY <2>1, FileIs
    <3>2. l.recs \in Seq(Nat) /\ Len(l.recs) \in Nat /\ DOMAIN l.recs = 1 .. Len(l.recs)
      BY <3>1, LineIs
    <3>3. \A j \in 1 .. Len(l.recs) : l.recs[j] \in U
      BY <1>1, <2>1, <3>1, <3>2, OnDiskIs
    <3>4. PICK r, n : r = l.recs /\ n = Len(r) /\ n \in Nat /\ r \in [1 .. n -> U]
      BY <3>2, <3>3, LenProperties
    <3>5. l.recs \in Seq(U)
      <4>1. r \in Seq(U)
        BY <3>4, SeqDef
      <4> QED
        BY <3>4, <4>1
    <3> QED
      BY <1>1, <3>1, <3>5 DEF LinesOf, LineSet
  <2>3. Len(f) \in Nat /\ DOMAIN f = 1 .. Len(f) /\ f \in [1 .. Len(f) -> LineSet]
    BY <2>1, LenProperties
  <2>4. f \in [1 .. Len(f) -> L]
    BY <2>2, <2>3
  <2> QED
    BY <2>1, <2>3, <2>4, SeqDef
<1>3. files \in [0 .. Days -> Seq(L)]
  BY <1>2 DEF Types
<1>4. PICK s : s = [d \in 1 .. Days |-> files[d]]
  OBVIOUS
<1>5. s \in Seq(Seq(L))
  <2>1. s \in [1 .. Days -> Seq(L)] /\ Days \in Nat
    BY <1>3, <1>4, Bounds
  <2> QED
    BY <2>1, SeqDef
<1>6. files[0] \in Seq(L) /\ FlattenSeq(s) \in Seq(L)
  BY <1>3, <1>5, FlattenType, Bounds
<1>7. Lines \in Seq(L)
  BY <1>4, <1>6, ConcatProperties DEF Lines, LEGACY
<1> QED
  BY <1>1, <1>7, RecordsType DEF Recs

-----------------------------------------------------------------------------
(* The numbers of the records rise. *)

\* The last record of a file.
LastOf(f) == LET recs == f[Len(f)].recs IN recs[Len(recs)]

\* Records on disk have smaller numbers than what is behind them there or is chained
\* by this start, and the one read last is the newest of them.
Numbers ==
  /\ \A n \in OnDisk, m \in DOMAIN made :
       n < m /\ (m \in OnDisk \/ made[m].life = life) => made[n].id < made[m].id
  /\ \A n, m \in DOMAIN made :
       n < m /\ made[n].life = life /\ made[m].life = life => made[n].id < made[m].id
  /\ core.pc # "down" =>
       \A n \in DOMAIN made : n \in OnDisk \/ made[n].life = life => made[n].id < state.seq
  /\ \A d \in 0 .. Days : Newest(d) /\ files[d] # <<>> => \A r \in OnDisk : r <= LastOf(files[d])

LEMMA FrontLast ==
  ASSUME NEW U, NEW head \in Seq(U), NEW last \in U
  PROVE  Front(Append(head, last)) = head /\ Last(Append(head, last)) = last
<1>1. PICK s, n : s = Append(head, last) /\ n = Len(head)
  OBVIOUS
<1>2. s \in Seq(U) /\ Len(s) = n + 1 /\ s[n + 1] = last /\ \A i \in 1 .. n : s[i] = head[i]
  BY <1>1, AppendProperties
<1>3. n \in Nat
  BY <1>1, LenProperties
<1>4. PICK t : t = SubSeq(s, 1, n)
  OBVIOUS
<1>5. t \in Seq(U) /\ Len(t) = n /\ \A i \in 1 .. n : t[i] = s[i]
  <2>1. \A i \in 1 .. n : s[i] \in U
    BY <1>1, <1>2, <1>3, ElementOfSeq
  <2>2. /\ t \in Seq(U) /\ Len(t) = (IF 1 <= n THEN n - 1 + 1 ELSE 0)
        /\ \A i \in 1 .. (n - 1 + 1) : t[i] = s[1 + i - 1]
    BY <1>3, <1>4, <2>1, SubSeqProperties
  <2>3. \A i \in 1 .. n : i \in 1 .. (n - 1 + 1) /\ 1 + i - 1 = i
    BY <1>3
  <2> QED
    BY <1>3, <2>2, <2>3
<1>6. t = head
  <2>1. Len(t) = Len(head) /\ \A i \in 1 .. Len(t) : t[i] = head[i]
    BY <1>1, <1>2, <1>5
  <2> QED
    BY <1>5, <2>1, SeqEqual
<1>7. Front(s) = SubSeq(s, 1, n)
  <2>1. Len(s) - 1 = n
    BY <1>2, <1>3
  <2> QED
    BY <2>1 DEF Front
<1>8. Last(s) = last
  BY <1>2 DEF Last
<1> QED
  BY <1>1, <1>4, <1>6, <1>7, <1>8

\* A line ends with the record that was put there.
LEMMA LastOfIs ==
  ASSUME NEW head \in Seq(LineSet), NEW new \in LineSet, NEW recs \in Seq(Nat), NEW n \in Nat,
         new.recs = recs \o <<n>>
  PROVE  LastOf(Append(head, new)) = n
<1>1. /\ Append(head, new)[Len(head) + 1] = new
      /\ Len(Append(head, new)) = Len(head) + 1
  BY AppendProperties
<1>2. recs \o <<n>> = Append(recs, n)
  BY AppendIsConcat
<1>3. Len(Append(recs, n)) = Len(recs) + 1 /\ Append(recs, n)[Len(recs) + 1] = n
  BY AppendProperties
<1> QED
  BY <1>1, <1>2, <1>3 DEF LastOf

LEMMA PutExtends ==
  ASSUME Types, NEW line \in LineSet, NEW n \in Nat, line.recs = <<n>>, Put(line),
         NEW d \in 0 .. Days, d = writer.open
  PROVE  /\ Extends(files[d], files'[d], <<n>>) /\ LastOf(files'[d]) = n
         /\ \A x \in 0 .. Days : x # d => files'[x] = files[x]
<1>1. PICK was, g :
        /\ was = files[d] /\ g = files'[d]
        /\ g = IF was = <<>> \/ Last(was).ended THEN Append(was, line)
               ELSE Append(Front(was), [recs |-> Last(was).recs \o line.recs,
                                        torn |-> Last(was).torn \/ line.torn, ended |-> FALSE])
        /\ \A x \in 0 .. Days : x # d => files'[x] = files[x]
  BY DEF Put, Types
<1>2. was \in Seq(LineSet)
  BY <1>1, FileIs
<1>3. CASE was = <<>> \/ Last(was).ended
  <2>1. g = Append(was, line)
    BY <1>1, <1>3
  <2>2. Extends(was, g, <<n>>)
    BY <1>2, <2>1 DEF Extends
  <2>3. line.recs = <<>> \o <<n>> /\ <<>> \in Seq(Nat)
    <3>1. <<n>> \in Seq(Nat)
      OBVIOUS
    <3>2. <<>> \o <<n>> = <<n>>
      BY <3>1, ConcatEmptySeq
    <3> QED
      BY <3>2, EmptySeq
  <2>4. LastOf(g) = n
    BY <1>2, <2>1, <2>3, LastOfIs
  <2> QED
    BY <1>1, <2>2, <2>4
<1>4. CASE ~(was = <<>> \/ Last(was).ended)
  <2>1. PICK head \in Seq(LineSet), last \in LineSet : was = Append(head, last)
    BY <1>2, <1>4, SequenceEmptyOrAppend
  <2>2. Front(was) = head /\ Last(was) = last
    BY <2>1, FrontLast
  <2>3. PICK new : new = [recs |-> last.recs \o line.recs, torn |-> last.torn \/ line.torn, ended |-> FALSE]
    OBVIOUS
  <2>4. new \in LineSet
    <3>1. Joined(new, last, n)
      BY <2>3, JoinedIs
    <3> QED
      BY <3>1 DEF Joined
  <2>5. g = Append(head, new) /\ new.recs = last.recs \o <<n>> /\ last.recs \in Seq(Nat)
    <3>1. g = Append(head, new)
      BY <1>1, <1>4, <2>2, <2>3
    <3> QED
      BY <2>3, <3>1 DEF LineSet
  <2>6. Extends(was, g, <<n>>)
    BY <2>1, <2>4, <2>5 DEF Extends
  <2>7. LastOf(g) = n
    BY <2>4, <2>5, LastOfIs
  <2> QED
    BY <1>1, <2>6, <2>7
<1> QED
  BY <1>3, <1>4

LEMMA NewlineExtends ==
  ASSUME Types, Folder, Newline, NEW d \in 0 .. Days, d = writer.open
  PROVE  /\ Extends(files[d], files'[d], <<>>) /\ files[d] # <<>> /\ files'[d] # <<>>
         /\ LastOf(files'[d]) = LastOf(files[d])
         /\ \A x \in 0 .. Days : x # d => files'[x] = files[x]
<1>1. PICK was, g :
        /\ was = files[d] /\ g = files'[d]
        /\ g = Append(Front(was), [Last(was) EXCEPT !.ended = TRUE])
        /\ \A x \in 0 .. Days : x # d => files'[x] = files[x]
  BY DEF Newline, Types
<1>2. was \in Seq(LineSet) /\ was # <<>>
  BY <1>1, FileIs DEF Newline, Folder
<1>3. PICK head \in Seq(LineSet), last \in LineSet : was = Append(head, last)
  BY <1>2, SequenceEmptyOrAppend
<1>4. Front(was) = head /\ Last(was) = last
  BY <1>3, FrontLast
<1>5. PICK new : new = [last EXCEPT !.ended = TRUE]
  OBVIOUS
<1>6. new \in LineSet /\ new.recs = last.recs /\ last.recs \in Seq(Nat)
  BY <1>5 DEF LineSet
<1>7. g = Append(head, new)
  BY <1>1, <1>4, <1>5
<1>8. new.recs = last.recs \o <<>>
  <2>1. PICK r \in Seq(Nat) : r = last.recs
    BY <1>6
  <2> QED
    BY <1>6, <2>1, ConcatEmptySeq
<1>9. Extends(was, g, <<>>)
  BY <1>3, <1>6, <1>7, <1>8 DEF Extends
<1>10. /\ Append(head, new)[Len(head) + 1] = new /\ Len(Append(head, new)) = Len(head) + 1
       /\ Append(head, last)[Len(head) + 1] = last /\ Len(Append(head, last)) = Len(head) + 1
       /\ Append(head, new) # <<>>
  BY <1>6, AppendProperties
<1>11. LastOf(g) = LastOf(was)
  BY <1>3, <1>6, <1>7, <1>10 DEF LastOf
<1> QED
  BY <1>1, <1>2, <1>7, <1>9, <1>10, <1>11

-----------------------------------------------------------------------------
(* ... as the steps leave them. *)

\* Steps that write nothing and chain nothing.
LEMMA NumbersStay ==
  ASSUME Numbers, files' = files, made' = made, life' = life,
         core'.pc # "down" => core.pc # "down" /\ state' = state
  PROVE  Numbers'
<1>1. OnDisk' = OnDisk
  BY DEF OnDisk
<1>2. \A d : Newest(d)' <=> Newest(d)
  BY DEF Newest
<1> QED
  BY <1>1, <1>2 DEF Numbers

LEMMA NumbersOpen ==
  ASSUME AuditInv, Numbers, Open
  PROVE  Numbers'
<1>1. /\ made' = made /\ files' = files /\ life' = life + 1 /\ Readable
      /\ state' = [prev |-> LastRecord, seq |-> SeqAfter(LastRecord)]
  BY DEF Open, disk
<1>2. Types /\ Lives /\ Folder
  BY DEF AuditInv
<1>3. /\ DOMAIN made = 1 .. Len(made) /\ Len(made) \in Nat
      /\ \A n \in DOMAIN made : made[n].id \in Nat /\ made[n].life # life'
  BY <1>1, <1>2, MadeIs DEF Lives, Types
<1>4. OnDisk' = OnDisk /\ OnDisk \subseteq DOMAIN made /\ \A d : Newest(d)' <=> Newest(d)
  BY <1>1, <1>2, DiskIsMade DEF OnDisk, Newest
<1>5. ASSUME NEW n \in OnDisk PROVE made[n].id < state'.seq
  <2>1. PICK d, f : d = LastFile /\ f = files[d] /\ d \in 0 .. Days /\ Newest(d)
    BY <1>2, LastIs DEF Newest
  <2>2. f # <<>>
    <3>1. PICK x \in 0 .. Days : \E i \in DOMAIN files[x] : TRUE
      BY OnDiskIs
    <3>2. files[x] # <<>>
      BY <3>1, <1>2, FileIs
    <3> QED
      BY <1>2, <2>1, <3>2, LastIs
  <2>3. LastRecord = f[Len(f)].recs[1] /\ Len(f) \in DOMAIN f /\ f[Len(f)] \in LineSet
    BY <1>2, <2>1, <2>2, LastIs, FileIs
  <2>4. Len(f[Len(f)].recs) = 1
    BY <1>1, <2>1, <2>3 DEF Readable, Fine
  <2>5. LastOf(f) = LastRecord
    BY <2>3, <2>4 DEF LastOf
  <2>6. n <= LastRecord
    BY <2>1, <2>2, <2>5 DEF Numbers
  <2>7. LastRecord \in OnDisk
    BY <2>1, <2>3, <2>4, OnDiskIs, LineIs
  <2>8. LastRecord \in DOMAIN made /\ n \in DOMAIN made /\ LastRecord # GENESIS
    BY <1>3, <1>4, <2>7 DEF GENESIS
  <2>9. made[n].id <= made[LastRecord].id
    BY <1>3, <2>6, <2>7, <2>8 DEF Numbers
  <2>10. state'.seq = made[LastRecord].id + 1
    BY <1>1, <2>8 DEF SeqAfter
  <2> QED
    BY <1>3, <2>8, <2>9, <2>10
<1> QED
  BY <1>1, <1>3, <1>4, <1>5 DEF Numbers

LEMMA NumbersAppend ==
  ASSUME AuditInv, Numbers, NEW day \in 1 .. Days, Append_(day)
  PROVE  /\ Numbers' /\ OnDisk' = OnDisk
         /\ \A n \in DOMAIN made : made'[n] = made[n]
<1>1. PICK rec, N :
        /\ rec = [prev |-> state.prev, id |-> state.seq, day |-> day, life |-> life]
        /\ N = Len(made) + 1 /\ core.pc = "up" /\ made' = Append(made, rec)
        /\ state' = [prev |-> N, seq |-> state.seq + 1]
        /\ core' = [pc |-> "sending", rec |-> N]
        /\ files' = files /\ life' = life
  BY DEF Append_, disk
<1>2. Types /\ Folder
  BY DEF AuditInv
<1>3. rec \in Records /\ rec.id = state.seq /\ rec.life = life /\ state.seq \in Nat /\ life \in Nat
  BY <1>1, <1>2 DEF Types, Records
<1>4. /\ made \in Seq(Records) /\ Len(made) \in Nat /\ DOMAIN made = 1 .. Len(made)
      /\ \A n \in DOMAIN made : made[n].id \in Nat
  BY <1>2, MadeIs DEF Types
<1>5. /\ DOMAIN made' = 1 .. N /\ N \in Nat /\ made'[N] = rec
      /\ \A n \in DOMAIN made : made'[n] = made[n]
  <2>1. /\ Append(made, rec) \in Seq(Records) /\ Len(Append(made, rec)) = Len(made) + 1
        /\ \A i \in 1 .. Len(made) : Append(made, rec)[i] = made[i]
        /\ Append(made, rec)[Len(made) + 1] = rec
    BY <1>3, <1>4, AppendProperties
  <2>2. DOMAIN Append(made, rec) = 1 .. Len(Append(made, rec))
    BY <2>1, LenProperties
  <2> QED
    BY <1>1, <1>4, <2>1, <2>2
<1>6. OnDisk' = OnDisk /\ OnDisk \subseteq DOMAIN made /\ \A d : Newest(d)' <=> Newest(d)
  BY <1>1, <1>2, DiskIsMade DEF OnDisk, Newest
<1>7. \A n \in DOMAIN made' : n = N \/ (n \in DOMAIN made /\ n < N)
  BY <1>1, <1>4, <1>5
<1>8. \A n \in DOMAIN made : n \in OnDisk \/ made[n].life = life => made[n].id < state.seq
  BY <1>1 DEF Numbers
<1>9. N \notin OnDisk /\ state'.seq = state.seq + 1 /\ core.pc # "down"
  BY <1>1, <1>4, <1>6
<1>10. \A n \in OnDisk, m \in DOMAIN made' :
         n < m /\ (m \in OnDisk \/ made'[m].life = life) => made'[n].id < made'[m].id
  <2>1. ASSUME NEW n \in OnDisk, NEW m \in DOMAIN made', n < m, m \in OnDisk \/ made'[m].life = life
        PROVE  made'[n].id < made'[m].id
    <3>1. CASE m = N
      BY <1>3, <1>5, <1>6, <1>8, <3>1
    <3>2. CASE m # N
      BY <1>5, <1>6, <1>7, <2>1, <3>2 DEF Numbers
    <3> QED
      BY <3>1, <3>2
  <2> QED
    BY <2>1
<1>11. \A n, m \in DOMAIN made' :
         n < m /\ made'[n].life = life /\ made'[m].life = life => made'[n].id < made'[m].id
  <2>1. ASSUME NEW n \in DOMAIN made', NEW m \in DOMAIN made', n < m,
               made'[n].life = life, made'[m].life = life
        PROVE  made'[n].id < made'[m].id
    <3>1. n \in DOMAIN made
      BY <1>1, <1>4, <1>5, <1>7, <2>1
    <3>2. CASE m = N
      BY <1>3, <1>5, <1>8, <2>1, <3>1, <3>2
    <3>3. CASE m # N
      BY <1>5, <1>7, <2>1, <3>1, <3>3 DEF Numbers
    <3> QED
      BY <3>2, <3>3
  <2> QED
    BY <2>1
<1>12. \A n \in DOMAIN made' : n \in OnDisk \/ made'[n].life = life => made'[n].id < state'.seq
  BY <1>3, <1>4, <1>5, <1>7, <1>8, <1>9
<1> QED
  BY <1>1, <1>5, <1>6, <1>10, <1>11, <1>12 DEF Numbers

\* A record lands: it is behind everything on disk, with a greater number.
LEMMA NumbersPut ==
  ASSUME AuditInv, Numbers, At("line"), NEW line \in LineSet, NEW n, n = writer.rec,
         line.recs = <<n>>, Put(line),
         made' = made, life' = life, core' = core, state' = state
  PROVE  /\ Numbers' /\ n \in DOMAIN made
         /\ \A r \in OnDisk : r < n /\ made[r].id < made[n].id
         /\ Recs' = Append(Recs, n)
<1>1. Types /\ Lives /\ Flight /\ Folder
  BY DEF AuditInv
<1>2. PICK d : d = writer.open /\ d \in 1 .. Days /\ d \in 0 .. Days
                 /\ \A x \in 0 .. Days : x > d => files[x] = <<>>
  BY Place, Bounds
<1>3. /\ n \in DOMAIN made /\ n \in Nat /\ made[n].life = life /\ \A r \in OnDisk : r < n
      /\ DOMAIN made = 1 .. Len(made) /\ Len(made) \in Nat
      /\ \A m \in DOMAIN made : made[m].id \in Nat
  BY <1>1, MadeIs DEF Flight, Pending
<1>4. OnDisk \subseteq DOMAIN made
  BY <1>1, DiskIsMade
<1>5. \A r \in OnDisk : made[r].id < made[n].id
  BY <1>3 DEF Numbers
<1>6. /\ Extends(files[d], files'[d], <<n>>) /\ LastOf(files'[d]) = n
      /\ \A x \in 0 .. Days : x # d => files'[x] = files[x]
  BY <1>1, <1>2, <1>3, PutExtends
<1>7. Written(d, n, line)
  BY <1>1, <1>2, <1>3, PutIs
<1>8. Recs' = Append(Recs, n)
  <2>1. <<n>> \in Seq(Nat)
    BY <1>3
  <2>2. PICK fs, gs : fs = files /\ gs = files'
    OBVIOUS
  <2>3. fs \in [0 .. Days -> Seq(LineSet)] /\ gs \in [0 .. Days -> Seq(LineSet)]
    BY <1>1, <1>7, <2>2 DEF Types, Written
  <2>4. RecordsOf(gs[0] \o FlattenSeq([x \in 1 .. Days |-> gs[x]]))
          = RecordsOf(fs[0] \o FlattenSeq([x \in 1 .. Days |-> fs[x]])) \o <<n>>
    BY <1>2, <1>6, <2>1, <2>2, <2>3, ReadOn
  <2>5. Recs' = Recs \o <<n>>
    BY <2>2, <2>4 DEF Recs, Lines, LEGACY
  <2>6. PICK U, r : U = Nat /\ r = Recs /\ r \in Seq(U)
    <3>1. Recs \in Seq(OnDisk) /\ OnDisk \subseteq Nat
      BY <1>1, <1>3, <1>4, ReadIsOnDisk
    <3> QED
      BY <3>1, SeqMonotonic
  <2>7. Append(r, n) = r \o <<n>>
    BY <1>3, <2>6, AppendIsConcat
  <2> QED
    BY <2>5, <2>6, <2>7
<1>9. \A m : m \in OnDisk' <=> m \in OnDisk \/ m = n
  BY <1>7 DEF Written
<1>10. \A x \in 0 .. Days : Newest(x)' /\ files'[x] # <<>> => x = d
  <2>1. files'[d] # <<>>
    BY <1>7 DEF Written
  <2>2. \A x \in 0 .. Days : x > d => files'[x] = <<>>
    BY <1>2, <1>6
  <2>3. \A x \in 0 .. Days : Newest(x)' => ~(d > x)
    BY <1>2, <2>1 DEF Newest
  <2> QED
    BY <1>2, <2>2, <2>3
<1>11. \A m, o : m \in OnDisk' /\ o \in DOMAIN made /\ m < o /\ (o \in OnDisk' \/ made[o].life = life)
                   => made[m].id < made[o].id
  <2>1. ASSUME NEW m \in OnDisk', NEW o \in DOMAIN made, m < o, o \in OnDisk' \/ made[o].life = life
        PROVE  made[m].id < made[o].id
    <3>1. CASE m = n
      <4>1. o \notin OnDisk /\ o # n
        BY <1>3, <1>4, <2>1, <3>1
      <4> QED
        BY <1>3, <1>9, <2>1, <3>1, <4>1 DEF Numbers
    <3>2. CASE m # n /\ o = n
      BY <1>5, <1>9, <3>2
    <3>3. CASE m # n /\ o # n
      BY <1>9, <2>1, <3>3 DEF Numbers
    <3> QED
      BY <3>1, <3>2, <3>3
  <2> QED
    BY <2>1
<1>12. \A r \in OnDisk' : r <= n
  BY <1>3, <1>4, <1>9
<1>13. core'.pc # "down" => \A m \in DOMAIN made : m \in OnDisk' \/ made[m].life = life => made[m].id < state.seq
  BY <1>3, <1>9 DEF Numbers
<1>14. Numbers'
  BY <1>6, <1>10, <1>11, <1>12, <1>13 DEF Numbers
<1> QED
  BY <1>3, <1>5, <1>8, <1>14

LEMMA NumbersNewline ==
  ASSUME AuditInv, Numbers, Newline, OnDisk' = OnDisk,
         files' \in [0 .. Days -> Seq(LineSet)]
  PROVE  Numbers' /\ Recs' = Recs
<1>1. At("newline") /\ made' = made /\ life' = life /\ core' = core /\ state' = state
  BY DEF Newline, Elsewhere
<1>2. Types /\ Folder
  BY DEF AuditInv
<1>3. PICK d : d = writer.open /\ d \in 1 .. Days /\ d \in 0 .. Days
                 /\ \A x \in 0 .. Days : x > d => files[x] = <<>>
  BY <1>1, Place, Bounds
<1>4. /\ Extends(files[d], files'[d], <<>>) /\ files[d] # <<>> /\ files'[d] # <<>>
      /\ LastOf(files'[d]) = LastOf(files[d])
      /\ \A x \in 0 .. Days : x # d => files'[x] = files[x]
  BY <1>2, <1>3, NewlineExtends
<1>5. Recs' = Recs
  <2>1. <<>> \in Seq(Nat)
    BY EmptySeq
  <2>2. PICK fs, gs : fs = files /\ gs = files'
    OBVIOUS
  <2>3. fs \in [0 .. Days -> Seq(LineSet)] /\ gs \in [0 .. Days -> Seq(LineSet)]
    BY <1>2, <2>2 DEF Types
  <2>4. RecordsOf(gs[0] \o FlattenSeq([x \in 1 .. Days |-> gs[x]]))
          = RecordsOf(fs[0] \o FlattenSeq([x \in 1 .. Days |-> fs[x]])) \o <<>>
    BY <1>3, <1>4, <2>1, <2>2, <2>3, ReadOn
  <2>5. Recs' = Recs \o <<>>
    BY <2>2, <2>4 DEF Recs, Lines, LEGACY
  <2>6. PICK r \in Seq(OnDisk) : r = Recs
    BY <1>2, ReadIsOnDisk
  <2>7. r \o <<>> = r
    BY ConcatEmptySeq
  <2> QED
    BY <2>5, <2>6, <2>7
<1>6. \A x \in 0 .. Days : Newest(x)' /\ files'[x] # <<>> => Newest(x) /\ files[x] # <<>>
                              /\ LastOf(files'[x]) = LastOf(files[x])
  BY <1>4 DEF Newest
<1> QED
  BY <1>1, <1>5, <1>6 DEF Numbers

-----------------------------------------------------------------------------
(* The log implements Trail, step by step. *)

LEMMA IdsAre ==
  ASSUME Types, Folder
  PROVE  /\ Recs \in Seq(DOMAIN made) /\ Recs \in Seq(OnDisk)
         /\ Ids = [i \in 1 .. Len(Recs) |-> made[Recs[i]].id]
         /\ Ids \in Seq(Nat) /\ Len(Ids) = Len(Recs)
<1>1. OnDisk \subseteq DOMAIN made /\ Recs \in Seq(OnDisk)
  BY DiskIsMade, ReadIsOnDisk
<1>2. PICK r, n : r = Recs /\ n = Len(r) /\ n \in Nat /\ DOMAIN r = 1 .. n /\ r \in Seq(DOMAIN made)
  BY <1>1, SeqMonotonic, LenProperties
<1>3. Ids = [i \in 1 .. n |-> made[r[i]].id]
  BY <1>2 DEF Ids, Recs
<1>4. \A i \in 1 .. n : made[r[i]].id \in Nat
  BY <1>2, ElementOfSeq, MadeIs
<1>5. Ids \in [1 .. n -> Nat]
  BY <1>3, <1>4
<1>6. Ids \in Seq(Nat)
  BY <1>2, <1>5, SeqDef
<1> QED
  BY <1>1, <1>2, <1>3, <1>5, <1>6, LenProperties

\* As long as the same is read and says the same, the trail is the same.
LEMMA TrailStays ==
  ASSUME Types, Folder, Recs' = Recs, \A n \in OnDisk : made'[n].id = made[n].id
  PROVE  Ids' = Ids
<1>1. PICK r : r = Recs /\ r \in Seq(OnDisk)
  BY IdsAre
<1>2. Ids = [i \in 1 .. Len(r) |-> made[r[i]].id]
  BY <1>1, IdsAre
<1>3. DOMAIN r = 1 .. Len(r)
  BY <1>1, LenProperties
<1>4. Ids' = [i \in 1 .. Len(r) |-> made'[r[i]].id]
  <2>1. Ids' = [i \in DOMAIN Recs' |-> made'[Recs'[i]].id]
    BY DEF Ids, Recs
  <2> QED
    BY <1>1, <1>3, <2>1
<1>5. \A i \in 1 .. Len(r) : made'[r[i]].id = made[r[i]].id
  BY <1>1, ElementOfSeq
<1> QED
  BY <1>2, <1>4, <1>5

LEMMA TrailGrows ==
  ASSUME Types, Folder, made' = made, NEW n \in DOMAIN made, Recs' = Append(Recs, n),
         \A r \in OnDisk : made[r].id < made[n].id
  PROVE  T!Grows
<1>1. PICK D, r : D = DOMAIN made /\ r = Recs /\ r \in Seq(D) /\ n \in D
  BY IdsAre
<1>2. PICK q : q = Append(r, n) /\ q = Recs'
  BY <1>1
<1>3. /\ q \in Seq(D) /\ Len(q) = Len(r) + 1 /\ q[Len(r) + 1] = n /\ Len(r) \in Nat
      /\ \A i \in 1 .. Len(r) : q[i] = r[i]
  BY <1>1, <1>2, AppendProperties, LenProperties
<1>4. PICK a, b : a = Ids /\ b = Ids'
  OBVIOUS
<1>5. a = [i \in 1 .. Len(r) |-> made[r[i]].id] /\ a \in Seq(Nat) /\ Len(a) = Len(r)
  BY <1>1, <1>4, IdsAre
<1>6. b = [i \in 1 .. (Len(r) + 1) |-> made[q[i]].id]
  <2>1. Ids' = [i \in DOMAIN Recs' |-> made'[Recs'[i]].id]
    BY DEF Ids, Recs
  <2>2. DOMAIN q = 1 .. (Len(r) + 1)
    BY <1>3, LenProperties
  <2> QED
    BY <1>2, <1>4, <2>1, <2>2
<1>7. b \in Seq(Nat) /\ Len(b) = Len(a) + 1
  <2>1. \A i \in 1 .. (Len(r) + 1) : q[i] \in DOMAIN made
    BY <1>1, <1>3, ElementOfSeq
  <2>2. \A i \in 1 .. (Len(r) + 1) : made[q[i]].id \in Nat
    BY <2>1, MadeIs
  <2>3. b \in [1 .. (Len(r) + 1) -> Nat] /\ Len(r) + 1 \in Nat
    BY <1>3, <1>6, <2>2
  <2>4. b \in Seq(Nat)
    BY <2>3, SeqDef
  <2>5. DOMAIN b = 1 .. Len(b) /\ Len(b) \in Nat
    BY <2>4, LenProperties
  <2> QED
    BY <1>3, <1>5, <2>3, <2>4, <2>5
<1>8. \A i \in 1 .. Len(a) : b[i] = a[i]
  BY <1>3, <1>5, <1>6
<1>9. b[Len(b)] = made[n].id
  BY <1>3, <1>5, <1>6, <1>7
<1>10. \A i \in 1 .. Len(a) : a[i] < b[Len(b)]
  <2>1. PICK s : s = Recs /\ s \in Seq(OnDisk)
    BY IdsAre
  <2>2. \A i \in 1 .. Len(s) : s[i] \in OnDisk
    BY <2>1, ElementOfSeq
  <2> QED
    BY <1>1, <1>5, <1>9, <2>1, <2>2
<1>11. SubSeq(b, 1, Len(a)) = a
  <2>1. PICK c, k : c = SubSeq(b, 1, k) /\ k = Len(a) /\ k \in Nat
    BY <1>3, <1>5
  <2>2. \A i \in 1 .. k : b[i] \in Nat
    BY <1>5, <1>8, <2>1, ElementOfSeq
  <2>3. /\ c \in Seq(Nat) /\ Len(c) = (IF 1 <= k THEN k - 1 + 1 ELSE 0)
        /\ \A i \in 1 .. (k - 1 + 1) : c[i] = b[1 + i - 1]
    BY <2>1, <2>2, SubSeqProperties
  <2>4. Len(c) = Len(a)
    BY <2>1, <2>3
  <2>5. ASSUME NEW i \in 1 .. Len(c) PROVE c[i] = a[i]
    <3>1. i \in 1 .. (k - 1 + 1) /\ 1 + i - 1 = i /\ i \in 1 .. Len(a)
      BY <2>1, <2>4
    <3> QED
      BY <1>8, <2>3, <3>1
  <2>6. c = a
    BY <1>5, <2>3, <2>4, <2>5, SeqEqual
  <2> QED
    BY <2>1, <2>6
<1> QED
  BY <1>4, <1>7, <1>10, <1>11 DEF T!Grows

LEMMA NumbersBegin == Init => Numbers /\ T!Init
<1> SUFFICES ASSUME Init PROVE Numbers /\ T!Init
  OBVIOUS
<1>1. AuditInv
  BY Begins
<1>2. Types /\ Folder
  BY <1>1 DEF AuditInv
<1>3. PICK old, rec, line :
        /\ line = [Line(1) EXCEPT !.ended = TRUE]
        /\ rec = [prev |-> GENESIS, id |-> 0, day |-> 1, life |-> 0]
        /\ old = <<>> \/ old = <<line>>
        /\ files = [d \in 0 .. Days |-> IF d = LEGACY THEN old ELSE <<>>]
        /\ made = [i \in DOMAIN old |-> rec]
  <2>1. PICK rec, line : /\ line = [Line(1) EXCEPT !.ended = TRUE]
                         /\ rec = [prev |-> GENESIS, id |-> 0, day |-> 1, life |-> 0]
    OBVIOUS
  <2>2. PICK old \in {<<>>, <<[Line(1) EXCEPT !.ended = TRUE]>>} :
          /\ files = [d \in 0 .. Days |-> IF d = LEGACY THEN old ELSE <<>>]
          /\ made = [i \in DOMAIN old |-> [prev |-> GENESIS, id |-> 0, day |-> 1, life |-> 0]]
    BY Zenon DEF Init
  <2>3. old = <<>> \/ old = <<line>>
    BY <2>1, <2>2
  <2>4. made = [i \in DOMAIN old |-> rec]
    BY <2>1, <2>2
  <2> QED
    BY ONLY <2>1, <2>2, <2>3, <2>4
<1>4. DOMAIN old \subseteq {1}
  <2>1. CASE old = <<>>
    BY <2>1
  <2>2. CASE old = <<line>>
    BY <2>2
  <2> QED
    BY <1>3, <2>1, <2>2
<1>5. \A n \in DOMAIN made : n = 1 /\ made[n] = rec /\ made[n].id = 0
  BY <1>3, <1>4
<1>6. OnDisk \subseteq DOMAIN made /\ core.pc = "down"
  BY <1>2, DiskIsMade DEF Init
<1>7. \A d \in 0 .. Days : files[d] # <<>> => LastOf(files[d]) = 1
  <2>1. ASSUME NEW d \in 0 .. Days, files[d] # <<>> PROVE LastOf(files[d]) = 1
    <3>1. files[d] = <<line>>
      BY <1>3, <2>1
    <3>2. line.recs = <<1>>
      <4>1. PICK one, first : one = <<1>> /\ first = [recs |-> one, torn |-> FALSE, ended |-> FALSE]
        OBVIOUS
      <4>2. line = [first EXCEPT !.ended = TRUE]
        BY <1>3, <4>1 DEF Line
      <4> QED
        BY <4>1, <4>2
    <3> QED
      BY <3>1, <3>2 DEF LastOf
  <2> QED
    BY <2>1
<1>8. Numbers
  BY <1>5, <1>6, <1>7 DEF Numbers
<1>9. Days \in Nat /\ \A x \in 1 .. Days : files[x] = <<>>
  BY <1>3, Bounds DEF LEGACY
<1>10. PICK L, s, none : /\ L = LineSet /\ none = [x \in {} |-> 0]
                         /\ s = [x \in 1 .. Days |-> files[x]]
  OBVIOUS
<1>11. FlattenSeq(s) = <<>>
  <2>1. s \in [1 .. Days -> Seq(L)]
    BY <1>2, <1>10, Bounds DEF Types
  <2>2. s \in Seq(Seq(L)) /\ Len(s) = Days
    <3>1. s \in Seq(Seq(L))
      BY <1>9, <2>1, SeqDef
    <3> QED
      BY <1>9, <2>1, <3>1, LenProperties
  <2>3. 1 \in 1 .. Len(s) /\ \A i \in 1 .. Len(s) : s[i] = <<>>
    BY <1>9, <1>10, <2>2, Bounds
  <2>4. FlattenSeq(s) = FlattenSeq(SubSeq(s, 1, 1 - 1)) \o s[1]
    BY <2>2, <2>3, FlattenEnd
  <2>5. SubSeq(s, 1, 1 - 1) = <<>>
    BY SubSeqEmpty
  <2>6. FlattenSeq(<<>>) = <<>> /\ <<>> \o <<>> = <<>>
    BY EmptySeq, ConcatEmptySeq DEF FlattenSeq
  <2> QED
    BY <2>3, <2>4, <2>5, <2>6
<1>12. Lines = old
  <2>1. files[0] = old /\ old \in Seq(L)
    BY <1>2, <1>3, <1>10, Bounds DEF Types, LEGACY
  <2>2. old \o <<>> = old
    BY <2>1, ConcatEmptySeq
  <2> QED
    BY <1>10, <1>11, <2>1, <2>2 DEF Lines, LEGACY
<1>13. T!Init
  <2>1. Recs \in Seq(DOMAIN made) /\ Len(Ids) = Len(Recs) /\ Ids \in Seq(Nat)
        /\ Ids = [i \in 1 .. Len(Recs) |-> made[Recs[i]].id]
    BY <1>2, IdsAre
  <2>0. RecordsOf(<<>>) = <<>>
    BY EmptySeq DEF RecordsOf, FlattenSeq
  <2>2. CASE old = <<>>
    <3>1. Recs = <<>>
      BY <1>12, <2>0, <2>2 DEF Recs
    <3>2. Ids = <<>>
      BY <2>1, <3>1, EmptySeq
    <3> QED
      BY <3>2 DEF T!Init
  <2>3. CASE old = <<line>>
    <3>1. PICK r : r = line.recs /\ r = <<1>>
      <4>1. PICK one, first : one = <<1>> /\ first = [recs |-> one, torn |-> FALSE, ended |-> FALSE]
        OBVIOUS
      <4>2. line = [first EXCEPT !.ended = TRUE]
        BY <1>3, <4>1 DEF Line
      <4> QED
        BY <4>1, <4>2
    <3>2. line \in LineSet
      <4>0. 0 \in 0 .. Days
        BY <1>9
      <4>1. PICK f : f = files[0] /\ f \in Seq(LineSet) /\ f = <<line>>
        BY <1>2, <1>3, <2>3, <4>0 DEF Types, LEGACY
      <4>2. Len(f) = 1 /\ f[1] = line
        BY <4>1
      <4> QED
        BY <4>1, <4>2, ElementOfSeq
    <3>3. Recs = r
      <4>1. <<>> \in Seq(LinesOf(Nat)) /\ line \in LinesOf(Nat) /\ old = Append(<<>>, line)
        BY <2>3, <3>2, EmptySeq DEF LinesOf, LineSet
      <4>2. RecordsOf(Append(<<>>, line)) = RecordsOf(<<>>) \o line.recs
        BY <4>1, RecordsAppend
      <4>3. r \in Seq(Nat) /\ <<>> \o r = r
        <5>1. r \in Seq(Nat)
          BY <3>1, <3>2 DEF LineSet
        <5> QED
          BY <5>1, ConcatEmptySeq
      <4> QED
        BY <1>12, <2>0, <3>1, <4>1, <4>2, <4>3 DEF Recs
    <3>4. Len(Recs) = 1 /\ Recs[1] = 1
      BY <3>1, <3>3
    <3>5. Ids = [i \in 1 .. 1 |-> made[Recs[i]].id] /\ 1 \in DOMAIN made
      <4>1. 1 \in 1 .. Len(Recs)
        BY <3>4
      <4>2. Recs[1] \in DOMAIN made
        BY <2>1, <4>1, ElementOfSeq
      <4>3. Ids = [i \in 1 .. 1 |-> made[Recs[i]].id]
        BY <2>1, <3>4
      <4> QED
        BY <3>4, <4>2, <4>3
    <3>6. Ids = <<0>>
      BY <1>5, <3>4, <3>5
    <3> QED
      BY <3>6 DEF T!Init
  <2> QED
    BY <1>3, <2>2, <2>3
<1> QED
  BY <1>8, <1>13

LEMMA TrailStep ==
  AuditInv /\ Numbers /\ [Next]_vars => Numbers' /\ [T!Grows]_Ids
<1> SUFFICES ASSUME AuditInv, Numbers, [Next]_vars PROVE Numbers' /\ [T!Grows]_Ids
  OBVIOUS
<1>1. AuditInv'
  BY Steps
<1>2. Types /\ Folder /\ Types' /\ Folder'
  BY <1>1 DEF AuditInv
<1>3. ASSUME files' = files, made' = made PROVE Ids' = Ids
  BY <1>3 DEF Ids, RecordsOf, Lines
<1>4. CASE Open
  BY <1>3, <1>4, NumbersOpen DEF Open, disk
<1>5. CASE \E day \in 1 .. Days : Append_(day)
  <2>1. Numbers' /\ OnDisk' = OnDisk /\ \A n \in DOMAIN made : made'[n] = made[n]
    BY <1>5, NumbersAppend
  <2>2. files' = files
    BY <1>5 DEF Append_, disk
  <2>3. Recs' = Recs
    BY <2>2 DEF Recs, RecordsOf, Lines
  <2>4. \A n \in OnDisk : made'[n].id = made[n].id
    BY <1>2, <2>1, DiskIsMade
  <2>5. Ids' = Ids
    BY <1>2, <2>3, <2>4, TrailStays
  <2> QED
    BY <2>1, <2>5
<1>6. ASSUME \/ Send \/ Flush \/ FlushTimesOut \/ Close \/ Closed \/ Kill \/ Recv \/ OpenFile
             \/ OpenFails \/ NewlineFails \/ (WriteFails /\ UNCHANGED files) \/ UNCHANGED vars
      PROVE  Numbers' /\ Ids' = Ids
  <2>1. files' = files /\ made' = made /\ life' = life
    BY <1>6 DEF Send, Flush, FlushTimesOut, Close, Closed, Kill, Recv, OpenFile, OpenFails,
                NewlineFails, WriteFails, vars, disk, Elsewhere
  <2>2. state' = state
    BY <1>6 DEF Send, Flush, FlushTimesOut, Close, Closed, Kill, Recv, OpenFile, OpenFails,
                NewlineFails, WriteFails, vars, disk, Elsewhere
  <2>3. core'.pc # "down" => core.pc # "down"
    BY <1>6 DEF Send, Flush, FlushTimesOut, Close, Closed, Kill, Recv, OpenFile, OpenFails,
                NewlineFails, WriteFails, vars, disk, Elsewhere
  <2> QED
    BY <1>3, <2>1, <2>2, <2>3, NumbersStay
<1>7. ASSUME NEW line,
             \/ WriteLine /\ line = Line(writer.rec)
             \/ WriteFails /\ line = [Line(writer.rec) EXCEPT !.torn = TRUE] /\ Put(line)
      PROVE  Numbers' /\ [T!Grows]_Ids
  <2>1. /\ At("line") /\ Put(line)
        /\ made' = made /\ life' = life /\ core' = core /\ state' = state
    BY <1>7 DEF WriteLine, WriteFails, Elsewhere
  <2>2. PICK n : n = writer.rec /\ n \in Nat
    BY <1>2 DEF Types, Writers
  <2>3. line \in LineSet /\ line.recs = <<n>>
    <3>1. PICK one, first : /\ one = <<n>> /\ first = [recs |-> one, torn |-> FALSE, ended |-> FALSE]
      OBVIOUS
    <3>2. one \in Seq(Nat)
      BY <2>2, <3>1
    <3>3. first \in LineSet
      BY <3>1, <3>2 DEF LineSet
    <3>4. CASE line = first
      BY <3>1, <3>3, <3>4
    <3>5. CASE line = [first EXCEPT !.torn = TRUE]
      <4>1. line \in LineSet /\ line.recs = first.recs
        BY <3>3, <3>5 DEF LineSet
      <4> QED
        BY <3>1, <4>1
    <3>6. line = first \/ line = [first EXCEPT !.torn = TRUE]
      BY <1>7, <2>2, <3>1 DEF Line
    <3> QED
      BY <3>4, <3>5, <3>6
  <2>4. /\ Numbers' /\ n \in DOMAIN made /\ Recs' = Append(Recs, n)
        /\ \A r \in OnDisk : r < n /\ made[r].id < made[n].id
    BY <2>1, <2>2, <2>3, NumbersPut
  <2>5. T!Grows
    BY <1>2, <2>1, <2>4, TrailGrows
  <2> QED
    BY <2>4, <2>5
<1>8. CASE WriteLine
  <2>1. PICK line : line = Line(writer.rec)
    OBVIOUS
  <2> QED
    BY <1>7, <1>8, <2>1
<1>9. CASE WriteFails
  <2>1. UNCHANGED files \/ Put([Line(writer.rec) EXCEPT !.torn = TRUE])
    BY <1>9 DEF WriteFails
  <2>2. CASE UNCHANGED files
    BY <1>6, <1>9, <2>2
  <2>3. CASE Put([Line(writer.rec) EXCEPT !.torn = TRUE])
    <3>1. PICK line : line = [Line(writer.rec) EXCEPT !.torn = TRUE] /\ Put(line)
      BY <2>3
    <3> QED
      BY <1>7, <1>9, <3>1
  <2> QED
    BY <2>1, <2>2, <2>3
<1>10. CASE Newline
  <2>1. OnDisk' = OnDisk /\ files' \in [0 .. Days -> Seq(LineSet)]
    BY <1>2, <1>10, NewlineKeeps DEF Types
  <2>2. Numbers' /\ Recs' = Recs
    BY <1>10, <2>1, NumbersNewline
  <2>3. made' = made
    BY <1>10 DEF Newline, Elsewhere
  <2>4. Ids' = Ids
    BY <1>2, <2>2, <2>3, TrailStays
  <2> QED
    BY <2>2, <2>4
<1> QED
  BY <1>3, <1>4, <1>5, <1>6, <1>8, <1>9, <1>10 DEF Next, Writes

\* Whoever reads the files in order reads records with rising numbers and never finds
\* the past changed: the chained, queued, day by day written log of audit.rs is a list
\* that only grows at its end.
THEOREM LogImplementsTrail == Spec => ImplementsTrail
<1>1. Init => AuditInv /\ Numbers /\ T!Init
  BY Begins, NumbersBegin
<1>2. AuditInv /\ Numbers /\ [Next]_vars => AuditInv' /\ Numbers' /\ [T!Grows]_Ids
  BY Steps, TrailStep
<1> QED
  BY <1>1, <1>2, PTL DEF Spec, ImplementsTrail, T!Spec
=============================================================================
