---------------------------- MODULE HistoryProof ----------------------------
(***************************************************************************)
(* Proofs about History, for any number of people, documents, contents,    *)
(* commits and runs.  The inductive invariant adds to the properties what  *)
(* is true in the middle of a request: what the request still has to write *)
(* (InHand), and which documents may differ from their heads meanwhile     *)
(* (LiveFollows).                                                          *)
(***************************************************************************)
EXTENDS History, TLAPS

\* The request in hand: its content is in the document, its blob is there before
\* its commit; a run being dropped has commits in every document left, and the
\* heads of the others are before all of its commits.
InHand ==
  /\ task.op \in {"blob", "commit"} =>
       live[task.doc] = task.content /\ Len(commits) < MaxCommits
  /\ task.op = "commit" => task.content \in blobs
  /\ task.op = "drop" =>
       /\ \A d \in Docs : d \in task.left \/ d \in task.done \/ InRun(task.run, d) = {}
       /\ \A d \in task.done : \A i \in InRun(task.run, d) : head[d] < i

\* What a document's head says, when its commit and its blob are there.
Says(d) == IF head[d] = NoCommit THEN Empty ELSE commits[head[d]].content

\* The documents the request in hand has changed in one place only.
Halfway == IF task.op \in {"blob", "commit"} THEN {task.doc}
           ELSE IF task.op = "drop" THEN task.done ELSE {}

\* LiveIsHead, also in the middle of a request.
LiveFollows == \A d \in Docs : d \in adrift \/ d \in Halfway \/ live[d] = Says(d)

IInv == TypeOK /\ DagSound /\ RedoRetraces /\ InHand /\ LiveFollows

-----------------------------------------------------------------------------
\* The commits that were made, each of its type.
LEMMA CommitsTyped ==
  ASSUME TypeOK
  PROVE  \A i \in Made : /\ commits[i] \in Commit /\ commits[i].content \in Contents
                         /\ commits[i].parent \in Nat /\ i \in Nat \ {0}
  <1>1. \A i \in Made : commits[i] \in Commit /\ i \in Nat \ {0}
    BY DEF TypeOK, Made
  <1>2. \A i \in Made : commits[i].content \in Contents /\ commits[i].parent \in Ids \cup {NoCommit}
    BY <1>1 DEF Commit
  <1> QED BY <1>1, <1>2, HistoryBounds DEF Ids, NoCommit

\* A commit that is there says its content; no commit says nothing.
LEMMA ContentOf ==
  ASSUME TypeOK, DagSound
  PROVE  /\ \A i \in Made : ContentAt(i) = commits[i].content
         /\ ContentAt(NoCommit) = Empty
  BY DEF TypeOK, DagSound, ContentAt, Made, NoCommit

\* The strengthened invariant holds in a new data directory.
LEMMA InitEstablishes == Init => IInv
  <1> SUFFICES ASSUME Init PROVE IInv
    OBVIOUS
  <1>1. TypeOK
    BY AccessAssumption, ContentsAssumption, HistoryBounds
    DEF Init, TypeOK, RunIds, Ids, Task, Idle, NoCommit, NoRun
  <1>2. DagSound /\ RedoRetraces
    BY DEF Init, DagSound, RedoRetraces, Made, NoCommit
  <1>3. InHand /\ LiveFollows
    BY DEF Init, InHand, LiveFollows, Says, Idle, NoCommit
  <1> QED BY <1>1, <1>2, <1>3 DEF IInv

-----------------------------------------------------------------------------
\* A write that is to be committed: the document is ahead of its head.
LEMMA ThenCommitStep ==
  ASSUME IInv, task = Idle, NEW d \in Docs, NEW c \in Contents,
         NEW r \in RunIds \cup {NoRun}, ThenCommit(d, c, r),
         UNCHANGED <<disk, adrift, run, proposals, clock>>
  PROVE  IInv'
  <1>1. TypeOK'
    BY DEF IInv, TypeOK, ThenCommit, Task, disk
  <1>2. DagSound' /\ RedoRetraces'
    BY DEF IInv, DagSound, RedoRetraces, Made, OfDoc, disk
  <1>3. InHand'
    BY DEF IInv, TypeOK, InHand, ThenCommit, disk
  <1>4. LiveFollows'
    BY DEF IInv, TypeOK, LiveFollows, Halfway, Says, ThenCommit, Idle, disk
  <1> QED BY <1>1, <1>2, <1>3, <1>4 DEF IInv

\* Every way a document is written, by an agent, a replica or a surface.
LEMMA WriteStep == ASSUME IInv, Write PROVE IInv'
  <1> PICK u \in Users, d \in Docs, c \in Contents :
             \/ Execute(u, d, c)
             \/ DocSync(u, d, c)
             \/ \E commit \in BOOLEAN : WriteDoc(u, d, c, commit)
    BY DEF Write
  <1>1. CASE Execute(u, d, c)
    <2>1. run[u] \in RunIds \cup {NoRun}
      BY DEF IInv, TypeOK
    <2> QED BY <1>1, <2>1, ThenCommitStep DEF Execute
  <1>2. CASE DocSync(u, d, c)
    BY <1>2, ThenCommitStep DEF DocSync
  <1>3. CASE \E commit \in BOOLEAN : WriteDoc(u, d, c, commit)
    <2> PICK commit \in BOOLEAN : WriteDoc(u, d, c, commit)
      BY <1>3
    <2>1. CASE commit
      BY <2>1, ThenCommitStep DEF WriteDoc
    <2>2. CASE ~commit
      <3>1. /\ task = Idle /\ live' = [live EXCEPT ![d] = c] /\ adrift' = adrift \cup {d}
            /\ UNCHANGED <<commits, blobs, head, redo, run, proposals, clock, task>>
        BY <2>2 DEF WriteDoc, disk
      <3>2. TypeOK'
        BY <3>1 DEF IInv, TypeOK
      <3>3. DagSound' /\ RedoRetraces'
        BY <3>1 DEF IInv, DagSound, RedoRetraces, Made, OfDoc
      <3>4. InHand'
        BY <3>1 DEF InHand, Idle
      <3>5. LiveFollows'
        BY <3>1 DEF IInv, TypeOK, LiveFollows, Halfway, Says, Idle
      <3> QED BY <3>2, <3>3, <3>4, <3>5 DEF IInv
    <2> QED BY <2>1, <2>2
  <1> QED BY <1>1, <1>2, <1>3

\* The first transaction of a commit: a blob nothing points to yet.
LEMMA PutBlobStep == ASSUME IInv, PutBlob PROVE IInv'
  <1>1. /\ task.doc \in Docs /\ task.content \in Contents
        /\ task.run \in RunIds \cup {NoRun}
        /\ task' = [op |-> "commit", doc |-> task.doc, content |-> task.content,
                    run |-> task.run]
    BY DEF IInv, TypeOK, Task, PutBlob
  <1>2. /\ blobs' = blobs \cup {task.content} /\ task.op = "blob"
        /\ UNCHANGED <<commits, head, redo, live, adrift, run, proposals, clock>>
    BY DEF PutBlob, memory
  <1>3. TypeOK'
    BY <1>1, <1>2 DEF IInv, TypeOK, Task
  <1>4. DagSound' /\ RedoRetraces'
    BY <1>2 DEF IInv, DagSound, RedoRetraces, Made, OfDoc
  <1>5. InHand'
    BY <1>1, <1>2 DEF IInv, InHand
  <1>6. LiveFollows'
    BY <1>1, <1>2 DEF IInv, LiveFollows, Halfway, Says
  <1> QED BY <1>3, <1>4, <1>5, <1>6 DEF IInv

\* The second: the new commit is its document's head, and nothing is to redo.
LEMMA PutCommitStep == ASSUME IInv, PutCommit PROVE IInv'
  <1> DEFINE d == task.doc
             n == Len(commits) + 1
             c == [doc |-> d, parent |-> head[d], content |-> task.content, run |-> task.run]
  <1>1. /\ d \in Docs /\ task.content \in Contents /\ task.run \in RunIds \cup {NoRun}
        /\ task.op = "commit" /\ task.content \in blobs /\ live[d] = task.content
        /\ Len(commits) \in Nat /\ n \in Ids
    BY HistoryBounds DEF IInv, TypeOK, Task, PutCommit, InHand, Ids
  <1>2. c \in Commit
    BY <1>1 DEF IInv, TypeOK, Commit
  <1>3. /\ commits' = Append(commits, c)
        /\ head' = [head EXCEPT ![d] = n] /\ redo' = [redo EXCEPT ![d] = <<>>]
        /\ adrift' = adrift \ {d} /\ task' = Idle
        /\ UNCHANGED <<blobs, live, run, proposals, clock>>
    BY DEF PutCommit
  <1> HIDE DEF c
  <1>4. /\ commits' \in Seq(Commit) /\ Len(commits') = n /\ commits'[n] = c
        /\ \A i \in Made : commits'[i] = commits[i]
        /\ Made' = Made \cup {n} /\ Made = 1..Len(commits)
    BY <1>1, <1>2, <1>3 DEF IInv, TypeOK, Made
  <1>5. TypeOK'
    <2>1. redo' \in [Docs -> Seq(Ids)] /\ head' \in [Docs -> Ids \cup {NoCommit}]
      BY <1>1, <1>3 DEF IInv, TypeOK
    <2>2. Len(commits') <= MaxCommits
      BY <1>1, <1>4 DEF Ids
    <2> QED BY <1>3, <1>4, <2>1, <2>2 DEF IInv, TypeOK, Task, Idle
  <1>6. c.doc = d /\ c.parent = head[d] /\ c.content = task.content
    BY DEF c
  <1>7. DagSound'
    <2>1. \A i \in Made : commits'[i].content \in blobs'
      BY <1>3, <1>4 DEF IInv, DagSound
    <2>2. \A i \in Made : commits'[i].parent # NoCommit =>
            /\ commits'[i].parent < i /\ commits'[i].parent \in Made'
            /\ commits'[commits'[i].parent].doc = commits'[i].doc
      BY <1>4 DEF IInv, DagSound, OfDoc
    <2>3. head[d] # NoCommit => head[d] \in Made /\ commits[head[d]].doc = d
      BY <1>1 DEF IInv, DagSound, OfDoc
    <2>4. c.content \in blobs' /\ (c.parent # NoCommit =>
            c.parent < n /\ c.parent \in Made' /\ commits'[c.parent].doc = c.doc)
      BY <1>1, <1>3, <1>4, <1>6, <2>3
    <2>5. \A x \in Docs : head'[x] # NoCommit => head'[x] \in Made' /\ commits'[head'[x]].doc = x
      BY <1>1, <1>3, <1>4, <1>6 DEF IInv, TypeOK, DagSound, OfDoc
    <2>6. \A x \in Docs : \A k \in DOMAIN redo'[x] :
             redo'[x][k] \in Made' /\ commits'[redo'[x][k]].doc = x
      BY <1>1, <1>3, <1>4 DEF IInv, TypeOK, DagSound, OfDoc
    <2> QED BY <1>4, <2>1, <2>2, <2>4, <2>5, <2>6 DEF DagSound, OfDoc
  <1>8. RedoRetraces'
    BY <1>1, <1>3, <1>4 DEF IInv, TypeOK, DagSound, OfDoc, RedoRetraces
  <1>9. InHand'
    BY <1>3 DEF InHand, Idle
  <1>10. LiveFollows'
    <2>1. \A x \in Docs : x # d => Says(x)' = Says(x)
      BY <1>1, <1>3, <1>4 DEF IInv, TypeOK, DagSound, OfDoc, Says
    <2>2. \A x \in Docs : x = d => Says(x)' = live'[x]
      BY <1>1, <1>3, <1>4, <1>6 DEF Says, NoCommit, IInv, TypeOK
    <2> QED BY <1>1, <1>3, <2>1, <2>2 DEF IInv, LiveFollows, Halfway, Idle
  <1> QED BY <1>5, <1>7, <1>8, <1>9, <1>10 DEF IInv

\* A commit that fails: its document is adrift, and the history is as it was.
LEMMA CommitFailsStep == ASSUME IInv, CommitFails PROVE IInv'
  <1>1. task.doc \in Docs
    BY DEF IInv, TypeOK, Task, CommitFails
  <1>2. /\ adrift' = adrift \cup {task.doc} /\ task' = Idle /\ task.op \in {"blob", "commit"}
        /\ UNCHANGED <<commits, blobs, head, redo, live, run, proposals, clock>>
    BY DEF CommitFails, disk
  <1>3. TypeOK'
    BY <1>1, <1>2 DEF IInv, TypeOK, Task, Idle
  <1>4. DagSound' /\ RedoRetraces'
    BY <1>2 DEF IInv, DagSound, RedoRetraces, Made, OfDoc
  <1>5. InHand' /\ LiveFollows'
    BY <1>1, <1>2 DEF IInv, InHand, LiveFollows, Halfway, Says, Idle
  <1> QED BY <1>3, <1>4, <1>5 DEF IInv

-----------------------------------------------------------------------------
\* Undo: the head goes to its parent and onto the redo stack.
LEMMA UndoStep == ASSUME IInv, NEW u \in Users, Undo(u) PROVE IInv'
  <1> PICK d \in UndoableDocs(u) :
       /\ head[d] # NoCommit
       /\ head' = [head EXCEPT ![d] = commits[head[d]].parent]
       /\ redo' = [redo EXCEPT ![d] = Append(@, head[d])]
       /\ Restore({d}, head')
    BY DEF Undo
  <1> DEFINE h == head[d]
             p == commits[h].parent
  <1>1. /\ task = Idle /\ UNCHANGED <<commits, blobs, run, proposals, clock, task>>
        /\ live' = [x \in Docs |-> IF x \in {d} THEN ContentAt(head'[x]) ELSE live[x]]
        /\ adrift' = adrift \ {d}
    BY DEF Undo, Restore
  <1>2. d \in Docs
    BY AccessAssumption DEF UndoableDocs
  <1>3. /\ h \in Made /\ h \in Ids /\ commits[h].doc = d /\ commits[h] \in Commit
        /\ p \in Ids \cup {NoCommit} /\ (p # NoCommit => p \in Made /\ commits[p].doc = d)
    <2>1. h \in Made /\ commits[h].doc = d
      BY <1>2 DEF IInv, DagSound, OfDoc
    <2>2. h \in Ids /\ commits[h] \in Commit
      BY <1>2, <2>1 DEF IInv, TypeOK, Made, NoCommit
    <2>3. p # NoCommit => p \in Made /\ commits[p].doc = d
      BY <2>1 DEF IInv, DagSound, OfDoc
    <2> QED BY <2>1, <2>2, <2>3 DEF Commit
  <1>4. /\ head'[d] = p /\ \A x \in Docs : x # d => head'[x] = head[x] /\ redo'[x] = redo[x]
        /\ redo'[d] = Append(redo[d], h) /\ redo[d] \in Seq(Ids)
    BY <1>2 DEF IInv, TypeOK
  <1>5. /\ DOMAIN redo'[d] = 1..(Len(redo[d]) + 1) /\ redo'[d][Len(redo[d]) + 1] = h
        /\ \A k \in 1..Len(redo[d]) : redo'[d][k] = redo[d][k]
        /\ Len(redo'[d]) = Len(redo[d]) + 1 /\ Len(redo[d]) \in Nat
        /\ DOMAIN redo[d] = 1..Len(redo[d])
    BY <1>3, <1>4
  <1>6. TypeOK'
    <2>0. \A i \in Made : commits[i].content \in Contents
      BY CommitsTyped DEF IInv
    <2>1. ContentAt(p) \in Contents
      <3>1. /\ \A i \in Made : ContentAt(i) = commits[i].content
            /\ ContentAt(NoCommit) = Empty
        BY ContentOf DEF IInv
      <3>2. CASE p = NoCommit
        BY <3>1, <3>2, ContentsAssumption
      <3>3. CASE p \in Made
        BY <3>1, <3>3, <2>0
      <3> QED BY <1>3, <3>2, <3>3
    <2>2. live' \in [Docs -> Contents]
      BY <1>1, <1>4, <2>1 DEF IInv, TypeOK
    <2>3. redo' \in [Docs -> Seq(Ids)] /\ head' \in [Docs -> Ids \cup {NoCommit}]
      BY <1>2, <1>3, <1>4 DEF IInv, TypeOK
    <2> QED BY <1>1, <2>2, <2>3 DEF IInv, TypeOK
  <1>7. DagSound'
    <2>1. \A x \in Docs : head'[x] # NoCommit => head'[x] \in Made /\ commits[head'[x]].doc = x
      BY <1>3, <1>4 DEF IInv, DagSound, OfDoc
    <2>2. \A k \in DOMAIN redo[d] : redo[d][k] \in Made /\ commits[redo[d][k]].doc = d
      BY <1>2 DEF IInv, DagSound, OfDoc
    <2>3. \A k \in DOMAIN redo'[d] : redo'[d][k] \in Made /\ commits[redo'[d][k]].doc = d
      BY <1>3, <1>5, <2>2
    <2>4. \A x \in Docs : \A k \in DOMAIN redo'[x] :
             redo'[x][k] \in Made /\ commits[redo'[x][k]].doc = x
      BY <1>4, <2>3 DEF IInv, DagSound, OfDoc
    <2>5. Made' = Made
      BY <1>1 DEF Made
    <2> QED BY <1>1, <2>1, <2>4, <2>5 DEF IInv, DagSound, OfDoc
  <1>8. RedoRetraces'
    <2>1. \A k \in DOMAIN redo'[d] : commits[redo'[d][k]].parent =
              IF k = Len(redo'[d]) THEN head'[d] ELSE redo'[d][k + 1]
      <3> TAKE k \in DOMAIN redo'[d]
      <3>1. CASE k = Len(redo[d]) + 1
        BY <3>1, <1>4, <1>5
      <3>2. CASE k = Len(redo[d])
        BY <3>2, <1>2, <1>5 DEF IInv, RedoRetraces
      <3>3. CASE k < Len(redo[d])
        BY <3>3, <1>2, <1>5 DEF IInv, RedoRetraces
      <3> QED BY <1>5, <3>1, <3>2, <3>3
    <2>2. \A x \in Docs : x # d => \A k \in DOMAIN redo'[x] : commits[redo'[x][k]].parent =
              IF k = Len(redo'[x]) THEN head'[x] ELSE redo'[x][k + 1]
      BY <1>4 DEF IInv, RedoRetraces
    <2> QED BY <1>1, <2>1, <2>2 DEF RedoRetraces
  <1>9. InHand'
    BY <1>1 DEF InHand, Idle
  <1>10. LiveFollows'
    <2>1. live'[d] = IF p = NoCommit THEN Empty ELSE commits[p].content
      BY <1>1, <1>2, <1>3, <1>4, ContentOf DEF IInv
    <2>2. \A x \in Docs : x # d => live'[x] = live[x] /\ (x \in adrift' <=> x \in adrift)
      BY <1>1
    <2>3. Halfway = {} /\ Halfway' = {}
      BY <1>1 DEF Halfway, Idle
    <2> QED BY <1>1, <1>4, <2>1, <2>2, <2>3 DEF IInv, LiveFollows, Says
  <1> QED BY <1>6, <1>7, <1>8, <1>9, <1>10 DEF IInv

\* Redo: the top of the redo stack, a child of the head, becomes the head.
LEMMA RedoStep == ASSUME IInv, NEW u \in Users, Redo(u) PROVE IInv'
  <1> PICK d \in UndoableDocs(u) :
       /\ redo[d] # <<>>
       /\ head' = [head EXCEPT ![d] = redo[d][Len(redo[d])]]
       /\ redo' = [redo EXCEPT ![d] = SubSeq(@, 1, Len(@) - 1)]
       /\ Restore({d}, head')
    BY DEF Redo
  <1> DEFINE top == redo[d][Len(redo[d])]
  <1>1. /\ task = Idle /\ UNCHANGED <<commits, blobs, run, proposals, clock, task>>
        /\ live' = [x \in Docs |-> IF x \in {d} THEN ContentAt(head'[x]) ELSE live[x]]
        /\ adrift' = adrift \ {d}
    BY DEF Redo, Restore
  <1>2. d \in Docs
    BY AccessAssumption DEF UndoableDocs
  <1>3. redo[d] \in Seq(Ids) /\ Len(redo[d]) \in Nat \ {0} /\ DOMAIN redo[d] = 1..Len(redo[d])
    BY <1>2 DEF IInv, TypeOK
  <1>4. /\ Len(redo[d]) \in DOMAIN redo[d] /\ top \in Ids /\ top \in Made
        /\ commits[top].doc = d /\ commits[top] \in Commit
    <2>1. Len(redo[d]) \in DOMAIN redo[d]
      BY <1>3
    <2>2. top \in Made /\ commits[top].doc = d
      BY <1>2, <2>1 DEF IInv, DagSound, OfDoc
    <2> QED BY <1>3, <2>1, <2>2 DEF IInv, TypeOK, Made
  <1>5. /\ head'[d] = top /\ \A x \in Docs : x # d => head'[x] = head[x] /\ redo'[x] = redo[x]
        /\ redo'[d] = SubSeq(redo[d], 1, Len(redo[d]) - 1)
    BY <1>2 DEF IInv, TypeOK
  <1>6. /\ redo'[d] \in Seq(Ids) /\ Len(redo'[d]) = Len(redo[d]) - 1
        /\ DOMAIN redo'[d] = 1..(Len(redo[d]) - 1)
        /\ \A k \in 1..(Len(redo[d]) - 1) : redo'[d][k] = redo[d][k]
    BY <1>3, <1>5
  <1>7. TypeOK'
    <2>1. ContentAt(top) \in Contents
      BY <1>4, ContentOf DEF IInv, Commit
    <2>2. live' \in [Docs -> Contents]
      BY <1>1, <1>5, <2>1 DEF IInv, TypeOK
    <2>3. redo' \in [Docs -> Seq(Ids)] /\ head' \in [Docs -> Ids \cup {NoCommit}]
      BY <1>2, <1>4, <1>5, <1>6 DEF IInv, TypeOK
    <2> QED BY <1>1, <2>2, <2>3 DEF IInv, TypeOK
  <1>8. DagSound'
    <2>1. \A x \in Docs : head'[x] # NoCommit => head'[x] \in Made /\ commits[head'[x]].doc = x
      BY <1>4, <1>5 DEF IInv, DagSound, OfDoc
    <2>2. \A k \in DOMAIN redo[d] : redo[d][k] \in Made /\ commits[redo[d][k]].doc = d
      BY <1>2 DEF IInv, DagSound, OfDoc
    <2>3. \A k \in DOMAIN redo'[d] : redo'[d][k] \in Made /\ commits[redo'[d][k]].doc = d
      BY <1>3, <1>6, <2>2
    <2>4. \A x \in Docs : \A k \in DOMAIN redo'[x] :
             redo'[x][k] \in Made /\ commits[redo'[x][k]].doc = x
      BY <1>5, <2>3 DEF IInv, DagSound, OfDoc
    <2>5. Made' = Made
      BY <1>1 DEF Made
    <2> QED BY <1>1, <2>1, <2>4, <2>5 DEF IInv, DagSound, OfDoc
  <1>9. RedoRetraces'
    <2>1. \A k \in DOMAIN redo'[d] : commits[redo'[d][k]].parent =
              IF k = Len(redo'[d]) THEN head'[d] ELSE redo'[d][k + 1]
      <3> TAKE k \in DOMAIN redo'[d]
      <3>1. commits[redo[d][k]].parent = redo[d][k + 1]
        BY <1>2, <1>3, <1>6 DEF IInv, RedoRetraces
      <3>2. CASE k = Len(redo[d]) - 1
        BY <3>1, <3>2, <1>3, <1>5, <1>6
      <3>3. CASE k < Len(redo[d]) - 1
        BY <3>1, <3>3, <1>3, <1>6
      <3> QED BY <1>3, <1>6, <3>2, <3>3
    <2>2. \A x \in Docs : x # d => \A k \in DOMAIN redo'[x] : commits[redo'[x][k]].parent =
              IF k = Len(redo'[x]) THEN head'[x] ELSE redo'[x][k + 1]
      BY <1>5 DEF IInv, RedoRetraces
    <2> QED BY <1>1, <2>1, <2>2 DEF RedoRetraces
  <1>10. InHand'
    BY <1>1 DEF InHand, Idle
  <1>11. LiveFollows'
    <2>1. live'[d] = commits[top].content /\ top # NoCommit
      BY <1>1, <1>2, <1>4, <1>5, ContentOf DEF IInv, Ids, NoCommit
    <2>2. \A x \in Docs : x # d => live'[x] = live[x] /\ (x \in adrift' <=> x \in adrift)
      BY <1>1
    <2>3. Halfway = {} /\ Halfway' = {}
      BY <1>1 DEF Halfway, Idle
    <2> QED BY <1>1, <1>5, <2>1, <2>2, <2>3 DEF IInv, LiveFollows, Says
  <1> QED BY <1>7, <1>8, <1>9, <1>10, <1>11 DEF IInv

-----------------------------------------------------------------------------
\* One document of a run that is dropped: its head is before the run, and
\* nothing is to redo.
LEMMA DropNextStep == ASSUME IInv, NEW d \in Docs, DropNext(d) PROVE IInv'
  <1> PICK first \in InRun(task.run, d) :
        /\ \A i \in InRun(task.run, d) : first <= i
        /\ head' = [head EXCEPT ![d] = commits[first].parent]
    BY DEF DropNext
  <1> DEFINE p == commits[first].parent
  <1>1. /\ task.op = "drop" /\ d \in task.left
        /\ redo' = [redo EXCEPT ![d] = <<>>]
        /\ task' = [task EXCEPT !.left = @ \ {d}, !.done = @ \cup {d}]
        /\ UNCHANGED <<commits, blobs, live, adrift, run, proposals, clock>>
    BY DEF DropNext, memory
  <1>2. /\ task \in [op: {"drop"}, by: Users, run: RunIds, left: SUBSET Docs, done: SUBSET Docs]
        /\ task' \in [op: {"drop"}, by: Users, run: RunIds, left: SUBSET Docs, done: SUBSET Docs]
        /\ task'.op = "drop" /\ task'.run = task.run
        /\ task'.left = task.left \ {d} /\ task'.done = task.done \cup {d}
    <2>1. task \in [op: {"drop"}, by: Users, run: RunIds, left: SUBSET Docs, done: SUBSET Docs]
      BY <1>1 DEF IInv, TypeOK, Task
    <2> QED BY <1>1, <2>1
  <1>3. first \in Made /\ commits[first].doc = d /\ commits[first] \in Commit
    BY CommitsTyped DEF InRun, IInv
  <1>4. p \in Ids \cup {NoCommit} /\ (p # NoCommit => p \in Made /\ commits[p].doc = d)
    BY <1>3 DEF IInv, DagSound, OfDoc, Commit
  <1>5. /\ head'[d] = p /\ redo'[d] = <<>>
        /\ \A x \in Docs : x # d => head'[x] = head[x] /\ redo'[x] = redo[x]
    BY <1>1 DEF IInv, TypeOK
  <1>6. TypeOK'
    <2>1. head' \in [Docs -> Ids \cup {NoCommit}] /\ redo' \in [Docs -> Seq(Ids)]
      BY <1>1, <1>4 DEF IInv, TypeOK
    <2> QED BY <1>1, <1>2, <2>1 DEF IInv, TypeOK, Task
  <1>7. DagSound'
    <2>1. \A x \in Docs : head'[x] # NoCommit => head'[x] \in Made /\ commits[head'[x]].doc = x
      BY <1>4, <1>5 DEF IInv, DagSound, OfDoc
    <2>2. \A x \in Docs : \A k \in DOMAIN redo'[x] :
             redo'[x][k] \in Made /\ commits[redo'[x][k]].doc = x
      BY <1>5 DEF IInv, DagSound, OfDoc
    <2>3. Made' = Made
      BY <1>1 DEF Made
    <2> QED BY <1>1, <2>1, <2>2, <2>3 DEF IInv, DagSound, OfDoc
  <1>8. RedoRetraces'
    BY <1>1, <1>5 DEF IInv, RedoRetraces
  <1>9. InHand'
    <2>1. \A i \in InRun(task.run, d) : p < i
      <3>1. \A i \in InRun(task.run, d) : i \in Made /\ i \in Nat \ {0} /\ first <= i
        BY CommitsTyped DEF InRun, IInv
      <3>2. p \in Nat /\ first \in Nat /\ (p = 0 \/ p < first)
        BY <1>3, CommitsTyped DEF IInv, DagSound, NoCommit
      <3>3. ASSUME NEW i \in InRun(task.run, d) PROVE p < i
        <4>1. i \in Nat \ {0} /\ first <= i
          BY <3>1
        <4> QED BY <3>2, <4>1
      <3> QED BY <3>3
    <2> QED BY <1>1, <1>2, <1>5, <2>1 DEF IInv, InHand, InRun, Made
  <1>10. LiveFollows'
    <2>1. Halfway = task.done /\ Halfway' = task.done \cup {d}
      BY <1>1, <1>2 DEF Halfway
    <2>2. \A x \in Docs : x # d => Says(x)' = Says(x)
      BY <1>1, <1>5 DEF Says
    <2> QED BY <1>1, <2>1, <2>2 DEF IInv, LiveFollows
  <1> QED BY <1>6, <1>7, <1>8, <1>9, <1>10 DEF IInv

\* The heads have moved: the documents follow them, and the proposal goes.
LEMMA DropDoneStep == ASSUME IInv, DropDone PROVE IInv'
  <1>1. /\ task.op = "drop" /\ task' = Idle
        /\ live' = [x \in Docs |-> IF x \in task.done THEN ContentAt(head[x]) ELSE live[x]]
        /\ adrift' = adrift \ task.done
        /\ proposals' = [proposals EXCEPT ![task.by] = @ \ {task.run}]
        /\ UNCHANGED <<commits, blobs, head, redo, run, clock>>
    BY DEF DropDone, Restore, disk
  <1>2. task.by \in Users
    BY <1>1 DEF IInv, TypeOK, Task
  <1>3. \A x \in Docs : ContentAt(head[x]) = Says(x) /\ Says(x) \in Contents
    BY ContentOf, CommitsTyped, ContentsAssumption DEF IInv, DagSound, OfDoc, Says
  <1>4. TypeOK'
    <2>1. live' \in [Docs -> Contents] /\ proposals' \in [Users -> SUBSET RunIds]
      BY <1>1, <1>2, <1>3 DEF IInv, TypeOK
    <2> QED BY <1>1, <2>1 DEF IInv, TypeOK, Task, Idle
  <1>5. DagSound' /\ RedoRetraces'
    BY <1>1 DEF IInv, DagSound, RedoRetraces, Made, OfDoc
  <1>6. InHand'
    BY <1>1 DEF InHand, Idle
  <1>7. LiveFollows'
    <2>1. Halfway = task.done /\ \A x \in Docs : Says(x)' = Says(x)
      BY <1>1 DEF Halfway, Says
    <2> QED BY <1>1, <1>3, <2>1 DEF IInv, LiveFollows
  <1> QED BY <1>4, <1>5, <1>6, <1>7 DEF IInv

\* A run dropped in part: the documents whose heads have moved are adrift.
LEMMA DropFailsStep == ASSUME IInv, DropFails PROVE IInv'
  <1>1. /\ task.op = "drop" /\ task' = Idle /\ adrift' = adrift \cup task.done
        /\ UNCHANGED <<commits, blobs, head, redo, live, run, proposals, clock>>
    BY DEF DropFails, disk
  <1>2. task.done \subseteq Docs
    BY <1>1 DEF IInv, TypeOK, Task
  <1>3. TypeOK'
    BY <1>1, <1>2 DEF IInv, TypeOK, Task, Idle
  <1>4. DagSound' /\ RedoRetraces'
    BY <1>1 DEF IInv, DagSound, RedoRetraces, Made, OfDoc
  <1>5. InHand' /\ LiveFollows'
    BY <1>1 DEF IInv, InHand, LiveFollows, Halfway, Says, Idle
  <1> QED BY <1>3, <1>4, <1>5 DEF IInv

\* The request to drop a run: every document it touched has a commit of it.
LEMMA DropRunStep == ASSUME IInv, NEW u \in Users, NEW r \in RunIds, DropRun(u, r) PROVE IInv'
  <1>1. /\ task = Idle
        /\ task' = [op |-> "drop", by |-> u, run |-> r, left |-> Touched(r), done |-> {}]
        /\ UNCHANGED <<commits, blobs, head, redo, live, adrift, run, proposals, clock>>
    BY DEF DropRun, disk, memory
  <1>2. Touched(r) \subseteq Docs
    BY DEF Touched
  <1>3. TypeOK'
    BY <1>1, <1>2 DEF IInv, TypeOK, Task
  <1>4. DagSound' /\ RedoRetraces'
    BY <1>1 DEF IInv, DagSound, RedoRetraces, Made, OfDoc
  <1>5. InHand'
    BY <1>1 DEF InHand, Touched, InRun, Made
  <1>6. LiveFollows'
    BY <1>1 DEF IInv, LiveFollows, Halfway, Says, Idle
  <1> QED BY <1>3, <1>4, <1>5, <1>6 DEF IInv

-----------------------------------------------------------------------------
\* A run is begun or finished, or time passes: no document is touched.
LEMMA RunStep ==
  ASSUME IInv, (\E u \in Users : BeginRun(u) \/ FinishRun(u)) \/ Tick
  PROVE  IInv'
  <1>1. /\ UNCHANGED <<commits, blobs, head, redo, live, adrift, task>>
    BY DEF BeginRun, FinishRun, Tick, disk, memory
  <1>2. /\ run' \in [Users -> RunIds \cup {NoRun}] /\ proposals' \in [Users -> SUBSET RunIds]
        /\ clock' \in RunIds
    <2>1. CASE Tick
      BY <2>1, HistoryBounds DEF IInv, TypeOK, Tick, RunIds, memory
    <2>2. ASSUME NEW u \in Users, BeginRun(u)
          PROVE  run' \in [Users -> RunIds \cup {NoRun}] /\ UNCHANGED <<proposals, clock>>
      BY <2>2 DEF IInv, TypeOK, BeginRun
    <2>3. ASSUME NEW u \in Users, FinishRun(u)
          PROVE  /\ run' \in [Users -> RunIds \cup {NoRun}] /\ UNCHANGED clock
                 /\ proposals' \in [Users -> SUBSET RunIds]
      BY <2>3 DEF IInv, TypeOK, FinishRun
    <2> QED BY <2>1, <2>2, <2>3 DEF IInv, TypeOK
  <1>3. TypeOK'
    BY <1>1, <1>2 DEF IInv, TypeOK
  <1>4. DagSound' /\ RedoRetraces'
    BY <1>1 DEF IInv, DagSound, RedoRetraces, Made, OfDoc
  <1>5. InHand' /\ LiveFollows'
    BY <1>1 DEF IInv, InHand, InRun, Made, LiveFollows, Halfway, Says
  <1> QED BY <1>3, <1>4, <1>5 DEF IInv

\* Core ends and starts again, in the middle of anything.
LEMMA RestartStep == ASSUME IInv, Restart PROVE IInv'
  <1>1. /\ live' = [d \in Docs |-> ContentAt(head[d])] /\ adrift' = {} /\ task' = Idle
        /\ run' = [u \in Users |-> NoRun] /\ proposals' = [u \in Users |-> {}]
        /\ UNCHANGED <<commits, blobs, head, redo, clock>>
    BY DEF Restart, disk
  <1>2. \A x \in Docs : ContentAt(head[x]) = Says(x) /\ Says(x) \in Contents
    BY ContentOf, CommitsTyped, ContentsAssumption DEF IInv, DagSound, OfDoc, Says
  <1>3. TypeOK'
    BY <1>1, <1>2 DEF IInv, TypeOK, Task, Idle
  <1>4. DagSound' /\ RedoRetraces'
    BY <1>1 DEF IInv, DagSound, RedoRetraces, Made, OfDoc
  <1>5. InHand'
    BY <1>1 DEF InHand, Idle
  <1>6. LiveFollows'
    BY <1>1, <1>2 DEF LiveFollows, Says
  <1> QED BY <1>3, <1>4, <1>5, <1>6 DEF IInv

\* Every step keeps the strengthened invariant: one case for each action.
LEMMA NextPreserves == IInv /\ [Next]_vars => IInv'
  <1> SUFFICES ASSUME IInv, [Next]_vars PROVE IInv'
    OBVIOUS
  <1>1. CASE Write
    BY <1>1, WriteStep
  <1>2. CASE Committing
    BY <1>2, PutBlobStep, PutCommitStep, CommitFailsStep DEF Committing
  <1>3. CASE Revert
    BY <1>3, UndoStep, RedoStep, DropRunStep DEF Revert
  <1>4. CASE Dropping
    BY <1>4, DropNextStep, DropDoneStep, DropFailsStep DEF Dropping
  <1>5. CASE (\E u \in Users : BeginRun(u) \/ FinishRun(u)) \/ Tick
    BY <1>5, RunStep
  <1>6. CASE Restart
    BY <1>6, RestartStep
  <1>7. CASE UNCHANGED vars
    BY <1>7 DEF vars, disk, memory, IInv, TypeOK, DagSound, RedoRetraces, InHand, InRun,
                Made, OfDoc, LiveFollows, Halfway, Says
  <1> QED BY <1>1, <1>2, <1>3, <1>4, <1>5, <1>6, <1>7 DEF Next

\* The strengthened invariant holds of every behaviour of the history.
THEOREM Invariance == Spec => []IInv
  BY InitEstablishes, NextPreserves, PTL DEF Spec

\* The history and the documents keep their types.
THEOREM TypeCorrect == Spec => []TypeOK
  <1>1. IInv => TypeOK
    BY DEF IInv
  <1> QED BY <1>1, Invariance, PTL

\* The history hangs together, whatever is killed or fails in the middle.
THEOREM DagStaysSound == Spec => []DagSound
  <1>1. IInv => DagSound
    BY DEF IInv
  <1> QED BY <1>1, Invariance, PTL

\* Redo goes back the way undo came.
THEOREM RedoRetracesUndo == Spec => []RedoRetraces
  <1>1. IInv => RedoRetraces
    BY DEF IInv
  <1> QED BY <1>1, Invariance, PTL

\* Between requests a document says what its head says, unless a write was not
\* committed.
THEOREM LiveStaysHead == Spec => []LiveIsHead
  <1>1. IInv => LiveIsHead
    <2> SUFFICES ASSUME IInv, task = Idle, NEW d \in Docs, d \notin adrift
                 PROVE  live[d] = ContentAt(head[d])
      BY DEF LiveIsHead
    <2>1. live[d] = Says(d)
      BY DEF IInv, LiveFollows, Halfway, Idle
    <2>2. ContentAt(head[d]) = Says(d)
      BY ContentOf DEF IInv, DagSound, OfDoc, Says
    <2> QED BY <2>1, <2>2
  <1> QED BY <1>1, Invariance, PTL

\* When a run was dropped, no document is made of any of its commits: the commits
\* older than all of the run's are closed under parents, and hold the head.
THEOREM DropsLeaveNone == Spec => DropLeavesNone
  <1>1. ASSUME IInv, [Next]_vars, task.op = "drop", task.left = {}, task' = Idle,
               NEW d \in Docs
        PROVE  Branch(d)' \cap InRun(task.run, d) = {}
    <2>1. commits' = commits /\ head' = head
      <3>1. task # Idle /\ task.op \notin {"blob", "commit"} /\ task' # task
        BY <1>1 DEF Idle
      <3>2. ~Write /\ ~Committing /\ ~Revert /\ ~UNCHANGED vars /\ ~Tick
        BY <3>1 DEF Write, Execute, DocSync, WriteDoc, Committing, PutBlob, PutCommit,
                    CommitFails, Revert, Undo, Redo, DropRun, Tick, vars
      <3>3. ~\E u \in Users : BeginRun(u) \/ FinishRun(u)
        BY <3>1 DEF BeginRun, FinishRun
      <3>4. CASE Dropping
        BY <1>1, <3>4 DEF Dropping, DropNext, DropDone, DropFails, disk
      <3>5. CASE Restart
        BY <3>5 DEF Restart, disk
      <3> QED BY <1>1, <3>2, <3>3, <3>4, <3>5 DEF Next
    <2>2. SUFFICES ASSUME NEW i \in InRun(task.run, d), i \in Branch(d) PROVE FALSE
      BY <2>1 DEF Branch, Line, Made, NoCommit
    <2>3. head[d] # NoCommit /\ head[d] \in Made /\ i \in Made
      BY <1>1, <2>2 DEF Branch, InRun, IInv, DagSound, OfDoc
    <2>4. head[d] < i
      BY <1>1, <2>2 DEF IInv, InHand
    <2> DEFINE S == {j \in Made : j < i}
    <2>5. Made \subseteq Nat /\ \A j \in Made : commits[j].parent \in Nat
      BY <1>1, CommitsTyped DEF IInv
    <2>6. \A j \in S : commits[j].parent \in S \cup {NoCommit}
      BY <1>1, <2>3, <2>5 DEF IInv, DagSound, OfDoc
    <2>7. Line(d, S)
      BY <2>3, <2>4, <2>6 DEF Line
    <2>8. i \in S
      BY <2>2, <2>7 DEF Branch
    <2> QED BY <2>3, <2>5, <2>8
  <1>2. IInv /\ [Next]_vars =>
          [task.op = "drop" /\ task.left = {} /\ task' = Idle
             => \A d \in Docs : Branch(d)' \cap InRun(task.run, d) = {}]_vars
    BY <1>1
  <1> QED BY <1>2, Invariance, PTL DEF Spec, DropLeavesNone

\* Documents and their history agree: the history is sound, and what Core holds of
\* a document is what its head says (dag.rs, docs.rs).
THEOREM HistoryStaysSound == Spec => []HistoryHolds
  BY DagStaysSound, LiveStaysHead, PTL DEF HistoryHolds
=============================================================================
