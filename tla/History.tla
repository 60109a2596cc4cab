------------------------------- MODULE History -------------------------------
(***************************************************************************)
(* The documents of localspace-core and their history: crates/             *)
(* localspace-core/src/dag.rs, with the requests of lib.rs that write,     *)
(* undo, redo and drop, and the document Core holds in memory (docs.rs).   *)
(*                                                                         *)
(* The history is on disk: every commit, in the order it was made, the     *)
(* blob each one points to, a head and a redo stack for each document.     *)
(* The documents are in memory.  Core handles one request at a time, but a *)
(* request that writes several transactions is several steps here: Core    *)
(* may be killed between any two of them, and any of them may fail.        *)
(***************************************************************************)
EXTENDS Integers, Sequences, FiniteSets

CONSTANTS
  Users,         \* the people of a workspace
  Docs,          \* its documents
  MayEdit,       \* the documents each person holds `edit` on; none: a read-only account
  ProposalDocs,  \* those of a workspace with agent_writes = proposal
  Contents,      \* what a document may say
  Empty,         \* ... before anything is written
  UndoWindow,    \* how far back Undo looks for a document (200 commits)
  RunWindow,     \* how far back finish_run looks for its commits (256)
  MaxCommits,    \* bound: commits ever made
  MaxTime        \* bound: clock readings

ASSUME AccessAssumption == MayEdit \in [Users -> SUBSET Docs] /\ ProposalDocs \subseteq Docs
ASSUME ContentsAssumption == Empty \in Contents
ASSUME WindowsAssumption == UndoWindow \in Nat \ {0} /\ RunWindow \in Nat \ {0}
ASSUME HistoryBounds == MaxCommits \in Nat /\ MaxTime \in Nat \ {0}

VARIABLES
  commits,    \* COMMITS in ORDER: a commit's place is its id
  blobs,      \* BLOBS
  head,       \* META head:<doc>, or NoCommit
  redo,       \* META redo:<doc>: a stack, its top last
  live,       \* the documents Core holds
  adrift,     \* documents whose content in memory no commit holds
  run,        \* core.run of each person, or NoRun
  proposals,  \* core.proposals of each person, by run
  clock,      \* now_ms
  task        \* the request Core is in the middle of

disk == <<commits, blobs, head, redo>>
memory == <<live, adrift, run, proposals>>
vars == <<disk, memory, clock, task>>

-----------------------------------------------------------------------------
NoCommit == 0
NoRun == 0
RunIds == 1..MaxTime     \* run_{now_ms}
Ids == 1..MaxCommits

Commit == [doc: Docs, parent: Ids \cup {NoCommit}, content: Contents,
           run: RunIds \cup {NoRun}]

Idle == [op |-> "idle"]
Task == [op: {"idle"}]
          \cup [op: {"blob", "commit"}, doc: Docs, content: Contents,
                run: RunIds \cup {NoRun}]
          \cup [op: {"drop"}, by: Users, run: RunIds, left: SUBSET Docs, done: SUBSET Docs]

Made == DOMAIN commits

\* The commits of a run, and the documents they are of.
InRun(r, d) == {i \in Made : commits[i].run = r /\ commits[i].doc = d}
Touched(r) == {d \in Docs : InRun(r, d) # {}}

\* What a head says a document is.
ContentAt(i) == IF i \in Made /\ commits[i].content \in blobs
                THEN commits[i].content ELSE Empty

\* The most recently changed document a person may edit.
UndoableDocs(u) ==
  {d \in MayEdit[u] :
     \E i \in Made :
       /\ commits[i].doc = d
       /\ i > Len(commits) - UndoWindow
       /\ \A j \in Made : j > i => commits[j].doc \notin MayEdit[u]}

-----------------------------------------------------------------------------
Init ==
  /\ commits = <<>>
  /\ blobs = {}
  /\ head = [d \in Docs |-> NoCommit]
  /\ redo = [d \in Docs |-> <<>>]
  /\ live = [d \in Docs |-> Empty]
  /\ adrift = {}
  /\ run = [u \in Users |-> NoRun]
  /\ proposals = [u \in Users |-> {}]
  /\ clock = 1
  /\ task = Idle

-----------------------------------------------------------------------------
(* Writing a document.                                                     *)

\* Mutant of ThenCommit: the commit is made and its content is not kept.
ThenCommitWithoutBlob(d, c, r) ==
  /\ Len(commits) < MaxCommits
  /\ live' = [live EXCEPT ![d] = c]
  /\ task' = [op |-> "commit", doc |-> d, content |-> c, run |-> r]

\* The document changes in memory first; then its commit is made.
ThenCommit(d, c, r) ==
  /\ Len(commits) < MaxCommits
  /\ live' = [live EXCEPT ![d] = c]
  /\ task' = [op |-> "blob", doc |-> d, content |-> c, run |-> r]

\* execute: a tool call, the agent's or a person's, that changes the document.
\* Its commit belongs to whatever run the person has open.
Execute(u, d, c) ==
  /\ task = Idle /\ d \in MayEdit[u]
  /\ c # live[d]
  /\ ThenCommit(d, c, run[u])
  /\ UNCHANGED <<disk, adrift, run, proposals, clock>>

\* DocSync: a replica's changes, which need not change what the document says.
DocSync(u, d, c) ==
  /\ task = Idle /\ d \in MayEdit[u]
  /\ ThenCommit(d, c, NoRun)
  /\ UNCHANGED <<disk, adrift, run, proposals, clock>>

\* WriteDoc: a surface's document, committed or (while a drag lasts) not.
WriteDoc(u, d, c, commit) ==
  /\ task = Idle /\ d \in MayEdit[u]
  /\ c # live[d]
  /\ IF commit THEN ThenCommit(d, c, NoRun) /\ UNCHANGED adrift
     ELSE /\ live' = [live EXCEPT ![d] = c] /\ adrift' = adrift \cup {d}
          /\ UNCHANGED task
  /\ UNCHANGED <<disk, run, proposals, clock>>

\* Dag::commit, its first transaction.
PutBlob ==
  /\ task.op = "blob"
  /\ blobs' = blobs \cup {task.content}
  /\ task' = [task EXCEPT !.op = "commit"]
  /\ UNCHANGED <<commits, head, redo, memory, clock>>

\* Mutant of PutCommit: the redo stack survives a new commit.
PutCommitKeepsRedo ==
  LET d == task.doc IN
  /\ task.op = "commit"
  /\ commits' = Append(commits, [doc |-> d, parent |-> head[d],
                                 content |-> task.content, run |-> task.run])
  /\ head' = [head EXCEPT ![d] = Len(commits) + 1]
  /\ adrift' = adrift \ {d}
  /\ task' = Idle
  /\ UNCHANGED <<blobs, redo, live, run, proposals, clock>>

\* Dag::commit, its second: the commit, its place, the head, and no redo.
PutCommit ==
  LET d == task.doc IN
  /\ task.op = "commit"
  /\ commits' = Append(commits, [doc |-> d, parent |-> head[d],
                                 content |-> task.content, run |-> task.run])
  /\ head' = [head EXCEPT ![d] = Len(commits) + 1]
  /\ redo' = [redo EXCEPT ![d] = <<>>]
  /\ adrift' = adrift \ {d}
  /\ task' = Idle
  /\ UNCHANGED <<blobs, live, run, proposals, clock>>

\* Either transaction fails: the change stays in the document all the same.
CommitFails ==
  /\ task.op \in {"blob", "commit"}
  /\ adrift' = adrift \cup {task.doc}
  /\ task' = Idle
  /\ UNCHANGED <<disk, live, run, proposals, clock>>

-----------------------------------------------------------------------------
(* Undo, redo, and the rejection of a run.                                 *)

\* apply_revert: the documents are what their heads now say.
Restore(ds, heads) ==
  /\ live' = [d \in Docs |-> IF d \in ds THEN ContentAt(heads[d]) ELSE live[d]]
  /\ adrift' = adrift \ ds

Undo(u) ==
  /\ task = Idle
  /\ \E d \in UndoableDocs(u) :
       /\ head[d] # NoCommit
       /\ head' = [head EXCEPT ![d] = commits[head[d]].parent]
       /\ redo' = [redo EXCEPT ![d] = Append(@, head[d])]
       /\ Restore({d}, head')
  /\ UNCHANGED <<commits, blobs, run, proposals, clock, task>>

Redo(u) ==
  /\ task = Idle
  /\ \E d \in UndoableDocs(u) :
       /\ redo[d] # <<>>
       /\ head' = [head EXCEPT ![d] = redo[d][Len(redo[d])]]
       /\ redo' = [redo EXCEPT ![d] = SubSeq(@, 1, Len(@) - 1)]
       /\ Restore({d}, head')
  /\ UNCHANGED <<commits, blobs, run, proposals, clock, task>>

\* DropRun, up to drop_run: the caller may edit everything the run touched.
DropRun(u, r) ==
  /\ task = Idle
  /\ Touched(r) # {} /\ Touched(r) \subseteq MayEdit[u]
  /\ task' = [op |-> "drop", by |-> u, run |-> r, left |-> Touched(r), done |-> {}]
  /\ UNCHANGED <<disk, memory, clock>>

\* Mutant of DropNext: the run's newest commit in the document is taken for its
\* first.
DropNextNewest(d) ==
  /\ task.op = "drop" /\ d \in task.left
  /\ \E first \in InRun(task.run, d) :
       /\ \A i \in InRun(task.run, d) : i <= first
       /\ head' = [head EXCEPT ![d] = commits[first].parent]
  /\ redo' = [redo EXCEPT ![d] = <<>>]
  /\ task' = [task EXCEPT !.left = @ \ {d}, !.done = @ \cup {d}]
  /\ UNCHANGED <<commits, blobs, memory, clock>>

\* drop_run, one document (in any order: the code sorts them by name) in one
\* transaction: back to the parent of the run's first commit, with no redo.
DropNext(d) ==
  /\ task.op = "drop" /\ d \in task.left
  /\ \E first \in InRun(task.run, d) :
       /\ \A i \in InRun(task.run, d) : first <= i
       /\ head' = [head EXCEPT ![d] = commits[first].parent]
  /\ redo' = [redo EXCEPT ![d] = <<>>]
  /\ task' = [task EXCEPT !.left = @ \ {d}, !.done = @ \cup {d}]
  /\ UNCHANGED <<commits, blobs, memory, clock>>

\* Mutant of DropDone: the heads moved, and the documents were left as they are.
DropDoneOnDisk ==
  /\ task.op = "drop" /\ task.left = {}
  /\ proposals' = [proposals EXCEPT ![task.by] = @ \ {task.run}]
  /\ task' = Idle
  /\ UNCHANGED <<disk, live, adrift, run, clock>>

\* DropRun after drop_run: the documents, and the caller's proposal.
DropDone ==
  /\ task.op = "drop" /\ task.left = {}
  /\ Restore(task.done, head)
  /\ proposals' = [proposals EXCEPT ![task.by] = @ \ {task.run}]
  /\ task' = Idle
  /\ UNCHANGED <<disk, run, clock>>

\* A transaction of drop_run fails: the heads moved so far have, and the
\* documents they are of have not.
DropFails ==
  /\ task.op = "drop" /\ task.left # {}
  /\ adrift' = adrift \cup task.done
  /\ task' = Idle
  /\ UNCHANGED <<disk, live, run, proposals, clock>>

-----------------------------------------------------------------------------
(* Runs, the clock, and the end of the process.                            *)

\* begin, as far as the history knows it: a run named by the clock.
BeginRun(u) ==
  /\ task = Idle /\ run[u] = NoRun
  /\ run' = [run EXCEPT ![u] = clock]
  /\ UNCHANGED <<disk, live, adrift, proposals, clock, task>>

\* Mutant of FinishRun: the run is looked for after it was taken.
FinishRunTaken(u) ==
  /\ task = Idle /\ run[u] # NoRun
  /\ run' = [run EXCEPT ![u] = NoRun]
  /\ proposals' = [proposals EXCEPT ![u] = @ \cup {run'[u]}]
  /\ UNCHANGED <<disk, live, adrift, clock, task>>

\* finish_run: what it changed where agents propose is listed as a proposal.
FinishRun(u) ==
  /\ task = Idle /\ run[u] # NoRun
  /\ run' = [run EXCEPT ![u] = NoRun]
  /\ proposals' =
       IF \E d \in ProposalDocs : \E i \in InRun(run[u], d) : i > Len(commits) - RunWindow
       THEN [proposals EXCEPT ![u] = @ \cup {run[u]}] ELSE proposals
  /\ UNCHANGED <<disk, live, adrift, clock, task>>

Tick ==
  /\ clock < MaxTime
  /\ clock' = clock + 1
  /\ UNCHANGED <<disk, memory, task>>

\* Core ends, whatever it was doing, and starts on what the disk holds:
\* restore_from_dag.
Restart ==
  /\ live' = [d \in Docs |-> ContentAt(head[d])]
  /\ adrift' = {}
  /\ run' = [u \in Users |-> NoRun]
  /\ proposals' = [u \in Users |-> {}]
  /\ task' = Idle
  /\ UNCHANGED <<disk, clock>>

-----------------------------------------------------------------------------
Write == \E u \in Users, d \in Docs, c \in Contents :
           \/ Execute(u, d, c)
           \/ DocSync(u, d, c)
           \/ \E commit \in BOOLEAN : WriteDoc(u, d, c, commit)

Committing == PutBlob \/ PutCommit \/ CommitFails

Revert == \E u \in Users :
            \/ Undo(u)
            \/ Redo(u)
            \/ \E r \in RunIds : DropRun(u, r)

Dropping == (\E d \in Docs : DropNext(d)) \/ DropDone \/ DropFails

Next ==
  \/ Write
  \/ Committing
  \/ Revert
  \/ Dropping
  \/ \E u \in Users : BeginRun(u) \/ FinishRun(u)
  \/ Tick
  \/ Restart

Spec == Init /\ [][Next]_vars

-----------------------------------------------------------------------------
\* The history and the documents keep their types.
TypeOK ==
  /\ commits \in Seq(Commit) /\ Len(commits) <= MaxCommits
  /\ blobs \subseteq Contents
  /\ head \in [Docs -> Ids \cup {NoCommit}]
  /\ redo \in [Docs -> Seq(Ids)]
  /\ live \in [Docs -> Contents]
  /\ adrift \subseteq Docs
  /\ run \in [Users -> RunIds \cup {NoRun}]
  /\ proposals \in [Users -> SUBSET RunIds]
  /\ clock \in RunIds
  /\ task \in Task

\* Whatever is killed or fails in the middle, the history hangs together: every
\* commit's content is in the blob store, its parent is an older commit of the
\* same document, and a head or an entry of a redo stack is a commit of its own
\* document. `undo` and `redo` never find "missing from the DAG".
OfDoc(i, d) == i \in Made /\ commits[i].doc = d
DagSound ==
  /\ \A i \in Made :
       /\ commits[i].content \in blobs
       /\ commits[i].parent # NoCommit =>
            commits[i].parent < i /\ OfDoc(commits[i].parent, commits[i].doc)
  /\ \A d \in Docs :
       /\ head[d] # NoCommit => OfDoc(head[d], d)
       /\ \A k \in DOMAIN redo[d] : OfDoc(redo[d][k], d)

\* Redo goes back exactly the way undo came: the top of a document's redo stack
\* is a child of its head, and every entry a child of the one above it. No
\* write, drop or failure in between leaves an entry that would replace the
\* document by another branch's.
RedoRetraces ==
  \A d \in Docs : \A k \in DOMAIN redo[d] :
    commits[redo[d][k]].parent = IF k = Len(redo[d]) THEN head[d] ELSE redo[d][k + 1]

\* Between requests a document says what its head says, except where a write was
\* not committed; and Core started again says the same as Core that went on.
LiveIsHead ==
  task = Idle => \A d \in Docs \ adrift : live[d] = ContentAt(head[d])

\* The versions and the documents agree: every head, parent and redo entry is
\* a commit of its own document, and what a person sees is what the head says,
\* whatever failed, was dropped or was started again in between.
HistoryHolds == DagSound /\ LiveIsHead

\* The commits a document is made of: the least set that holds its head and the
\* parent of whatever it holds.
Line(d, S) == head[d] \in S /\ \A j \in S : commits[j].parent \in S \cup {NoCommit}
Branch(d) == {i \in Made : head[d] # NoCommit /\ \A S \in SUBSET Made : Line(d, S) => i \in S}

\* When a run was dropped, no document is made of any of its commits, however
\* its writes, those of people and those of other runs followed one another.
DropLeavesNone ==
  [][task.op = "drop" /\ task.left = {} /\ task' = Idle
       => \A d \in Docs : Branch(d)' \cap InRun(task.run, d) = {}]_vars

-----------------------------------------------------------------------------
(* What the program says of itself, and does not always do.                *)

\* "Agent runs are one branch; rejecting them is a branch drop" (proto::Commit):
\* what was taken out of a document, by undo or by dropping a run, is in it again
\* only when it is redone. But a run that followed another one goes back to that
\* one's last commit when it is dropped, though that one was dropped before.
RejectedStaysOut ==
  [][\A d \in Docs : \A i \in Made \cap (Branch(d)' \ Branch(d)) :
       \E k \in DOMAIN redo[d] : redo[d][k] = i]_vars

=============================================================================
