------------------------------ MODULE Replicas ------------------------------
(***************************************************************************)
(* The replicas of one crdt document.  Core holds the document and one      *)
(* sync state per replica (lib.rs: DocSync, DocSyncEnd, doc_changed);       *)
(* each frame on the board holds a copy and the other end of the protocol   *)
(* (web/surfaces/whiteboard/src/replica.ts).  A frame's messages are HTTP    *)
(* requests of their own, which may overtake one another; Core's are events *)
(* on the person's socket, in order, and the ones sent while the socket is  *)
(* down are lost.                                                           *)
(*                                                                         *)
(* Automerge itself is external.  A document is the set of changes it       *)
(* received; a change names the changes it was made on top of and stays out *)
(* of sight until they are all there.  What a change says is a set of items *)
(* it adds and a set of items it takes away.                                *)
(***************************************************************************)
EXTENDS Naturals, Sequences, SequencesExt, FiniteSets

CONSTANTS Peers,          \* names of replicas; a name is used for one frame only
          MaxReplicas,    \* MAX_REPLICAS_PER_DOC
          MaxEvents       \* bound: edits, undos, redos, closings, losses and restarts

ASSUME ReplicaBounds == MaxReplicas \in Nat \ {0} /\ MaxEvents \in Nat

VARIABLES
  log,       \* every change ever made, by number
  core,      \* Core's document: the changes it holds and the ones that wait
  commits,   \* the line of commits: each one's snapshot
  head,      \* which commit the document is at; 0 is before the first
  states,    \* Core's sync states: replica -> state
  seen,      \* the replicas that have one, the one heard from longest ago first
  frame,     \* "new", "open" or "closed" for each replica
  copy,      \* a frame's copy of the document
  end,       \* a frame's own end of the protocol
  posted,    \* a frame's messages on their way to Core
  sent,      \* Core's messages on their way to a frame
  lost,      \* the replicas some message of which was lost
  undone,    \* the items an undo took away and nobody brought back
  restarts,  \* how often Core restarted
  events     \* how much has happened besides frames opening and messages arriving

server == <<core, commits, head, states, seen>>
client == <<frame, copy, end>>
vars == <<log, server, client, posted, sent, lost, undone, restarts, events>>

Happens == events < MaxEvents /\ events' = events + 1

(***************************************************************************)
(* Automerge, as Core and the frame use it.                                 *)
(***************************************************************************)
Empty == [doc |-> {}, waiting |-> {}]

\* changes arrive; the ones whose ground is missing wait for it
Arrived(d, ids) ==
  LET all == d.doc \cup d.waiting \cup ids
      grounded == {i \in all : log[i].on \subseteq all} IN
  [doc |-> grounded, waiting |-> all \ grounded]

\* the items a document shows, each with the change that put it there
Standing(d) ==
  {it \in UNION {{i} \X log[i].adds : i \in d.doc} : \A j \in d.doc : it \notin log[j].takes}
Content(d) == {it[2] : it \in Standing(d)}

\* one more change on top of a document
New == Len(log) + 1
With(d) == [d EXCEPT !.doc = @ \cup {New}]
Change(d, adds, takes, typed) ==
  log' = Append(log, [adds |-> adds, takes |-> takes, on |-> d.doc, typed |-> typed])

Fresh == [heard |-> FALSE, theirs |-> {}, unacked |-> {}, told |-> {}, flying |-> FALSE]

\* generate_sync_message: what is owed, and whether there is anything to say
Owed(d, s) == IF s.heard THEN d.doc \ (s.theirs \cup s.unacked) ELSE {}
Quiet(d, s) ==
  /\ s.told = d.doc
  /\ s.flying \/ (s.heard /\ s.theirs = d.doc /\ Owed(d, s) = {})
Said(d, s) == [s EXCEPT !.told = d.doc, !.flying = TRUE, !.unacked = @ \cup Owed(d, s)]
Message(d, s) == [have |-> d.doc, brings |-> Owed(d, s)]

\* receive_sync_message
Heard(d, s, m) ==
  [s EXCEPT !.heard = TRUE, !.theirs = m.have, !.flying = FALSE, !.unacked = @ \ m.have,
            !.told = IF m.brings = {} /\ m.have = d.doc THEN m.have ELSE @]

(***************************************************************************)
(* Core's side.                                                             *)
(***************************************************************************)
\* doc_changed and sync_replica: each of these replicas is sent what it lacks
SyncReplicas(d, known, peers) ==
  LET owed == {p \in peers \cap DOMAIN known : ~ Quiet(d, known[p])} IN
  /\ states' = [p \in DOMAIN known |-> IF p \in owed THEN Said(d, known[p]) ELSE known[p]]
  /\ sent' = [p \in Peers |-> IF p \in owed THEN Append(sent[p], Message(d, known[p])) ELSE sent[p]]

\* a mutant: only the readers of the JSON are told
DocChangedForReaders(d, known) == SyncReplicas(d, known, {})
DocChanged(d, known) == SyncReplicas(d, known, Peers)

\* put_replica: marked as just heard from; the oldest makes room
PutReplica(p) ==
  LET others == RemoveFirst(seen, p) IN
  Append(IF Len(others) >= MaxReplicas THEN Tail(others) ELSE others, p)

\* a mutant: the snapshot is taken before the change
CommitStale(d) == /\ commits' = Append(SubSeq(commits, 1, head), core)
                  /\ head' = head + 1
Commit(d) == /\ commits' = Append(SubSeq(commits, 1, head), d)
             /\ head' = head + 1

\* apply_json: the document is made to show exactly these items, field by
\* field, in one change; none when it shows them already
Reconcile(target) ==
  LET adds == target \ Content(core)
      takes == {it \in Standing(core) : it[2] \notin target} IN
  IF adds = {} /\ takes = {}
  THEN UNCHANGED <<log, core, states, sent>>
  ELSE /\ Change(core, adds, takes, FALSE)
       /\ core' = With(core)
       /\ DocChanged(With(core), states)

\* A tool call, or a whole document written by a surface, which may ask that
\* no commit be made.
WriteDoc(commit) ==
  /\ Happens
  /\ Reconcile(Content(core) \cup {New})
  /\ IF commit THEN Commit(With(core)) ELSE UNCHANGED <<commits, head>>
  /\ UNCHANGED <<seen, client, posted, lost, undone, restarts>>

\* a mutant: the document is replaced by the snapshot
MoveHeadReplaces(to) ==
  LET d == IF to = 0 THEN Empty ELSE commits[to] IN
  /\ core' = d
  /\ DocChanged(d, states)
  /\ head' = to
  /\ undone' = (undone \cup Content(core)) \ Content(d)
  /\ UNCHANGED <<log, commits, seen, client, posted, lost, restarts>>
\* Undo and redo: the head moves and its content is reconciled into the
\* document as one more change.
MoveHead(to) ==
  LET target == IF to = 0 THEN {} ELSE Content(commits[to]) IN
  /\ Reconcile(target)
  /\ head' = to
  /\ undone' = (undone \cup Content(core)) \ target
  /\ UNCHANGED <<commits, seen, client, posted, lost, restarts>>

Undo == Happens /\ head > 0 /\ MoveHead(head - 1)
Redo == Happens /\ head < Len(commits) /\ MoveHead(head + 1)

\* A frame's message arrives: it is applied, and committed when it changed
\* the document.
DocSync(p) ==
  /\ \E m \in posted[p] :
       LET d == Arrived(core, m.brings)
           state == IF p \in DOMAIN states THEN states[p] ELSE Fresh
           order == PutReplica(p)
           known == [q \in {order[i] : i \in DOMAIN order} |->
                       IF q = p THEN Heard(d, state, m) ELSE states[q]] IN
       /\ posted' = [posted EXCEPT ![p] = @ \ {m}]
       /\ core' = d
       /\ seen' = order
       /\ IF d.doc # core.doc
          THEN Commit(d) /\ DocChanged(d, known)
          ELSE SyncReplicas(d, known, {p}) /\ UNCHANGED <<commits, head>>
  /\ UNCHANGED <<log, client, lost, undone, restarts, events>>

\* A frame that closes says so; its messages may still be on their way.
DocSyncEnd(p) ==
  /\ Happens
  /\ frame[p] = "open"
  /\ frame' = [frame EXCEPT ![p] = "closed"]
  /\ states' = [q \in DOMAIN states \ {p} |-> states[q]]
  /\ seen' = RemoveFirst(seen, p)
  /\ sent' = [sent EXCEPT ![p] = <<>>]
  /\ UNCHANGED <<log, core, commits, head, copy, end, posted, lost, undone, restarts>>

(***************************************************************************)
(* The frame's side.                                                        *)
(***************************************************************************)
\* flush: everything Core does not have yet
Flush(p, d, state) ==
  IF Quiet(d, state)
  THEN end' = [end EXCEPT ![p] = state] /\ posted' = posted
  ELSE /\ end' = [end EXCEPT ![p] = Said(d, state)]
       /\ posted' = [posted EXCEPT ![p] = @ \cup {Message(d, state)}]

\* The frame loads Core's snapshot and announces itself.
OpenDoc(p) ==
  /\ frame[p] = "new"
  /\ frame' = [frame EXCEPT ![p] = "open"]
  /\ copy' = [copy EXCEPT ![p] = core]
  /\ Flush(p, core, Fresh)
  /\ UNCHANGED <<log, server, sent, lost, undone, restarts, events>>

\* The person edits on the board.
Local(p) ==
  /\ Happens
  /\ frame[p] = "open"
  /\ Change(copy[p], {New}, {}, TRUE)
  /\ copy' = [copy EXCEPT ![p] = With(@)]
  /\ Flush(p, With(copy[p]), end[p])
  /\ UNCHANGED <<server, frame, sent, lost, undone, restarts>>

\* A patch arrives on the socket.
Receive(p) ==
  /\ frame[p] = "open"
  /\ sent[p] # <<>>
  /\ LET m == Head(sent[p])
         d == Arrived(copy[p], m.brings) IN
     /\ sent' = [sent EXCEPT ![p] = Tail(@)]
     /\ copy' = [copy EXCEPT ![p] = d]
     /\ Flush(p, d, Heard(d, end[p], m))
  /\ UNCHANGED <<log, server, frame, lost, undone, restarts, events>>

(***************************************************************************)
(* Faults.                                                                  *)
(***************************************************************************)
\* The socket is down, or the stream lagged, when the next patch is sent.
LosePatch(p) ==
  /\ Happens
  /\ sent[p] # <<>>
  /\ sent' = [sent EXCEPT ![p] = Tail(@)]
  /\ lost' = lost \cup {p}
  /\ UNCHANGED <<log, server, client, posted, undone, restarts>>

\* A request fails on its way, or is refused because its person may only
\* look: the frame shows a notice and goes on as if it had been taken.
LosePost(p) ==
  /\ Happens
  /\ \E m \in posted[p] : posted' = [posted EXCEPT ![p] = @ \ {m}]
  /\ lost' = lost \cup {p}
  /\ UNCHANGED <<log, server, client, sent, undone, restarts>>

\* Core restarts: the document is read back at its head, no sync state is
\* kept, and whatever was on its way is gone.
Restart ==
  /\ Happens
  /\ core' = IF head = 0 THEN Empty ELSE commits[head]
  /\ states' = <<>>
  /\ seen' = <<>>
  /\ lost' = lost \cup {p \in Peers : posted[p] # {} \/ sent[p] # <<>>}
  /\ posted' = [p \in Peers |-> {}]
  /\ sent' = [p \in Peers |-> <<>>]
  /\ restarts' = restarts + 1
  /\ UNCHANGED <<log, commits, head, client, undone>>

-----------------------------------------------------------------------------
\* A board that was opened once: its first commit, and nobody looking.
FirstDoc == [doc |-> {1}, waiting |-> {}]
Init ==
  /\ log = <<[adds |-> {1}, takes |-> {}, on |-> {}, typed |-> FALSE]>>
  /\ core = FirstDoc /\ commits = <<FirstDoc>> /\ head = 1
  /\ states = <<>> /\ seen = <<>>
  /\ frame = [p \in Peers |-> "new"]
  /\ copy = [p \in Peers |-> Empty]
  /\ end = [p \in Peers |-> Fresh]
  /\ posted = [p \in Peers |-> {}]
  /\ sent = [p \in Peers |-> <<>>]
  /\ lost = {} /\ undone = {} /\ restarts = 0 /\ events = 0

Next ==
  \/ \E commit \in BOOLEAN : WriteDoc(commit)
  \/ Undo \/ Redo \/ Restart
  \/ \E p \in Peers :
       \/ OpenDoc(p) \/ Local(p) \/ Receive(p)
       \/ DocSync(p) \/ DocSyncEnd(p)
       \/ LosePatch(p) \/ LosePost(p)

Spec == Init /\ [][Next]_vars

-----------------------------------------------------------------------------
\* Nothing is on its way between Core and this frame.
Settled(p) == frame[p] = "open" /\ posted[p] = {} /\ sent[p] = <<>>

\* When nothing is on its way, a frame that Core keeps a sync state for and
\* that lost no message shows what Core's document shows: no order of edits,
\* tool calls, undos, late requests and evictions makes two frames drift.
SettledIsSame ==
  \A p \in Peers : Settled(p) /\ p \in DOMAIN states /\ p \notin lost => Content(copy[p]) = Content(core)

\* What an undo took away stays away until somebody brings it back, whatever
\* the frames that still hold it send; a frame that missed the revert and
\* speaks to a Core that has restarted since is the exception.
UndoneStaysUndone == restarts = 0 => undone \cap Content(core) = {}

\* What people did in frames and reached the document is in the history: a
\* restart shows every item the document showed, except the ones a surface
\* wrote with the request that no commit be made.
EditsAreKept ==
  \A i \in core.doc : log[i].typed /\ i \in Content(core) => head > 0 /\ i \in Content(commits[head])

\* What people did stays done, and what they undid undone (docs.rs, lib.rs), the
\* two above together.
EditsAndUndosStay == UndoneStaysUndone /\ EditsAreKept
=============================================================================
