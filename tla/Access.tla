------------------------------- MODULE Access -------------------------------
(***************************************************************************)
(* Who may open what: the workspaces, their members, the documents and     *)
(* their tightenings of localspace-core's acl.rs, the requests of lib.rs   *)
(* that change them, and the place each person is in.                      *)
(*                                                                         *)
(* All of it lives twice, in Core's memory, where every check looks, and   *)
(* in the database, from which Core starts again.  Core takes one request  *)
(* at a time; a write to the database may fail, and Core may be restarted  *)
(* between any two requests.                                               *)
(***************************************************************************)
EXTENDS Integers, FiniteSets

CONSTANTS
  People,        \* people; each has a personal workspace, named by the person
  Shared,       \* the shared workspaces that may be made
  Harnesses,    \* each shows one document in each workspace
  Files,        \* contents a surface may export: one document per content
  Tightenings,  \* the lists SetDocumentAccess may be given
  Given,        \* the levels SetMember may be given
  None,         \* no workspace
  Rooms         \* bounds, one of which holds: failed writes; restarts; changes of
                \* roles, members, modes and tightenings; people who come and where they go

Workspaces == People \union Shared
Documents == (Workspaces \X Harnesses) \union Files

(* acl::Level, and nothing held *)
Nothing == 0
View == 1
Comment == 2
Edit == 3
Owner == 4
Held == Nothing..Owner
Level == View..Owner

NoAcl == [u \in People |-> Owner + 1]   \* not tightened: no cap
Acls == [People -> Held] \union {NoAcl}
MemberRoles == {"admin", "member"}   \* a viewer changes nothing, and is checked as a member is
AgentWrites == {"direct", "proposal"}

ASSUME AccessAssumption ==
  /\ People \intersect Shared = {} /\ None \notin Workspaces
  /\ Files \intersect (Workspaces \X Harnesses) = {} /\ Workspaces \intersect Documents = {}
  /\ Tightenings \subseteq [People -> Held] /\ Given \subseteq Level
  /\ Rooms \subseteq [faults : Nat, restarts : Nat, changes : Nat, visits : Nat]

VARIABLES
  role,        \* the role of each person's next caller (identity)
  workspace,   \* access.workspaces
  document,    \* access.documents
  open,        \* the documents the document store has
  seen,        \* the people Core has state of
  at,          \* workspace, in each one's state
  breakGlass,  \* break_glass, likewise
  disk,        \* the tables: workspaces, documents, current workspaces
  answered,    \* members and tightenings as the last answers said
  unsaved,     \* what the database failed to take
  room         \* what is left of the bounds

memory == <<workspace, document, open, seen, at, breakGlass>>
accessVars == <<role, memory, disk, answered, unsaved, room>>

-----------------------------------------------------------------------------
Unmade == [made |-> FALSE, members |-> [u \in People |-> Nothing], agentWrites |-> "direct"]
OwnedBy(u) == [v \in People |-> IF v = u THEN Owner ELSE Nothing]
Personal(u) == [made |-> TRUE, members |-> OwnedBy(u), agentWrites |-> "direct"]
SharedBy(u) == [made |-> TRUE, members |-> OwnedBy(u), agentWrites |-> "proposal"]

Unknown == [known |-> FALSE, ws |-> None, acl |-> NoAcl]
Meta(w, acl) == [known |-> TRUE, ws |-> w, acl |-> acl]

WorkspaceRecords == [made : BOOLEAN, members : [People -> Held], agentWrites : AgentWrites]
DocumentRecords == [known : BOOLEAN, ws : Workspaces \union {None}, acl : Acls]

AccessTypeOK ==
  /\ role \in [People -> MemberRoles]
  /\ workspace \in [Workspaces -> WorkspaceRecords]
  /\ document \in [Documents -> DocumentRecords]
  /\ open \subseteq Documents /\ seen \subseteq People
  /\ at \in [People -> Workspaces] /\ breakGlass \in [People -> Workspaces \union {None}]
  /\ disk \in [workspaces : [Workspaces -> WorkspaceRecords],
               documents : [Documents -> DocumentRecords],
               current : [People -> Workspaces \union {None}]]
  /\ answered \in [members : [Workspaces -> [People -> Held]], acl : [Documents -> Acls]]
  /\ unsaved \subseteq Workspaces \union Documents
  /\ room \in [faults : Nat, restarts : Nat, changes : Nat, visits : Nat]

AccessInit ==
  /\ role \in [People -> MemberRoles] /\ \E u \in People : role[u] = "admin"
  /\ workspace = [w \in Workspaces |-> Unmade]
  /\ document = [d \in Documents |-> Unknown]
  /\ open = {} /\ seen = {}
  /\ at = [u \in People |-> u] /\ breakGlass = [u \in People |-> None]
  /\ disk = [workspaces |-> workspace, documents |-> document,
             current |-> [u \in People |-> None]]
  /\ answered = [members |-> [w \in Workspaces |-> Unmade.members],
                 acl |-> [d \in Documents |-> NoAcl]]
  /\ unsaved = {}
  /\ room \in Rooms

-----------------------------------------------------------------------------
(* The check (acl.rs). *)

LevelIn(w, u) == workspace[w].members[u]

Lower(a, b) == IF a < b THEN a ELSE b

\* Mutant: the tightening alone decides.
HeldOnByTightening(d, u) ==
  IF document[d].acl = NoAcl THEN LevelIn(document[d].ws, u) ELSE document[d].acl[u]

\* held: the level in the workspace, capped by the tightening.
HeldOn(d, u) == Lower(document[d].acl[u], LevelIn(document[d].ws, u))

\* check, as the person's identity() with its break-glass
Passes(u, d, need) ==
  /\ document[d].known /\ workspace[document[d].ws].made
  /\ (breakGlass[u] = document[d].ws \/ HeldOn(d, u) >= need)

IsAdmin(u) == role[u] = "admin"

\* Mutant: a personal workspace is managed like any other.
MayManageAny(u, w) == workspace[w].made /\ (LevelIn(w, u) = Owner \/ IsAdmin(u))

\* require_workspace_owner
MayManage(u, w) ==
  /\ workspace[w].made /\ w \in Shared
  /\ LevelIn(w, u) = Owner \/ IsAdmin(u)

\* set_document_acl's conditions: no entry above the member's own level.
Tightens(d, acl) == \A u \in People : acl[u] = NoAcl[u] \/ acl[u] <= LevelIn(document[d].ws, u)

-----------------------------------------------------------------------------
(* Writes to the database, which may fail. *)

Less(what) == [room EXCEPT ![what] = @ - 1]

\* A write whose failure is only traced: what was to be saved stays unsaved.
Saves(thing, written, budget) ==
  \/ disk' = written /\ unsaved' = unsaved \ {thing} /\ room' = budget
  \/ /\ budget.faults > 0 /\ room' = [budget EXCEPT !.faults = @ - 1]
     /\ unsaved' = unsaved \union {thing} /\ UNCHANGED disk

WithWorkspace(w, rec) == [disk EXCEPT !.workspaces[w] = rec]
WithDocument(d, rec) == [disk EXCEPT !.documents[d] = rec]

-----------------------------------------------------------------------------
(* People come, and Core starts again. *)

\* Core::new with a database: everything but people's state.
Restart ==
  /\ room.restarts > 0 /\ room' = Less("restarts")
  /\ workspace' = disk.workspaces /\ document' = disk.documents
  /\ open' = {f \in Files : disk.documents[f].known}
  /\ seen' = {} /\ at' = [u \in People |-> u] /\ breakGlass' = [u \in People |-> None]
  /\ UNCHANGED <<role, disk, answered, unsaved>>

\* fresh_user_state: the personal workspace, made when there is none, and the
\* workspace one was last in while one may still be in it.
FreshUser(u) ==
  /\ u \notin seen /\ seen' = seen \union {u} /\ room.visits > 0
  /\ \/ workspace[u].made /\ room' = Less("visits") /\ UNCHANGED <<workspace, disk, answered, unsaved>>
     \/ /\ ~workspace[u].made
        /\ workspace' = [workspace EXCEPT ![u] = Personal(u)]
        /\ answered' = [answered EXCEPT !.members[u] = OwnedBy(u)]
        /\ Saves(u, WithWorkspace(u, Personal(u)), Less("visits"))
  /\ at' = [at EXCEPT ![u] = LET last == disk.current[u]
                             IN  IF last /= None /\ workspace'[last].members[u] > Nothing
                                 THEN last ELSE u]
  /\ breakGlass' = [breakGlass EXCEPT ![u] = None]
  /\ UNCHANGED <<role, document, open>>

\* set_roles, of which Core learns with the next caller.
ChangeRole(u, r) ==
  /\ role' = [role EXCEPT ![u] = r] /\ role' /= role
  /\ room.changes > 0 /\ room' = Less("changes")
  /\ UNCHANGED <<memory, disk, answered, unsaved>>

-----------------------------------------------------------------------------
(* Workspaces. *)

\* The database takes a new workspace before memory does, or nothing happens.
CreateWorkspace(u, w) ==
  /\ u \in seen /\ IsAdmin(u) /\ w \in Shared /\ ~workspace[w].made
  /\ workspace' = [workspace EXCEPT ![w] = SharedBy(u)]
  /\ disk' = WithWorkspace(w, SharedBy(u))
  /\ answered' = [answered EXCEPT !.members[w] = OwnedBy(u)]
  /\ UNCHANGED <<role, document, open, seen, at, breakGlass, unsaved, room>>

\* Mutant: the change is not persisted.
SetWorkspaceInMemory(w, rec) ==
  /\ workspace' = [workspace EXCEPT ![w] = rec]
  /\ room.changes > 0 /\ room' = Less("changes")
  /\ answered' = [answered EXCEPT !.members[w] = rec.members]
  /\ UNCHANGED <<role, document, open, seen, at, breakGlass, disk, unsaved>>

\* The tail of SetMember, RemoveMember and SetAgentWrites: memory, then
\* persist_workspace, whose failure is only traced.
SetWorkspace(w, rec) ==
  /\ workspace' = [workspace EXCEPT ![w] = rec]
  /\ room.changes > 0 /\ Saves(w, WithWorkspace(w, rec), Less("changes"))
  /\ answered' = [answered EXCEPT !.members[w] = rec.members]
  /\ UNCHANGED <<role, document, open, seen, at, breakGlass>>

SetMember(u, w, v, level) ==
  /\ u \in seen /\ MayManage(u, w) /\ level /= LevelIn(w, v)
  /\ SetWorkspace(w, [workspace[w] EXCEPT !.members[v] = level])

RemoveMember(u, w, v) ==
  /\ u \in seen /\ MayManage(u, w) /\ LevelIn(w, v) > Nothing
  /\ SetWorkspace(w, [workspace[w] EXCEPT !.members[v] = Nothing])

SetAgentWrites(u, w, mode) ==
  /\ u \in seen /\ MayManage(u, w) /\ mode /= workspace[w].agentWrites
  /\ SetWorkspace(w, [workspace[w] EXCEPT !.agentWrites = mode])

\* Mutant: a member's way in leaves an older break-glass standing.
SelectWorkspaceKeepsGlass(u, w) ==
  /\ u \in seen /\ workspace[w].made /\ room.visits > 0
  /\ \/ LevelIn(w, u) > Nothing /\ UNCHANGED breakGlass
     \/ /\ LevelIn(w, u) = Nothing /\ IsAdmin(u)
        /\ breakGlass' = [breakGlass EXCEPT ![u] = w]
  /\ at' = [at EXCEPT ![u] = w]
  /\ disk' = [disk EXCEPT !.current[u] = w] /\ room' = Less("visits")
  /\ UNCHANGED <<role, workspace, document, open, seen, answered, unsaved>>

\* A member goes and any break-glass ends; an administrator goes with a reason.
\* That the current workspace could not be written is only traced.
SelectWorkspace(u, w) ==
  /\ u \in seen /\ workspace[w].made /\ room.visits > 0
  /\ \/ LevelIn(w, u) > Nothing /\ breakGlass' = [breakGlass EXCEPT ![u] = None]
     \/ /\ LevelIn(w, u) = Nothing /\ IsAdmin(u)
        /\ breakGlass' = [breakGlass EXCEPT ![u] = w]
  /\ at' = [at EXCEPT ![u] = w]
  /\ \/ at[u] /= w /\ disk' = [disk EXCEPT !.current[u] = w] /\ room' = Less("visits")
     \/ /\ at[u] /= w /\ room.faults > 0 /\ UNCHANGED disk
        /\ room' = [Less("visits") EXCEPT !.faults = @ - 1]
     \/ at[u] = w /\ room' = Less("visits") /\ UNCHANGED disk
  /\ UNCHANGED <<role, workspace, document, open, seen, answered, unsaved>>

-----------------------------------------------------------------------------
(* Documents. *)

\* doc_for: what every request that names a harness does before its check.
\* A workspace without a recorded document for the harness gets a new one; a
\* recorded one the store does not have is registered again, untightened.
DocFor(u, h) ==
  LET d == <<at[u], h>>
      fresh == Meta(at[u], NoAcl)
  IN  /\ u \in seen
      /\ open' = open \union {d}
      /\ document' = [document EXCEPT ![d] = fresh]
      /\ \/ /\ disk.documents[d].known /\ d \notin open
            /\ UNCHANGED <<disk, unsaved, room, answered>>
         \/ /\ ~disk.documents[d].known
            /\ answered' = [answered EXCEPT !.acl[d] = NoAcl]
            /\ Saves(d, WithDocument(d, fresh), room)
      /\ UNCHANGED <<role, workspace, seen, at, breakGlass>>

\* produce_artifact: the export becomes the document of its content, in the
\* workspace of whoever exported it, as a file of that workspace.
ProduceArtifact(u, h, f) ==
  /\ u \in seen /\ <<at[u], h>> \in open
  /\ Passes(u, <<at[u], h>>, View)
  /\ open' = open \union {f}
  /\ document' = [document EXCEPT ![f] = Meta(at[u], NoAcl)]
  /\ answered' = [answered EXCEPT !.acl[f] = NoAcl]
  /\ Saves(f, WithDocument(f, Meta(at[u], NoAcl)), room)
  /\ UNCHANGED <<role, workspace, seen, at, breakGlass>>

\* Mutant: the record keeps the list it had.
SetDocumentAccessInMemory(u, d, acl) ==
  /\ u \in seen /\ document[d].known /\ (Passes(u, d, Owner) \/ IsAdmin(u))
  /\ Tightens(d, acl)
  /\ document' = [document EXCEPT ![d].acl = acl]
  /\ room.changes > 0 /\ room' = Less("changes")
  /\ answered' = [answered EXCEPT !.acl[d] = acl]
  /\ UNCHANGED <<role, workspace, open, seen, at, breakGlass, disk, unsaved>>

\* SetDocumentAccess; None of the code is NoAcl.
SetDocumentAccess(u, d, acl) ==
  /\ u \in seen /\ document[d].known /\ (Passes(u, d, Owner) \/ IsAdmin(u))
  /\ Tightens(d, acl)
  /\ document' = [document EXCEPT ![d].acl = acl]
  /\ answered' = [answered EXCEPT !.acl[d] = acl]
  /\ room.changes > 0
  /\ \/ ~disk.documents[d].known /\ room' = Less("changes") /\ UNCHANGED <<disk, unsaved>>
     \/ /\ disk.documents[d].known
        /\ Saves(d, WithDocument(d, [disk.documents[d] EXCEPT !.acl = acl]), Less("changes"))
  /\ UNCHANGED <<role, workspace, open, seen, at, breakGlass>>

-----------------------------------------------------------------------------
AccessNext ==
  \/ Restart
  \/ \E u \in People :
       \/ FreshUser(u)
       \/ \E r \in MemberRoles : ChangeRole(u, r)
       \/ \E w \in Workspaces :
            \/ CreateWorkspace(u, w)
            \/ \E v \in People :
                 \/ \E level \in Given : SetMember(u, w, v, level)
                 \/ RemoveMember(u, w, v)
            \/ \E mode \in AgentWrites : SetAgentWrites(u, w, mode)
       \/ \E w \in Workspaces : SelectWorkspace(u, w)
       \/ \E h \in Harnesses : DocFor(u, h) \/ \E f \in Files : ProduceArtifact(u, h, f)
       \/ \E d \in Documents, acl \in Tightenings \union {NoAcl} : SetDocumentAccess(u, d, acl)

AccessSpec == AccessInit /\ [][AccessNext]_accessVars

-----------------------------------------------------------------------------
(* Properties. *)

Wide(u, d) == breakGlass[u] = document[d].ws

\* Nobody passes the check on a document beyond what its workspace's members
\* were last answered to be, whatever was restarted, selected, exported or
\* tightened in between - but for a break-glass visit to that workspace, and
\* for a workspace whose last change the database did not take.
MembersDecide ==
  \A u \in seen, d \in Documents, need \in Level :
    Passes(u, d, need) =>
      \/ answered.members[document[d].ws][u] >= need
      \/ Wide(u, d) \/ document[d].ws \in unsaved

\* A personal workspace is its owner's alone: nobody else passes the check on
\* a document of it, but an administrator who went in with a reason.
PersonalIsPrivate ==
  \A u \in seen, d \in Documents :
    Passes(u, d, View) /\ document[d].ws \in People => document[d].ws = u \/ Wide(u, d)

\* A break-glass lasts no longer than the visit: it is for the workspace the
\* administrator is in.
GlassIsForTheVisit == \A u \in seen : breakGlass[u] \in {None, at[u]}

\* What the database would start Core with is what was answered: members and
\* tightenings alike, but for what it failed to take.
DiskIsAnswered ==
  /\ \A w \in Workspaces : w \notin unsaved =>
       disk.workspaces[w].members = answered.members[w]
  /\ \A d \in Documents : d \notin unsaved /\ disk.documents[d].known =>
       disk.documents[d].acl = answered.acl[d]

\* Who may do what is what was answered (acl.rs, lib.rs), the first three of
\* these together.
AccessIsDecided == MembersDecide /\ PersonalIsPrivate /\ GlassIsForTheVisit

\* acl.rs: what one holds on a document is "capped by the document's own
\* tightening when it has one".
TighteningHolds ==
  \A u \in seen, d \in Documents, need \in Level :
    Passes(u, d, need) /\ d \notin unsaved => answered.acl[d][u] >= need \/ Wide(u, d)
=============================================================================
