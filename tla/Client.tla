------------------------------- MODULE Client -------------------------------
(* The egui client's surfaces (localspace-client lib.rs, surface.rs, the    *)
(* surface part of ui.rs): modules fetched from Core and compiled beside    *)
(* the window, the document handed to them, the edits they send back, and   *)
(* what breaks one down and starts it again.                                *)
(*                                                                          *)
(* A key is a harness's one view. A document is a number: 0 is what a guest *)
(* draws before it was handed any, every edit makes a new one. Core answers *)
(* requests in order (transport.rs); what arrives is taken in one message   *)
(* at a time. Meshes, textures, input translation and widget views are left *)
(* out.                                                                     *)
EXTENDS Naturals, Sequences, FiniteSets

CONSTANTS Keys,        \* the surfaces there are
          Foreign,      \* those built against another shape schema
          MaxEdits,     \* bounds of the instance: edits,
          MaxAsked      \* and requests after which no surface is started

VARIABLES toCore,      \* requests Core has not taken: Seq of [id, kind, key, doc]
          arrived,      \* what the window has not taken in: the same
          boards,       \* Core's documents: key -> doc
          surfaces,     \* App::surfaces: key -> OpenSurface
          loading,      \* App::surface_loads
          wanted,       \* last_surface_request
          unsaved,      \* dirty_since_commit
          writing,      \* pending_doc_write: the id, 0 for none
          lastId,       \* the backend's next_id
          edits,        \* documents made so far
          refused       \* the keys whose last write Core refused

clientVars == <<toCore, arrived, boards, surfaces, loading, wanted, unsaved, writing,
                lastId, edits, refused>>

NoRunner == [module |-> "none", holds |-> 0, last |-> 0, pending |-> 0,
             received |-> FALSE, dirty |-> FALSE]
Opened == [runner |-> NoRunner, failed |-> FALSE, spent |-> FALSE]
Runs(key) == key \in DOMAIN surfaces /\ surfaces[key].runner # NoRunner /\ ~surfaces[key].failed

Letter(id, kind, key, doc) == [id |-> id, kind |-> kind, key |-> key, doc |-> doc]

Sends(kind, key, doc) ==
    /\ lastId' = lastId + 1
    /\ toCore' = Append(toCore, Letter(lastId + 1, kind, key, doc))

\* request_surface
RequestSurface(key) ==
    /\ lastId < MaxAsked
    /\ wanted' = key
    /\ Sends("module", key, 0)

\* show_egui_surface, of one that is not open yet.
Open(key) ==
    /\ key \notin DOMAIN surfaces
    /\ surfaces' = [k \in DOMAIN surfaces \cup {key} |->
                      IF k = key THEN Opened ELSE surfaces[k]]
    /\ RequestSurface(key)
    /\ UNCHANGED <<arrived, boards, loading, unsaved, writing, edits, refused>>

\* SurfaceRunner::load
Loaded(module) == [NoRunner EXCEPT !.module = module, !.dirty = TRUE]

\* A plausible slip: the new surface waits for the next change.
FinishLoadUnasked(load, works) ==
    /\ load \in loading
    /\ loading' = loading \ {load}
    /\ surfaces' = [surfaces EXCEPT ![load.key] =
                      IF works THEN [@ EXCEPT !.runner = Loaded(load.module), !.failed = FALSE]
                      ELSE [@ EXCEPT !.failed = TRUE]]
    /\ UNCHANGED <<toCore, lastId, arrived, boards, wanted, unsaved, writing, edits, refused>>

\* poll_surface_loads, finish_surface_load: it starts empty, so it is given
\* the document.
FinishLoad(load, works) ==
    /\ load \in loading
    /\ loading' = loading \ {load}
    /\ surfaces' = [surfaces EXCEPT ![load.key] =
                      IF works THEN [@ EXCEPT !.runner = Loaded(load.module), !.failed = FALSE]
                      ELSE [@ EXCEPT !.failed = TRUE]]
    /\ IF works THEN Sends("json", load.key, 0) ELSE UNCHANGED <<toCore, lastId>>
    /\ UNCHANGED <<arrived, boards, wanted, unsaved, writing, edits, refused>>

\* SurfaceRunner::set_doc: only what the guest does not hold.
SetDoc(runner, doc) ==
    IF runner = NoRunner THEN runner
    ELSE [runner EXCEPT !.received = TRUE,
                        !.last = doc,
                        !.pending = IF runner.last = doc THEN @ ELSE doc,
                        !.dirty = @ \/ runner.last # doc]

\* SurfaceRunner::show, entered because something is waiting or there is
\* input. Zero for an edit is none.
Entered(runner, edit) ==
    LET given == IF runner.pending # 0 THEN runner.pending ELSE runner.holds
    IN  [runner EXCEPT !.holds = IF edit # 0 THEN edit ELSE given,
                       !.pending = 0, !.dirty = FALSE,
                       !.last = IF edit # 0 /\ runner.received THEN edit ELSE @]

Frame(key, edited) ==
    /\ Runs(key)
    /\ surfaces[key].runner.dirty \/ edited
    /\ edited => edits < MaxEdits
    /\ LET runner == surfaces[key].runner
           edit == IF edited THEN edits + 1 ELSE 0
       IN  /\ surfaces' = [surfaces EXCEPT ![key].runner = Entered(@, edit)]
           /\ edits' = IF edited THEN edits + 1 ELSE edits
           /\ IF edited /\ runner.received
              THEN /\ Sends("write", key, edit)
                   /\ unsaved' = TRUE
                   /\ writing' = lastId + 1
              ELSE UNCHANGED <<toCore, lastId, unsaved, writing>>
    /\ UNCHANGED <<arrived, boards, loading, wanted, refused>>

\* show fails: over its memory budget it is started again once on its own
\* account (Restarts::automatic); otherwise the reason is shown.
Break(key, overBudget) ==
    /\ Runs(key)
    /\ LET again == overBudget /\ ~surfaces[key].spent
       IN  /\ surfaces' = [surfaces EXCEPT ![key] =
                             [runner |-> NoRunner, failed |-> ~again, spent |-> @.spent \/ again]]
           /\ IF again THEN RequestSurface(key)
              ELSE UNCHANGED <<toCore, lastId, wanted>>
    /\ UNCHANGED <<arrived, boards, loading, unsaved, writing, edits, refused>>

\* The cooldown runs out.
Cool(key) ==
    /\ key \in DOMAIN surfaces /\ surfaces[key].spent
    /\ surfaces' = [surfaces EXCEPT ![key].spent = FALSE]
    /\ UNCHANGED <<toCore, arrived, boards, loading, wanted, unsaved, writing, lastId,
                   edits, refused>>

\* "Restart surface"
RestartSurface(key) ==
    /\ key \in DOMAIN surfaces /\ surfaces[key].failed
    /\ surfaces' = [surfaces EXCEPT ![key] = [Opened EXCEPT !.spent = TRUE]]
    /\ RequestSurface(key)
    /\ UNCHANGED <<arrived, boards, loading, unsaved, writing, edits, refused>>

-----------------------------------------------------------------------------
(* What arrives: apply_response and apply_event.                            *)

\* A plausible slip: any answer is the edit's.
SavedByAny(m) ==
    /\ writing' = IF m.id # 0 THEN 0 ELSE writing
    /\ unsaved' = (unsaved /\ m.id = 0)

\* A surface edit is unsaved until Core has answered for it.
Saved(m) ==
    /\ writing' = IF writing = m.id THEN 0 ELSE writing
    /\ unsaved' = (unsaved /\ (writing = 0 \/ writing # m.id))

\* R::SurfaceModule: it is taken for the one asked for last.
TakeModule(m) ==
    /\ m.kind = "module"
    /\ IF m.key \in Foreign
       THEN /\ surfaces' = [surfaces EXCEPT ![wanted].failed = TRUE]
            /\ UNCHANGED loading
       ELSE /\ loading' = loading \cup {[key |-> wanted, module |-> m.key, nr |-> m.id]}
            /\ UNCHANGED surfaces
    /\ UNCHANGED <<toCore, lastId>>

\* R::DocJson: for every surface of the harness.
TakeJson(m) ==
    /\ m.kind = "json"
    /\ surfaces' = [surfaces EXCEPT ![m.key].runner = SetDoc(@, m.doc)]
    /\ UNCHANGED <<loading, toCore, lastId>>

\* E::DocChanged: every open surface's document is asked for.
TakeChange(m) ==
    /\ m.kind = "changed"
    /\ \E order \in [1..Cardinality(DOMAIN surfaces) -> DOMAIN surfaces] :
          /\ \A k \in DOMAIN surfaces : \E i \in DOMAIN order : order[i] = k
          /\ toCore' = toCore \o [i \in DOMAIN order |->
                                     Letter(lastId + i, "json", order[i], 0)]
    /\ lastId' = lastId + Cardinality(DOMAIN surfaces)
    /\ UNCHANGED <<surfaces, loading>>

\* Any other answer: only the message on the screen differs.
TakeOther(m) ==
    /\ m.kind \in {"done", "error"}
    /\ UNCHANGED <<surfaces, loading, toCore, lastId>>

Drain ==
    /\ arrived # <<>>
    /\ arrived' = Tail(arrived)
    /\ Saved(Head(arrived))
    /\ \/ TakeModule(Head(arrived))
       \/ TakeJson(Head(arrived))
       \/ TakeChange(Head(arrived))
       \/ TakeOther(Head(arrived))
    /\ UNCHANGED <<boards, wanted, edits, refused>>

-----------------------------------------------------------------------------
(* Core, as far as a surface sees it.                                       *)

Answers(m, kind, doc) == Append(arrived, Letter(m.id, kind, m.key, doc))

\* R::GetSurfaceModule: or there is no such harness any more.
CoreModule(m) ==
    /\ m.kind = "module"
    /\ arrived' \in {Answers(m, "module", 0), Answers(m, "error", 0)}
    /\ UNCHANGED <<boards, refused>>

\* R::GetDocJson
CoreJson(m) ==
    /\ m.kind = "json"
    /\ arrived' = Answers(m, "json", boards[m.key])
    /\ UNCHANGED <<boards, refused>>

\* R::HarnessEvent with the whole document: taken, and everyone told, or
\* refused: it is too long, or the caller may not write.
CoreWrite(m) ==
    /\ m.kind = "write"
    /\ \/ /\ boards' = [boards EXCEPT ![m.key] = m.doc]
          /\ arrived' = arrived \o <<Letter(0, "changed", m.key, 0), Letter(m.id, "done", m.key, 0)>>
          /\ refused' = refused \ {m.key}
       \/ /\ arrived' = Answers(m, "error", 0)
          /\ refused' = refused \cup {m.key}
          /\ UNCHANGED boards

Core ==
    /\ toCore # <<>>
    /\ toCore' = Tail(toCore)
    /\ CoreModule(Head(toCore)) \/ CoreJson(Head(toCore)) \/ CoreWrite(Head(toCore))
    /\ UNCHANGED <<surfaces, loading, wanted, unsaved, writing, lastId, edits>>

\* Someone else, or a tool, changes a document.
OtherEdits(key) ==
    /\ edits < MaxEdits
    /\ edits' = edits + 1
    /\ boards' = [boards EXCEPT ![key] = edits + 1]
    /\ arrived' = Append(arrived, Letter(0, "changed", key, 0))
    /\ refused' = refused \ {key}
    /\ UNCHANGED <<toCore, surfaces, loading, wanted, unsaved, writing, lastId>>

-----------------------------------------------------------------------------
ClientInit ==
    /\ toCore = <<>> /\ arrived = <<>>
    /\ boards = [k \in Keys |-> 1] /\ edits = 1
    /\ surfaces = [k \in {} |-> Opened] /\ loading = {}
    /\ wanted = "none" /\ unsaved = FALSE /\ writing = 0 /\ lastId = 0
    /\ refused = {}

ClientNext ==
    \/ \E key \in Keys : Open(key)
    \/ \E load \in loading, works \in BOOLEAN : FinishLoad(load, works)
    \/ \E key \in Keys, edited \in BOOLEAN : Frame(key, edited)
    \/ \E key \in Keys, overBudget \in BOOLEAN : Break(key, overBudget)
    \/ \E key \in Keys : Cool(key)
    \/ \E key \in Keys : RestartSurface(key)
    \/ Drain
    \/ Core
    \/ \E key \in Keys : OtherEdits(key)

ClientSpec == ClientInit /\ [][ClientNext]_clientVars

(* Once nothing is under way, every surface on the screen shows the         *)
(* document Core holds, whoever edited it last and however often the        *)
(* surface was started again, unless Core refused what it wrote since       *)
(* (lib.rs finish_surface_load and DocChanged, SurfaceRunner::set_doc and   *)
(* show, which suppress the echo of the surface's own edit).                *)
SurfacesSettle ==
    toCore = <<>> /\ arrived = <<>> /\ loading = {} =>
        \A key \in DOMAIN surfaces \ refused :
            Runs(key) /\ ~surfaces[key].runner.dirty => surfaces[key].runner.holds = boards[key]

(* While the header says a board is saved, Core has answered for every edit *)
(* of every surface, though only the last edit's id is kept                 *)
(* (pending_doc_write, dirty_since_commit).                                 *)
SavedIsAnswered ==
    ~unsaved => \A m \in {toCore[i] : i \in DOMAIN toCore} : m.kind # "write"

(* What a window shows of a board, and says of it, is Core's (localspace-    *)
(* client lib.rs), the two above together.                                  *)
WindowIsTrue == SurfacesSettle /\ SavedIsAnswered
============================================================================
