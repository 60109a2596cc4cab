------------------------------- MODULE Engine -------------------------------
(***************************************************************************)
(* The inference engine as a supervised process: crates/localspace-core/   *)
(* src/engine.rs, with the requests of lib.rs that load, unload, delete    *)
(* and select a model.                                                     *)
(*                                                                         *)
(* Core holds at most one engine.  Each start of one has a thread of its   *)
(* own, the supervisor, which outlives the engine Core lets go of: it ends *)
(* only when it next looks and finds the status Stopped.  The two meet in  *)
(* three places, each with a lock of its own: the status, the child        *)
(* process and the router's chat worker.  A stop takes the three one after *)
(* the other, and so does the supervisor.                                  *)
(***************************************************************************)
EXTENDS Integers, Sequences, FiniteSets, FiniteSetsExt

CONSTANTS
  Models,       \* what can be loaded
  Loads,        \* the starts that are followed at a time: 1 .. Loads
  Rooms,        \* the layers there may be room for on the card
  MaxStarts,    \* STARTS: the starts look_after_load asks for, the first included
  Restarts,     \* RESTARTS
  Window,       \* RESTART_WINDOW, in ticks
  LoadTimeout,  \* LOAD_TIMEOUT, in ticks
  None

ASSUME BoundsAssumption ==
  /\ {Loads, MaxStarts, Restarts, Window, LoadTimeout} \subseteq Nat \ {0}
  /\ Rooms \subseteq Nat /\ \E most \in Rooms : \A room \in Rooms : room <= most
ASSUME NamesAssumption == None \notin Models

VARIABLES
  s,          \* each start: the engine, its process and its supervisor
  core,       \* Core's thread: the engine held and where the request is
  router,     \* router.chat: the start that is its worker, or the endpoint of a name
  cap,        \* layer_caps: what was learnt of each model
  installed   \* the models that are here

vars == <<s, core, router, cap, installed>>

-----------------------------------------------------------------------------
Slots == 1 .. Loads
Statuses == {"Unused", "Loading", "Ready", "Failed", "Stopped"}
Children == {"none", "loading", "up", "dead"}
Steps == {"done", "wait", "ask", "timedout", "gaveup", "again", "failing", "loaded",
          "warm", "publish", "ready", "watch", "crashed", "restarting", "respawn",
          "giveup", "unroute"}
Requests == {"idle", "kill", "forget", "drop", "start", "delete", "gone", "ended"}

Unused == [model |-> None, status |-> "Unused", pc |-> "done", child |-> "none",
           age |-> 0, restarts |-> <<>>, room |-> 0, layers |-> 0, starts |-> 0,
           looks |-> FALSE, bare |-> FALSE]

Idle == [pc |-> "idle", held |-> 0, next |-> None, then |-> "idle"]

Alive(e) == s[e].child \in {"loading", "up"}
Healthy(e) == s[e].child = "up"
StartingOrRunning(e) == s[e].status \in {"Loading", "Ready"}

\* What the shell is told, by the supervisor and by Core.
StateOf(status) == [running |-> status = "Ready", loading |-> status = "Loading"]
State(e) == StateOf(s[e].status)

\* fit: never more layers than the room on the card, nor than what was learnt.
Unlearnt == Max(Rooms)
Fit(room, learnt) == IF learnt < room THEN learnt ELSE room

Init ==
  /\ s = [e \in Slots |-> Unused]
  /\ core = Idle
  /\ router = None
  /\ cap = [m \in Models |-> Unlearnt]
  /\ installed = Models

Becomes(e, r) == s' = [s EXCEPT ![e] = r]
Goes(e, pc) == Becomes(e, [s[e] EXCEPT !.pc = pc])

\* The supervisor returns, and its plan with it; what it shares stays, and (for the
\* properties) when it restarted the process.
Returns(e, status, child) ==
  Becomes(e, [Unused EXCEPT !.model = s[e].model, !.bare = s[e].bare, !.status = status,
                            !.child = child, !.restarts = s[e].restarts])
Aside == <<cap, installed>>

-----------------------------------------------------------------------------
(* Core's thread.                                                          *)

\* The first act of Engine::stop on the engine that is held, if there is one.
StopBegins(then, m) ==
  IF core.held = 0
  THEN core' = [core EXCEPT !.pc = then, !.next = m] /\ UNCHANGED s
  ELSE /\ Becomes(core.held, [s[core.held] EXCEPT !.status = "Stopped"])
       /\ core' = [core EXCEPT !.pc = "kill", !.next = m, !.then = then]

\* Nothing is left of an earlier start.
Free(e) == s[e].pc = "done" /\ s[e].child = "none" /\ core.held # e /\ router # e

\* load_model: what starts or runs already is joined, unless it runs without its
\* picture file; what is not here is refused before anything is stopped.
Joined(m) ==
  /\ core.held # 0
  /\ s[core.held].model = m
  /\ StartingOrRunning(core.held)
  /\ ~(State(core.held).running /\ s[core.held].bare)

LoadModel(m) ==
  /\ core.pc = "idle" /\ \E e \in Slots : Free(e)
  /\ ~Joined(m) /\ m \in installed
  /\ StopBegins("start", m)
  /\ UNCHANGED <<router, Aside>>

UnloadModel ==
  /\ core.pc = "idle" /\ core.held # 0
  /\ StopBegins("idle", None)
  /\ UNCHANGED <<router, Aside>>

\* delete_model: one that is in use is stopped first.
DeleteModel(m) ==
  /\ core.pc = "idle"
  /\ IF core.held # 0 /\ s[core.held].model = m THEN StopBegins("delete", m)
     ELSE core' = [core EXCEPT !.pc = "delete", !.next = m] /\ UNCHANGED s
  /\ UNCHANGED <<router, Aside>>

\* Engine::stop, the rest of it: the process, then the router, which is asked for
\* the model's name and not for whose worker it holds.
StopKills ==
  /\ core.pc = "kill"
  /\ Becomes(core.held, [s[core.held] EXCEPT !.child = "none"])
  /\ core' = [core EXCEPT !.pc = "forget"]
  /\ UNCHANGED <<router, Aside>>

Named(w) == IF w \in Slots THEN s[w].model ELSE w

StopForgets ==
  /\ core.pc = "forget"
  /\ router' = IF Named(router) = s[core.held].model THEN None ELSE router
  /\ core' = [core EXCEPT !.pc = "drop"]
  /\ UNCHANGED <<s, Aside>>

\* The engine goes out of scope, and Drop takes the process once more. What the
\* stop was for comes next.
Drops ==
  /\ core.pc = "drop"
  /\ Becomes(core.held, [s[core.held] EXCEPT !.child = "none"])
  /\ core' = [core EXCEPT !.pc = core.then, !.held = 0]
  /\ UNCHANGED <<router, Aside>>

\* load_model from the look at the computer on: the plan, the words on thinking
\* and sampling, Engine::start. A model whose plan has nothing on the card is not
\* looked at after its load.
Starts ==
  /\ core.pc = "start"
  /\ \E e \in Slots, room \in Rooms, bare \in BOOLEAN :
       /\ Free(e) /\ \A d \in Slots : Free(d) => e <= d
       /\ LET layers == Fit(room, cap[core.next])
          IN Becomes(e, [Unused EXCEPT !.model = core.next, !.status = "Loading", !.pc = "wait",
                           !.child = "loading", !.room = room, !.layers = layers,
                           !.starts = 1, !.looks = layers > 0, !.bare = bare])
       /\ core' = [Idle EXCEPT !.held = e]
  /\ UNCHANGED <<router, Aside>>

\* ... and when the process cannot be started.
StartFails ==
  /\ core.pc = "start"
  /\ core' = Idle
  /\ UNCHANGED <<s, router, Aside>>

\* delete_model once nothing of it runs: the files, and what was learnt.
Deletes ==
  /\ core.pc = "delete"
  /\ core' = [core EXCEPT !.pc = "idle", !.next = None]
  /\ \/ /\ installed' = installed \ {core.next}
        /\ cap' = [cap EXCEPT ![core.next] = Unlearnt]
     \/ UNCHANGED <<installed, cap>>
  /\ UNCHANGED <<s, router>>

\* SelectModel: an endpoint takes the router's place, the engine goes on.
SelectModel(m) ==
  /\ core.pc = "idle"
  /\ router' = m
  /\ UNCHANGED <<s, core, Aside>>

\* Core goes away: Drop takes the process, and says nothing to the supervisor,
\* whose thread goes on until the program has ended.
Shutdown ==
  /\ core.pc = "idle"
  /\ core' = [core EXCEPT !.pc = "gone"]
  /\ IF core.held = 0 THEN UNCHANGED s
     ELSE Becomes(core.held, [s[core.held] EXCEPT !.child = "none"])
  /\ UNCHANGED <<router, Aside>>

\* ... and the processes with it, where the system has a job for them (Windows).
ProcessEnds ==
  /\ core.pc = "gone"
  /\ core' = [core EXCEPT !.pc = "ended"]
  /\ \E job \in BOOLEAN :
       s' = [e \in Slots |-> [s[e] EXCEPT !.pc = "done", !.child = IF job THEN "none" ELSE @]]
  /\ UNCHANGED <<router, Aside>>

-----------------------------------------------------------------------------
(* The supervisor of one start.                                            *)

At(e, pc) == s[e].pc = pc
Elsewhere == <<core, router, Aside>>

\* The wait for an answer: stopped, dead, or one question about its health.
Polls(e) ==
  /\ At(e, "wait")
  /\ IF s[e].status = "Stopped" THEN Returns(e, "Stopped", s[e].child)
     ELSE Goes(e, IF s[e].child = "dead" THEN "gaveup" ELSE "ask")
  /\ UNCHANGED Elsewhere

\* The wait without its timeout.
AsksForEver(e) ==
  /\ At(e, "ask")
  /\ Goes(e, IF Healthy(e) THEN "loaded" ELSE "wait")
  /\ UNCHANGED Elsewhere

Asks(e) ==
  /\ At(e, "ask")
  /\ \/ Healthy(e) /\ Goes(e, "loaded")
     \/ /\ ~Healthy(e)
        /\ IF s[e].age > LoadTimeout
           THEN Becomes(e, [s[e] EXCEPT !.status = "Failed", !.pc = "timedout"])
           ELSE Goes(e, "wait")
  /\ UNCHANGED Elsewhere

TimesOut(e) ==
  /\ At(e, "timedout")
  /\ Returns(e, s[e].status, "none")
  /\ UNCHANGED Elsewhere

\* A look that plans again whether or not there is anything to give back.
LooksRegardless(e, off, then) ==
  IF ~s[e].looks \/ s[e].starts >= MaxStarts
  THEN Goes(e, then) /\ UNCHANGED cap
  ELSE LET learnt == s[e].layers - off
       IN /\ cap' = [cap EXCEPT ![s[e].model] = learnt]
          /\ Becomes(e, [s[e] EXCEPT !.layers = Fit(s[e].room, learnt), !.starts = @ + 1,
                                     !.pc = "again"])

\* look_after_load: `off` layers are given back and the rest is planned again,
\* unless there are none to give or the starts are used up.
Looks(e, off, then) ==
  IF ~s[e].looks \/ off = 0 \/ s[e].starts >= MaxStarts
  THEN Goes(e, then) /\ UNCHANGED cap
  ELSE LET learnt == s[e].layers - off
       IN /\ cap' = [cap EXCEPT ![s[e].model] = learnt]
          /\ Becomes(e, [s[e] EXCEPT !.layers = Fit(s[e].room, learnt), !.starts = @ + 1,
                                     !.pc = "again"])

\* layers_to_take_off_after_giving_up: a quarter, never fewer than two.
GivenBack(layers) == Min({layers, Max({layers \div 4, 2})})

GaveUp(e) ==
  /\ At(e, "gaveup")
  /\ Looks(e, GivenBack(s[e].layers), "failing")
  /\ UNCHANGED <<core, router, installed>>

\* It answers. Its process is looked at, if it is still there: what has spilled
\* into system memory is any number of layers.
Loaded(e) ==
  /\ At(e, "loaded")
  /\ \E off \in 0 .. s[e].layers :
       /\ s[e].child = "none" => off = 0
       /\ Looks(e, off, "warm")
  /\ UNCHANGED <<core, router, installed>>

\* A start again that does not look for a stop.
StartAgainRegardless(e) ==
  /\ At(e, "again")
  /\ \/ Becomes(e, [s[e] EXCEPT !.child = "loading", !.pc = "wait"])
     \/ Becomes(e, [s[e] EXCEPT !.child = "none", !.pc = "failing"])
  /\ UNCHANGED Elsewhere

\* start_again, under the child's lock: a stop that came meanwhile wins.
StartAgain(e) ==
  /\ At(e, "again")
  /\ IF s[e].status = "Stopped" THEN Returns(e, "Stopped", s[e].child)
     ELSE \/ Becomes(e, [s[e] EXCEPT !.child = "loading", !.pc = "wait"])
          \/ Becomes(e, [s[e] EXCEPT !.child = "none", !.pc = "failing"])
  /\ UNCHANGED Elsewhere

Fails(e) ==
  /\ At(e, "failing")
  /\ Returns(e, "Failed", s[e].child)
  /\ UNCHANGED Elsewhere

\* The warm-up is over, however it went, and the status is looked at.
WarmsUp(e) ==
  /\ At(e, "warm")
  /\ IF s[e].status = "Stopped" THEN Returns(e, "Stopped", s[e].child)
     ELSE Goes(e, "publish")
  /\ UNCHANGED Elsewhere

\* The router gets the worker, then the status is Ready.
Publishes(e) ==
  /\ At(e, "publish")
  /\ router' = e
  /\ Goes(e, "ready")
  /\ UNCHANGED <<core, Aside>>

SaysReady(e) ==
  /\ At(e, "ready")
  /\ Becomes(e, [s[e] EXCEPT !.status = "Ready", !.pc = "watch"])
  /\ UNCHANGED Elsewhere

\* A watch that waits for a stop alone.
WatchesForStops(e) ==
  /\ At(e, "watch")
  /\ s[e].status = "Stopped" /\ Returns(e, "Stopped", s[e].child)
  /\ UNCHANGED Elsewhere

\* The watch: a stop is a stop, a crash is seen, anything else goes on.
Watches(e) ==
  /\ At(e, "watch")
  /\ \/ s[e].status = "Stopped" /\ Returns(e, "Stopped", s[e].child)
     \/ s[e].status # "Stopped" /\ s[e].child = "dead" /\ Goes(e, "crashed")
  /\ UNCHANGED Elsewhere

\* The restarts that are kept: the later ones, those within the window.
Recent(e) ==
  LET ago == s[e].restarts
  IN  SubSeq(ago, 1 + Cardinality({i \in DOMAIN ago : ago[i] >= Window}), Len(ago))

\* One crash too many is forgiven.
CrashesOnceMore(e) ==
  /\ At(e, "crashed")
  /\ Becomes(e, IF Len(Recent(e)) > Restarts
                THEN [s[e] EXCEPT !.restarts = Recent(e), !.pc = "giveup"]
                ELSE [s[e] EXCEPT !.restarts = Append(Recent(e), 0), !.pc = "restarting"])
  /\ UNCHANGED Elsewhere

Crashes(e) ==
  /\ At(e, "crashed")
  /\ Becomes(e, IF Len(Recent(e)) >= Restarts
                THEN [s[e] EXCEPT !.restarts = Recent(e), !.pc = "giveup"]
                ELSE [s[e] EXCEPT !.restarts = Append(Recent(e), 0), !.pc = "restarting"])
  /\ UNCHANGED Elsewhere

Restarting(e) ==
  /\ At(e, "restarting")
  /\ Becomes(e, [s[e] EXCEPT !.status = "Loading", !.pc = "respawn"])
  /\ UNCHANGED Elsewhere

Respawns(e) ==
  /\ At(e, "respawn")
  /\ \/ Becomes(e, [s[e] EXCEPT !.child = "loading", !.pc = "wait"])
     \/ Goes(e, "giveup")
  /\ UNCHANGED Elsewhere

\* Not restarted: failed, and then nobody's worker.
GivesUp(e) ==
  /\ At(e, "giveup")
  /\ Becomes(e, [s[e] EXCEPT !.status = "Failed", !.pc = "unroute"])
  /\ UNCHANGED Elsewhere

Unroutes(e) ==
  /\ At(e, "unroute")
  /\ router' = None
  /\ Returns(e, s[e].status, s[e].child)
  /\ UNCHANGED <<core, Aside>>

Supervises(e) ==
  \/ Polls(e) \/ Asks(e) \/ TimesOut(e) \/ GaveUp(e) \/ Loaded(e) \/ StartAgain(e)
  \/ Fails(e) \/ WarmsUp(e) \/ Publishes(e) \/ SaysReady(e) \/ Watches(e)
  \/ Crashes(e) \/ Restarting(e) \/ Respawns(e) \/ GivesUp(e) \/ Unroutes(e)

-----------------------------------------------------------------------------
(* The process, which is llama-server's own affair, and time.              *)

Answers(e) ==
  /\ s[e].child = "loading"
  /\ Becomes(e, [s[e] EXCEPT !.child = "up"])
  /\ UNCHANGED Elsewhere

Dies(e) ==
  /\ Alive(e)
  /\ Becomes(e, [s[e] EXCEPT !.child = "dead"])
  /\ UNCHANGED Elsewhere

\* How long ago it was started, and each restart, as far as anyone asks.
Tick ==
  /\ s' = [e \in Slots |->
             [s[e] EXCEPT !.age = IF At(e, "done") THEN @ ELSE Min({@ + 1, LoadTimeout + 1}),
                          !.restarts = [i \in DOMAIN @ |-> Min({@[i] + 1, Window})]]]
  /\ UNCHANGED Elsewhere

CoreActs ==
  \/ \E m \in Models : LoadModel(m) \/ DeleteModel(m) \/ SelectModel(m)
  \/ UnloadModel \/ StopKills \/ StopForgets \/ Drops \/ Starts \/ StartFails \/ Deletes
  \/ Shutdown \/ ProcessEnds

Next ==
  \/ CoreActs
  \/ \E e \in Slots : Supervises(e) \/ Answers(e) \/ Dies(e)
  \/ Tick

Spec == Init /\ [][Next]_vars

\* Threads run; time passes. Nobody has to ask for anything, and a process has
\* neither to answer nor to die.
FairSpec == Spec /\ WF_vars(Tick) /\ \A e \in Slots : WF_vars(Supervises(e))

-----------------------------------------------------------------------------
\* An engine that Core has let go of, and that was never restarted after a crash,
\* has no process left, whatever its supervisor was doing when the stop came:
\* start_again looks at the status under the child's lock.
StopWins ==
  \A e \in Slots :
    s[e] # Unused /\ core.held # e /\ s[e].restarts = <<>> => s[e].child = "none"

\* Every start again of one engine asks the card for fewer layers than the start
\* before it, and there are no more than MaxStarts of them.
FewerLayersEachStart ==
  \A e \in Slots :
    s[e].starts < s'[e].starts /\ s[e].pc # "done" =>
      s'[e].layers < s[e].layers /\ s'[e].starts <= MaxStarts

\* In any ten minutes an engine that crashes is restarted no more than RESTARTS times.
RestartsAreRationed ==
  \A e \in Slots :
    Cardinality({i \in DOMAIN s[e].restarts : s[e].restarts[i] < Window}) <= Restarts

\* A start comes to an end: an engine is not shown as loading for ever, whatever
\* its process does, through starts again and restarts.
LoadSettles ==
  \A e \in Slots : State(e).loading ~> ~State(e).loading \/ core.pc = "ended"

\* The engine that Core holds is not shown as ready for ever when its process is
\* dead.
CrashIsNoticed ==
  \A e \in Slots :
    core.held = e /\ State(e).running /\ s[e].child = "dead"
      ~> ~State(e).running \/ s[e].child # "dead" \/ core.pc = "ended"

\* Starts again and restarts come to an end: each start asks for less, and
\* crashes are restarted a few times only (engine.rs): of every step, two of the
\* above together.
StartsAreRationed == [][RestartsAreRationed' /\ FewerLayersEachStart]_vars

\* What is shown of an engine comes to be true (engine.rs), the other two.
EngineSettles == LoadSettles /\ CrashIsNoticed

\* engine.rs: "a stop is a stop". Once Core has let an engine go and its supervisor
\* has run out of things to do, no process of it runs.
StopIsAStop ==
  \A e \in Slots : s[e] # Unused /\ core.held # e => ~Alive(e)

=============================================================================
