------------------------------ MODULE Manifests ------------------------------
(***************************************************************************)
(* What a package says of itself and what Core makes of it before any of   *)
(* its code runs: the gate a manifest passes (manifest.rs), the lint of    *)
(* its tools (tools.rs), the declarations of a types package (types.rs),   *)
(* what policy leaves of its capabilities (registry.rs), and the           *)
(* resolution of its dependencies (deps.rs).                               *)
(*                                                                         *)
(* A version is <<major, minor>>; the patch number behaves as the minor    *)
(* one does and is left out.  Capabilities are a set of grants: a grant    *)
(* with levels ("gpu8", "gpu24") is the set of the levels it includes, so  *)
(* that "wider" is "has a grant the other lacks".  A view is [kind,        *)
(* module], its module "index.js" in the package, another file, one        *)
(* outside it, or none.                                                    *)
(***************************************************************************)
EXTENDS Naturals, Sequences, FiniteSets, SequencesExt

CONSTANTS HostApi,         \* proto::HARNESS_API, a version
          None             \* the absent value

TOOL_TOKEN_BUDGET == 4000
MAX_SUMMARY_WORDS == 25
MAX_PARAM_PROPS == 8
MAX_FRONT_DOOR == 3
MaxLogicMb == 4096         \* what a wasm32 component can address

(* Versions and requirements: ^ ~ = and *, a bare one being a caret.       *)
AtLeast(v, w) == v[1] > w[1] \/ (v[1] = w[1] /\ v[2] >= w[2])

ApiRangeAccepts(req, v) ==
    CASE req.op = "*" -> TRUE
      [] req.op = "^" -> v[1] = req.v[1] /\ v[2] >= req.v[2]
      [] req.op = "~" -> v[1] = req.v[1] /\ v[2] = req.v[2]
      [] OTHER        -> v = req.v

(* The lint of tools.json, at install and for what the logic reports.      *)
LintTool(t) ==
    /\ t.words \in 1 .. MAX_SUMMARY_WORDS
    /\ t.props <= MAX_PARAM_PROPS
    /\ t.object
    /\ ~(t.kind = "write" /\ ~t.undoable /\ t.confirm = "never")

Lint(tools) ==
    /\ tools # << >>
    /\ IsInjective([i \in DOMAIN tools |-> tools[i].name])
    /\ \A i \in DOMAIN tools : LintTool(tools[i])
    /\ Cardinality({i \in DOMAIN tools : tools[i].front}) <= MAX_FRONT_DOOR
    /\ FoldSeq(LAMBDA t, sum : t.cost + sum, 0, tools) <= TOOL_TOKEN_BUDGET

ToolNames(tools) == {tools[i].name : i \in DOMAIN tools}

ViewOk(m, view) ==
    CASE view.kind = "egui"   -> view.module # None
      [] view.kind = "web"    -> view.module = "index.js"
      [] view.kind = "native" -> FALSE
      [] view.kind = "stream" -> m.tier = "native"
      [] OTHER                -> TRUE

(* Manifest::validate, every early return a conjunct.                      *)
Validate(m) ==
    /\ m.idOk
    /\ ApiRangeAccepts(m.api, HostApi)
    /\ m.tier = "native" => m.reason
    /\ m.tier = "wasm" => m.caps \cap {"gpu8", "gpu24", "spawn"} = {}
    /\ \A view \in m.views : ViewOk(m, view)
    /\ m.logicMb \in 1 .. MaxLogicMb /\ m.surfaceMb > 0
    /\ m.idleOk                              \* parse_duration reads it
    /\ IF m.kind = "harness" THEN m.tools # None
                             ELSE m.views = {} /\ m.tools = None
    /\ m.kind = "types" <=> m.declares # None
    /\ \A i \in DOMAIN m.deps : m.deps[i].interface \/ m.deps[i].req # None
    /\ m.netHosts # None => m.netHosts > 0 /\ m.netReason

(* types.toml: at least one type, each well formed.                        *)
TypesOk(declares) == declares # {} /\ "malformed" \notin declares

(* Policy::apply: what an organisation leaves of the declared grants.      *)
Apply(policy, caps) ==
    (caps \ IF policy.net THEN {} ELSE {"net"})
        \ IF policy.fs THEN {} ELSE {"scoped", "workspace"}

(* A slip: what the update gives up instead of what it gains.              *)
NarrowingOver(caps, prev) == prev \ caps

(* Capabilities::widening_over: the lines of the diff shown.               *)
WideningOver(caps, prev) == caps \ prev

-----------------------------------------------------------------------------
(* deps.rs.  A candidate is [id, ver, provides, deps, path, installed]; a  *)
(* dependency [id, req, optional, interface].                              *)

First(cs, Test(_)) ==
    LET hits == {i \in DOMAIN cs : Test(cs[i])}
    IN IF hits = {} THEN None
       ELSE cs[CHOOSE i \in hits : \A j \in hits : i <= j]

(* max_by_key over (installed, version): the last of the greatest.         *)
Best(cs, Test(_)) ==
    LET hits == {i \in DOMAIN cs : Test(cs[i])}
        over(i, j) == \/ cs[i].installed /\ ~cs[j].installed
                      \/ /\ cs[i].installed = cs[j].installed
                         /\ AtLeast(cs[i].ver, cs[j].ver)
                         /\ (cs[i].ver = cs[j].ver => i >= j)
    IN IF hits = {} THEN None
       ELSE cs[CHOOSE i \in hits : \A j \in hits : over(i, j)]

Chosen(s, id) == \E i \in DOMAIN s.chosen : s.chosen[i].id = id
VersionOf(s, id) == First(s.chosen, LAMBDA c : c.id = id).ver

(* A slip: what is installed is ordered, what is offered is not.           *)
TakeInstalled(s, c) ==
    [s EXCEPT !.chosen = Append(@, [id |-> c.id, ver |-> c.ver]),
              !.order = IF c.installed THEN Append(@, [id |-> c.id, ver |-> c.ver])
                        ELSE @,
              !.queue = Append(@, [id |-> c.id, ver |-> c.ver])]

Take(s, c) ==
    [s EXCEPT !.chosen = Append(@, [id |-> c.id, ver |-> c.ver]),
              !.order = IF c.installed THEN @
                        ELSE Append(@, [id |-> c.id, ver |-> c.ver]),
              !.queue = Append(@, [id |-> c.id, ver |-> c.ver])]

Failed(s, why) == [s EXCEPT !.err = why]

(* An interface: any provider, the first one bound staying bound.          *)
MeetInterface(cs, s, dep) ==
    LET p == Best(cs, LAMBDA c : dep.id \in c.provides)
    IN CASE p = None /\ dep.optional -> s
         [] p = None -> Failed(s, "no provider")
         [] \E i \in DOMAIN s.bindings : s.bindings[i][1] = dep.id -> s
         [] OTHER ->
              LET b == [s EXCEPT !.bindings = Append(@, <<dep.id, p.id>>)]
              IN IF p.installed \/ Chosen(s, p.id) THEN b ELSE Take(b, p)

(* A package: what was chosen must do; else the best that satisfies, and   *)
(* never beside an installed version that does not.                        *)
MeetPackage(cs, s, dep) ==
    LET ok(c) == c.id = dep.id /\ ApiRangeAccepts(dep.req, c.ver)
        pick == Best(cs, ok)
    IN CASE Chosen(s, dep.id) ->
              IF ApiRangeAccepts(dep.req, VersionOf(s, dep.id)) THEN s
                                                   ELSE Failed(s, "conflict")
         [] pick = None /\ dep.optional -> s
         [] pick = None -> Failed(s, "missing")
         [] \E i \in DOMAIN cs : cs[i].id = dep.id /\ cs[i].installed
                                    /\ ~ok(cs[i]) -> Failed(s, "conflict")
         [] OTHER -> Take(s, pick)

Meet(cs, s, dep) == IF s.err # None THEN s
                    ELSE IF dep.interface THEN MeetInterface(cs, s, dep)
                    ELSE MeetPackage(cs, s, dep)

RECURSIVE Drain(_, _)
Drain(cs, s) ==
    IF s.err # None \/ s.queue = << >> THEN s
    ELSE LET dc == First(cs, LAMBDA c : /\ c.id = Head(s.queue).id
                                        /\ c.ver = Head(s.queue).ver)
             t  == [s EXCEPT !.queue = Tail(@)]
         IN Drain(cs, IF dc = None THEN t
                      ELSE FoldLeft(LAMBDA u, dep : Meet(cs, u, dep), t, dc.deps))

(* The packages to install, or the error that names the dependents.  The   *)
(* root is the FIRST candidate of its id, whatever its version.            *)
Resolve(root, cs) ==
    LET rc == First(cs, LAMBDA c : c.id = root)
        s0 == [chosen |-> << >>, order |-> << >>, bindings |-> << >>,
               queue |-> IF rc = None THEN << >>
                         ELSE << [id |-> rc.id, ver |-> rc.ver] >>,
               err |-> IF rc = None THEN "unknown" ELSE None]
        s  == Drain(cs, s0)
    IN [err |-> s.err, install |-> Reverse(s.order), bindings |-> s.bindings]
=============================================================================
