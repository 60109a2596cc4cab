----------------------------- MODULE Harnesses -----------------------------
(***************************************************************************)
(* A caller's tools and the logic behind them: what the model is offered    *)
(* (exposure.rs), what it reads of the documents (context.rs), the one path *)
(* of every tool call (lib.rs: call_tool, execute) and the instances that   *)
(* run it (registry.rs, runtime/).                                          *)
(*                                                                         *)
(* A package is [tools, provider, says, accepts, produces]; a tool is       *)
(* [name, kind, front, cost, confirm]; says is the lines of its context, as *)
(* their tokens.  A document is the version it is at and who put it there.  *)
(***************************************************************************)
EXTENDS NativeHarness, Integers, FiniteSets, FiniteSetsExt

CONSTANTS
  Order,                        \* the packages' ids as the registry keeps them: sorted
  Packages,                     \* what each one declares
  Builtins,                     \* Core's own tools
  Callers,                      \* who may be at work: [viewer, edits, views]
  Guests,                       \* what logic may do in a call: [put, over, traps, ok, makes, wants]
  ToolBudget, ContextBudget, FocusedTokens, PinnedTokens, MarkerTokens,
  MaxVersion, MaxSteps          \* bounds

Decls == [name : STRING, kind : {"read", "write", "compute"}, front : BOOLEAN, cost : Nat,
          confirm : {"never", "destructive", "always"}]
\* the gate of a package (tools.rs, manifest.rs) and the registry: ids are
\* reverse-DNS names, which "core" is not
ASSUME PackagesAreSound ==
  /\ Order \in Seq(DOMAIN Packages) /\ "core" \notin DOMAIN Packages
  /\ \A h \in DOMAIN Packages : Packages[h].tools \in Seq(Decls)
  /\ Builtins \in Seq(Decls)

VARIABLES
  me,                           \* the caller
  on,                           \* the packages switched on
  focus, pinned, touched,       \* the caller's
  inst,                         \* the logic instance of a package
  docs,                         \* the caller's document of a package
  cache,                        \* ProviderCache.entries
  artifacts, plan,              \* the ledger
  confirming,                   \* the tool calls that wait for an answer
  artifactRead,                 \* the artifact the last run read, and of which run it was
  steps

harVars == <<me, on, focus, pinned, touched, inst, docs, cache, artifacts, plan, confirming, artifactRead, steps>>

Ids == ToSet(Order)
NoOne == "no one"
Without == "none"
Tools(h) == Packages[h].tools
OwnerOf(name) == {h \in Ids : \E i \in DOMAIN Tools(h) : Tools(h)[i].name = name}
Decl(h, name) == SelectSeq(Tools(h), LAMBDA t : t.name = name)[1]
Added(list, h) == IF Contains(list, h) THEN list ELSE Append(list, h)

(***************************************************************************)
(* Tool exposure                                                            *)
(***************************************************************************)
MayEdit(h) == h \in me.edits
\* a read-only account sees what reads, a member no write of what they may
\* not change
ShowsTool(h, kind) == IF me.viewer THEN kind = "read" ELSE kind # "write" \/ MayEdit(h)

AnythingInstalled == \E h \in on : Tools(h) # <<>>
CoreTools == IF AnythingInstalled THEN Builtins ELSE <<>>
OffersBuiltin(name) == \E i \in DOMAIN CoreTools : CoreTools[i].name = name

\* 1 for the focused harness, 2 for a pinned one, 3 for one this
\* conversation has touched, 0 for one whose tools are not to be offered
RankOf(h) ==
  IF h \notin on THEN 0 ELSE IF h = focus THEN 1
  ELSE IF Contains(pinned, h) THEN 2 ELSE IF Contains(touched, h) THEN 3 ELSE 0

\* the focused harness in full, of the others their front doors
CoreCandidate(i) == [rank |-> 0, harness |-> "core", line |-> 0, at |-> i, tool |-> CoreTools[i]]
Candidate(k, i) ==
  [rank |-> RankOf(Order[k]), harness |-> Order[k], line |-> k, at |-> i, tool |-> Tools(Order[k])[i]]
Slots == UNION {{<<k, i>> : i \in DOMAIN Tools(Order[k])} : k \in DOMAIN Order}
Candidates ==
  {CoreCandidate(i) : i \in {i \in DOMAIN CoreTools : ~ me.viewer \/ CoreTools[i].kind = "read"}}
    \cup {c \in {Candidate(s[1], s[2]) : s \in Slots} :
            /\ c.rank > 0 /\ (c.rank = 1 \/ c.tool.front) /\ ShowsTool(c.harness, c.tool.kind)}

Total(c) == MapThenSumSet(LAMBDA x : x.tool.cost, c)

\* max_by_key: of the largest, the last in the order of the candidates
NotAbove(x, y) ==
  \/ x.rank < y.rank
  \/ x.rank = y.rank /\ x.tool.cost < y.tool.cost
  \/ x.rank = y.rank /\ x.tool.cost = y.tool.cost /\ x.line < y.line
  \/ x.rank = y.rank /\ x.tool.cost = y.tool.cost /\ x.line = y.line /\ x.at <= y.at
Most(c) == CHOOSE x \in c : \A y \in c : NotAbove(y, x)

Low(c) == {x \in c : x.rank >= 2}
Own(c) == {x \in c : x.rank = 1}
BehindDoor(c) == {x \in c : x.rank = 1 /\ ~ x.tool.front}
Trim(c) == IF BehindDoor(c) # {} THEN BehindDoor(c) ELSE Own(c)

\* Mutant of Shrunk: the focused harness is never trimmed.
ShrunkOnce(c) == IF Total(c) <= ToolBudget THEN c ELSE c \ Low(c)

\* one round of the loop that enforces the budget: a whole harness of the
\* lowest rank, then the focused one's widest tool, its front doors last
Shrunk(c) ==
  IF Total(c) <= ToolBudget THEN c
  ELSE IF Low(c) # {} THEN {x \in c : x.harness # Most(Low(c)).harness}
  ELSE IF Own(c) # {} THEN c \ {Most(Trim(c))}
  ELSE c

\* every round but the last takes a candidate away
Rounds[n \in Nat] == IF n = 0 THEN Candidates ELSE Shrunk(Rounds[n - 1])
ActiveSet == Rounds[Cardinality(Candidates)]

OnOffer(name) == \E c \in ActiveSet : c.tool.name = name

(***************************************************************************)
(* Instances                                                                *)
(***************************************************************************)
NoInstance == [is |-> "none"]
\* instantiate: the instance is there before its list of tools was compared
Fresh(vouched) == [is |-> "live", out |-> Without, over |-> FALSE, artifacts |-> {}, vouched |-> vouched]
Started(h, vouched) == IF inst[h] = NoInstance THEN Fresh(vouched) ELSE inst[h]
StartFails(h, vouched) == inst[h] = NoInstance /\ ~ vouched

\* Mutant of BeginCall: what was put stays for the next call.
BeginCallKeeps(i) == i

\* begin: the call's own document, nothing put yet
BeginCall(i) == [i EXCEPT !.out = Without]

\* the logic at work: it may put a document, ask for more memory than it
\* declared, and read an artifact that was handed to this run
Ran(i, g, by) ==
  [BeginCall(i) EXCEPT !.out = IF g.put THEN by ELSE BeginCall(i).out, !.over = @ \/ g.over]
ReadArtifact(i, g, by) == IF g.wants /\ i.artifacts # {} THEN {[run |-> by, of |-> CHOOSE a \in i.artifacts : TRUE]} ELSE {}
\* finish, skipped by a trap
Finished(i, g) == IF g.traps THEN i ELSE [i EXCEPT !.out = Without]

\* kill_over_budget: the next call makes a fresh one
KeptInstance(i) == IF i.over THEN NoInstance ELSE i

Step == steps < MaxSteps /\ steps' = steps + 1
PutDoc(h, by) == docs' = [docs EXCEPT ![h] = [version |-> @.version + 1, by |-> by]]
MayPut(h) == docs[h].version < MaxVersion

HarInit ==
  /\ me \in Callers /\ on = Ids /\ focus = NoOne /\ pinned = <<>> /\ touched = <<>>
  /\ inst = [h \in Ids |-> NoInstance]
  /\ docs = [h \in Ids |-> [version |-> 0, by |-> "call"]]
  /\ cache = {} /\ artifacts = <<>> /\ plan = <<>> /\ confirming = {} /\ artifactRead = {} /\ steps = 0

SetFocus(h) ==
  /\ Step /\ focus' = h
  /\ UNCHANGED <<me, on, pinned, touched, inst, docs, cache, artifacts, plan, confirming, artifactRead>>
Unpinned(h) == SelectSeq(pinned, LAMBDA p : p # h)
SetPinned(h, yes) ==
  /\ Step
  /\ pinned' = IF yes THEN Append(Unpinned(h), h) ELSE Unpinned(h)
  /\ UNCHANGED <<me, on, focus, touched, inst, docs, cache, artifacts, plan, confirming, artifactRead>>
SetHarnessEnabled(h, yes) ==
  /\ Step
  /\ on' = IF yes THEN on \cup {h} ELSE on \ {h}
  /\ UNCHANGED <<me, focus, pinned, touched, inst, docs, cache, artifacts, plan, confirming, artifactRead>>

\* rank_capabilities: any package that is on and has tools may come first,
\* by the words of the need, or none may
Ranked == {h \in on : Tools(h) # <<>>}

\* find_capability: the best match is focused and touched
FindCapability(h) ==
  /\ OffersBuiltin("find_capability") /\ h \in Ranked
  /\ Step /\ focus' = h /\ touched' = Added(touched, h)
  /\ UNCHANGED <<me, on, pinned, inst, docs, cache, artifacts, plan, confirming, artifactRead>>

\* task.plan: a viewer is refused; a plan names what is installed
TaskPlan(h) ==
  /\ OffersBuiltin("task.plan") /\ ~ me.viewer
  /\ Step /\ plan' = <<[harness |-> h, status |-> "pending"]>>
  /\ UNCHANGED <<me, on, focus, pinned, touched, inst, docs, cache, artifacts, confirming, artifactRead>>

\* task_progress, by the agent: the first open step of the tool's harness
Progressed(h, failed) ==
  LET open == {i \in DOMAIN plan : plan[i].harness = h /\ plan[i].status \in {"pending", "active"}} IN
  IF open = {} THEN plan ELSE [plan EXCEPT ![Min(open)].status = IF failed THEN "failed" ELSE "active"]

(***************************************************************************)
(* A tool call                                                              *)
(***************************************************************************)
NeedsConfirm(decl) == decl.confirm = "always" \/ (decl.confirm = "destructive" /\ decl.kind = "write")
MayCall(h, decl) == IF decl.kind = "write" THEN h \in me.edits ELSE h \in me.views

\* call_tool up to the confirmation: what refuses it to the caller, then
\* what refuses it to the agent alone
Refuses(h, decl) == h \notin on \/ (me.viewer /\ decl.kind # "read") \/ ~ MayCall(h, decl)
Decision(h, name, author) ==
  LET decl == Decl(h, name) IN
  IF Refuses(h, decl) \/ (author = "agent" /\ ~ OnOffer(name)) THEN "denied"
  ELSE IF NeedsConfirm(decl) /\ author = "agent" THEN "confirm"
  ELSE "run"

\* resolve_handoff: an artifact of the ledger, of a kind this one accepts
HandedTo(h, artifact) ==
  IF artifact = 0 THEN {} ELSE IF artifacts[artifact].kind \in Packages[h].accepts THEN {artifact} ELSE {0}

\* register_artifact, of a kind it declared, pinned to the version there is
Registered(h, g) ==
  IF g.makes \in Packages[h].produces
  THEN Append(artifacts, [kind |-> g.makes, by |-> h, at |-> docs'[h].version]) ELSE artifacts

\* execute: the artifact is there for this run alone; focus follows the call
Execute(h, name, by, artifact, g, vouched) ==
  LET handed == HandedTo(h, artifact)
      at == [Started(h, vouched) EXCEPT !.artifacts = handed]
      run == Ran(at, g, by)
      after == [Finished(run, g) EXCEPT !.artifacts = {}]
      failed == g.traps \/ ~ g.ok IN
  IF handed = {0}
  THEN plan' = Progressed(h, TRUE) /\ UNCHANGED <<inst, docs, focus, touched, artifacts, artifactRead>>
  ELSE IF StartFails(h, vouched)
  THEN /\ inst' = [inst EXCEPT ![h] = Fresh(FALSE)] /\ plan' = Progressed(h, TRUE)
       /\ UNCHANGED <<docs, focus, touched, artifacts, artifactRead>>
  ELSE /\ inst' = [inst EXCEPT ![h] = KeptInstance(after)]
       /\ artifactRead' = ReadArtifact(at, g, by)
       /\ plan' = Progressed(h, failed)
       /\ IF failed THEN UNCHANGED <<docs, focus, touched, artifacts>>
          ELSE /\ IF run.out # Without THEN MayPut(h) /\ PutDoc(h, run.out) ELSE UNCHANGED docs
               /\ focus' = h /\ touched' = Added(touched, h)
               /\ artifacts' = Registered(h, g)

CallTool(h, name, author, artifact, g, vouched) ==
  LET decision == Decision(h, name, author) IN
  /\ Step
  /\ UNCHANGED <<me, on, pinned, cache>>
  /\ CASE decision = "denied" ->
            plan' = Progressed(h, TRUE) /\ UNCHANGED <<inst, docs, focus, touched, artifacts, artifactRead, confirming>>
       [] decision = "confirm" ->
            /\ confirming' = confirming \cup {[harness |-> h, tool |-> name]}
            /\ plan' = Progressed(h, FALSE)
            /\ UNCHANGED <<inst, docs, focus, touched, artifacts, artifactRead>>
       [] decision = "run" ->
            Execute(h, name, "call", artifact, g, vouched) /\ UNCHANGED confirming

\* R::Approve: the call is made as the user's
ApproveCall(p, granted, g) ==
  /\ p \in confirming /\ Step
  /\ confirming' = confirming \ {p}
  /\ UNCHANGED <<me, on, pinned, cache>>
  /\ IF granted /\ Decision(p.harness, p.tool, "user") = "run"
     THEN Execute(p.harness, p.tool, "call", 0, g, TRUE)
     ELSE UNCHANGED <<inst, docs, focus, touched, artifacts, plan, artifactRead>>

(***************************************************************************)
(* Views, surfaces, and the context of a turn                               *)
(***************************************************************************)
\* R::GetWidgetView: no access is asked for, and what the logic puts or asks
\* for is looked at by nobody
GetWidgetView(h, g) ==
  LET at == Started(h, TRUE) IN
  /\ Step
  /\ inst' = [inst EXCEPT ![h] = Ran(at, g, "view")]
  /\ artifactRead' = ReadArtifact(at, g, "view")
  /\ UNCHANGED <<me, on, focus, pinned, touched, docs, cache, artifacts, plan, confirming>>

\* R::HarnessEvent: what a surface makes the logic put is the caller's write
HarnessEvent(h, g) ==
  LET at == Started(h, TRUE)
      run == Ran(at, g, "event") IN
  /\ h \in me.views /\ Step
  /\ inst' = [inst EXCEPT ![h] = KeptInstance(Finished(run, g))]
  /\ artifactRead' = ReadArtifact(at, g, "event")
  /\ IF ~ g.traps /\ run.out # Without /\ ~ me.viewer /\ MayEdit(h)
     THEN MayPut(h) /\ PutDoc(h, run.out) ELSE UNCHANGED docs
  /\ UNCHANGED <<me, on, focus, pinned, touched, cache, artifacts, plan, confirming>>

\* truncate_to_budget: whole lines, then the words that say so
Truncated(text, budget) ==
  LET all == FoldLeft(+, 0, text)
      room == IF budget > MarkerTokens THEN budget - MarkerTokens ELSE 0
      Fits(n) == FoldLeft(+, 0, SubSeq(text, 1, n)) + n <= room
      kept == CHOOSE n \in 0..Len(text) :
                Fits(n) /\ \A m \in (n + 1)..Len(text) : ~ Fits(m) IN
  IF all <= budget THEN all ELSE FoldLeft(+, 0, SubSeq(text, 1, kept)) + MarkerTokens

\* assemble, one package: remembered by document and budget; what failed is
\* remembered as well
ContextBlock(s, w) ==
  LET h == w.harness
      budget == IF w.budget < ContextBudget - s.spent THEN w.budget ELSE ContextBudget - s.spent
      hit == {b \in s.cache : b.harness = h /\ b.version = docs[h] /\ b.budget = budget}
      made == [harness |-> h, version |-> docs[h], budget |-> budget, tokens |-> Truncated(Packages[h].says, budget)] IN
  IF s.spent >= ContextBudget \/ h \notin on \/ ~ Packages[h].provider THEN s
  ELSE IF hit # {} THEN [s EXCEPT !.spent = @ + (CHOOSE b \in hit : TRUE).tokens]
  ELSE [s EXCEPT !.ran = @ \cup {h}, !.cache = @ \cup {made}, !.spent = @ + made.tokens]

\* what a turn would read: the focused package, then the pinned and the
\* touched ones, each of them once
Wanted ==
  LET rest == SelectSeq(FoldLeft(Added, pinned, touched), LAMBDA h : h # focus) IN
  (IF focus \in Ids THEN <<[harness |-> focus, budget |-> FocusedTokens]>> ELSE <<>>)
    \o [i \in DOMAIN rest |-> [harness |-> rest[i], budget |-> PinnedTokens]]
\* the packages whose logic ran for it, and the blocks there are then
Blocks == FoldLeft(ContextBlock, [ran |-> {}, cache |-> cache, spent |-> 0], Wanted)

\* context_blocks: the logic of everything wanted is brought online first
ContextBlocks(g) ==
  LET online == {h \in on : Packages[h].provider /\ \E i \in DOMAIN Wanted : Wanted[i].harness = h}
      ready == [h \in Ids |-> IF h \in online THEN Started(h, TRUE) ELSE inst[h]] IN
  /\ Wanted # <<>> /\ Step
  /\ inst' = [h \in Ids |-> IF h \in Blocks.ran /\ ready[h] # NoInstance
                           THEN Ran(ready[h], g, "context") ELSE ready[h]]
  /\ cache' = Blocks.cache /\ artifactRead' = {}
  /\ UNCHANGED <<me, on, focus, pinned, touched, docs, artifacts, plan, confirming>>

\* tick: an instance idle for long enough goes, its document stays
UnloadIdle(h) ==
  /\ inst[h] # NoInstance /\ Step
  /\ inst' = [inst EXCEPT ![h] = NoInstance]
  /\ UNCHANGED <<me, on, focus, pinned, touched, docs, cache, artifacts, plan, confirming, artifactRead>>

HarNext ==
  \/ \E h \in Ids \cup {NoOne} : SetFocus(h)
  \/ \E h \in Ids, yes \in BOOLEAN : SetPinned(h, yes) \/ SetHarnessEnabled(h, yes)
  \/ \E h \in Ids : FindCapability(h) \/ TaskPlan(h) \/ UnloadIdle(h)
  \/ \E h \in Ids, author \in {"agent", "user"}, a \in 0..Len(artifacts), g \in Guests, v \in BOOLEAN :
       \E i \in DOMAIN Tools(h) : CallTool(h, Tools(h)[i].name, author, a, g, v)
  \/ \E p \in confirming, granted \in BOOLEAN, g \in Guests : ApproveCall(p, granted, g)
  \/ \E h \in Ids, g \in Guests : GetWidgetView(h, g) \/ HarnessEvent(h, g)
  \/ \E g \in Guests : ContextBlocks(g)

HarSpec == HarInit /\ [][HarNext]_harVars

(***************************************************************************)
(* Properties                                                               *)
(***************************************************************************)

\* What the model is offered fits its budget unless Core's own tools alone do
\* not; nothing on offer is refused to the caller whose turn it is, unless the
\* document itself is closed to them; what was left out is of no higher rank
\* than what is on offer, a harness that was left out is left out whole, and no
\* front door of the focused one goes while a tool behind it stays.
OffersAreHonest ==
  LET c == ActiveSet
      gone == Candidates \ c IN
  /\ Total(c) <= ToolBudget \/ \A x \in c : x.rank = 0
  /\ \A x \in c : x.rank > 0 => ~ Refuses(x.harness, x.tool) \/ x.harness \notin me.views
  /\ \A x \in c, y \in gone :
       /\ x.rank <= y.rank
       /\ x.harness = y.harness => x.rank = 1
       /\ (x.rank = 1 /\ ~ x.tool.front) => ~ (y.rank = 1 /\ y.tool.front)

\* A document changes by a call or a surface's event alone: what a view or a
\* context provider put is never committed, not by a later call either; and
\* an artifact handed to one call is read in no other.
CallsAreScoped ==
  /\ \A h \in Ids : docs[h].by \in {"call", "event"}
  /\ \A r \in artifactRead : r.run = "call"

\* A harness is offered, called and answered within its own call: the tools on
\* offer are ones the caller may use, what a call put or was handed ends with
\* it, and an answer over a pipe is the one to the call that waits
\* (exposure.rs, lib.rs, runtime/).
HarnessesAreHeld == OffersAreHonest /\ CallsAreScoped /\ OwnAnswersOnly
=============================================================================
