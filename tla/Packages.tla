------------------------------ MODULE Packages ------------------------------
(***************************************************************************)
(* The installed set: install, the prompt of an update that asks for more, *)
(* its approval, uninstall, the residency of a package's logic, and what a *)
(* start of Core makes of the directories it finds (lib.rs, registry.rs,   *)
(* catalog.rs, lock.rs).                                                   *)
(*                                                                         *)
(* A package is <<id, version>>; Manifest gives what its files say.  A     *)
(* package lies in the catalog, in the directory Core was started with     *)
(* (`--harnesses`, "shipped"), or in Core's own copy under the data        *)
(* directory: disk[id] is the version whose files are there, None when     *)
(* none or not all of them are.  Requests are handled one at a time on     *)
(* Core's thread; a kill may come between any two of them and inside the   *)
(* copying.                                                                *)
(***************************************************************************)
EXTENDS Manifests

CONSTANTS IdOrder,         \* the package ids, in the order of their names
          Manifest,        \* package |-> what its files declare
          Catalog,         \* the packages on offer, in the order read
          Shipped,         \* the packages of `--harnesses`, in the order read
          SetAside,        \* ids this release leaves out
          Policy,          \* [tierB, net, fs]: what may be granted at all
          MaxNow,          \* bound: milliseconds that pass
          MaxBoots         \* bound: starts of Core

VARIABLES registry,        \* id |-> [ver, own, code], or None
          disk,            \* id |-> the version copied under the data directory
          pending,         \* token |-> the id whose install waits for an answer
          lock,            \* id |-> [ver, hash] as environment.lock has it
          now, boots       \* the clock in ms; the starts of Core

vars == <<registry, disk, pending, lock, now, boots>>

Ids == ToSet(IdOrder)
Sorted(S) == SelectSeq(IdOrder, LAMBDA id : id \in S)
Registered(reg) == {id \in Ids : reg[id] # None}
State == [registry |-> registry, disk |-> disk, pending |-> pending,
          lock |-> lock]
Becomes(st) ==
    /\ registry' = st.registry
    /\ disk' = st.disk
    /\ pending' = st.pending
    /\ lock' = st.lock

ManifestOf(reg, id) == Manifest[<<id, reg[id].ver>>]
CapsOf(reg, id) == Apply(Policy, ManifestOf(reg, id).caps)
IsHarness(m) == m.kind = "harness"

(* The version whose files lie in an installed package's directory; a      *)
(* shipped directory is never written to.                                  *)
Files(st, id) == IF st.registry[id].own THEN st.disk[id]
                                        ELSE st.registry[id].ver

(* Registry::stage, after the manifest was read and validated.             *)
Stage(m) ==
    /\ m.tier = "native" => Policy.tierB
    /\ IsHarness(m) => Lint(m.tools) /\ m.namespaced
    /\ m.kind = "types" => TypesOk(m.declares)

(* Registry::instantiate: only a harness has logic, which must load and    *)
(* report no tool its package does not declare.                            *)
Instantiates(m) == IsHarness(m) => m.runs /\ m.reports \subseteq ToolNames(m.tools)

Entry(id, ver, own) ==
    [ver |-> ver, own |-> own,
     code |-> IF IsHarness(Manifest[<<id, ver>>]) THEN ver ELSE None]

(* lock::compute: what is registered, with a hash of the files that lie    *)
(* there now.                                                              *)
Compute(st) == [id \in Registered(st.registry) |->
                   [ver |-> st.registry[id].ver, hash |-> Files(st, id)]]
WriteLock(st) == [st EXCEPT !.lock = Compute(st)]

Declared(m) == IF m.kind = "types" THEN m.declares ELSE {}

InterchangeKindsDeclared(reg, m) ==
    \A k \in m.names : \E id \in Registered(reg) : k \in Declared(ManifestOf(reg, id))

(* A slip: only a package that is installed already is compared.           *)
TypesDeclaredByAnother(reg, id, m) ==
    reg[id] # None => Declared(m) \subseteq Declared(ManifestOf(reg, id))

(* type_decl finds the first declarer by id.                               *)
TypesDeclaredOnce(reg, id, m) ==
    \A k \in Declared(m) :
        LET at == SelectSeq(IdOrder, LAMBDA o : /\ reg[o] # None
                                                /\ k \in Declared(ManifestOf(reg, o)))
        IN at # << >> => Head(at) = id

(* catalog::candidates: what is installed, then every readable package of  *)
(* the catalog's directories that is not listed yet.                       *)
Candidate(p, own, installed) ==
    [id |-> p[1], ver |-> p[2], own |-> own, installed |-> installed,
     provides |-> Manifest[p].provides, deps |-> Manifest[p].deps]

Candidates(st) ==
    LET here == Sorted(Registered(st.registry))
        mine == [i \in DOMAIN here |->
                    Candidate(<<here[i], st.registry[here[i]].ver>>,
                              st.registry[here[i]].own, TRUE)]
        add(out, p) == IF ~Validate(Manifest[p])
                          \/ \E i \in DOMAIN out : out[i].id = p[1] /\ out[i].ver = p[2]
                       THEN out ELSE Append(out, Candidate(p, FALSE, FALSE))
    IN FoldLeft(add, mine, Catalog \o Shipped)

(* A path is [id, ver, own]: a directory that holds that version, or       *)
(* Core's own copy, which holds whatever is there when it is read.         *)
RECURSIVE InstallInner(_, _, _)

(* install_dependencies: what the resolver says, in its order, each        *)
(* through a whole install of its own.                                     *)
WithItself(cs, id, ver) ==
    IF \E i \in DOMAIN cs : cs[i].id = id THEN cs
    ELSE Append(cs, Candidate(<<id, ver>>, FALSE, FALSE))

PathOf(c) == [id |-> c.id, ver |-> c.ver, own |-> c.own]
OrError(done) == IF done.r = "ok" THEN done ELSE [done EXCEPT !.r = "error"]

InstallPlan(st, id, cs, plan) ==
    LET from(p) == PathOf(First(cs, LAMBDA x : x.id = p.id /\ x.ver = p.ver))
        step(acc, p) == IF acc.r # "ok" \/ p.id = id THEN acc
                        ELSE OrError(InstallInner(acc.st, from(p), FALSE))
    IN IF plan.err # None THEN [st |-> st, r |-> "error"]
       ELSE FoldLeft(step, [st |-> st, r |-> "ok"], plan.install)

InstallFrom(st, id, cs) == InstallPlan(st, id, cs, Resolve(id, cs))

InstallDependencies(st, id, ver) ==
    IF Manifest[<<id, ver>>].deps = << >> THEN [st |-> st, r |-> "ok"]
    ELSE InstallFrom(st, id, WithItself(Candidates(st), id, ver))

(* install_inner, in the order of its early returns: the package is copied *)
(* under the data directory before it is looked at further, and an update  *)
(* that widens waits there for its answer.  First what comes once the      *)
(* dependencies are in, with the state they leave.                         *)
Refused(st) == [st |-> st, r |-> "error"]

Admit(deps, id, ver, approved) ==
    LET m    == Manifest[<<id, ver>>]
        st   == deps.st
        reg  == st.registry
        caps == Apply(Policy, m.caps)
    IN CASE \/ deps.r # "ok"
            \/ ~TypesDeclaredOnce(reg, id, m)
            \/ ~InterchangeKindsDeclared(reg, m) -> Refused(st)
         [] /\ ~approved /\ reg[id] # None
            /\ WideningOver(caps, CapsOf(reg, id)) # {} ->
              [st |-> [st EXCEPT !.pending[now] = id], r |-> "prompt"]
         [] ~Instantiates(m) -> Refused(st)
         [] OTHER -> [st |-> WriteLock([st EXCEPT !.registry[id] = Entry(id, ver, TRUE)]),
                      r |-> "ok"]

Unpack(st, id, ver, approved) ==
    LET s1 == [st EXCEPT !.disk[id] = ver]
    IN CASE \/ ver = None \/ id \in SetAside
            \/ ~Validate(Manifest[<<id, ver>>]) -> Refused(st)
         [] ~Stage(Manifest[<<id, ver>>]) -> Refused(s1)
         [] OTHER -> Admit(InstallDependencies(s1, id, ver), id, ver, approved)

InstallInner(st, path, approved) ==
    Unpack(st, path.id, IF path.own THEN st.disk[path.id] ELSE path.ver, approved)

-----------------------------------------------------------------------------
(* A start of Core: the shipped directory, then its own copies, then       *)
(* settle_packages.                                                        *)

Loads(m) == Validate(m) /\ Stage(m) /\ Instantiates(m)

LoadDir(reg, pkgs, own) ==
    LET load(r, p) == IF Loads(Manifest[p]) THEN [r EXCEPT ![p[1]] = Entry(p[1], p[2], own)]
                                            ELSE r
        loaded == FoldLeft(load, reg, pkgs)
    IN [id \in Ids |-> IF id \in SetAside THEN None ELSE loaded[id]]

Copies(d) == LET has == Sorted({id \in Ids : d[id] # None})
             IN [i \in DOMAIN has |-> <<has[i], d[has[i]]>>]

Without(st, id) == [st EXCEPT !.registry[id] = None]
OrWithout(done, id) == IF done.r = "ok" THEN done.st ELSE Without(done.st, id)

(* ... the packages whose dependencies cannot be had go, then those whose  *)
(* kinds nobody declares.                                                  *)
SettleKinds(st) ==
    LET kind(s, id) == IF InterchangeKindsDeclared(s.registry, ManifestOf(st.registry, id))
                       THEN s ELSE Without(s, id)
    IN FoldLeft(kind, st, Sorted(Registered(st.registry)))

SettlePackages(st) ==
    LET with == Sorted({id \in Registered(st.registry) : ManifestOf(st.registry, id).deps # << >>})
        need(s, id) == OrWithout(InstallDependencies(s, id, st.registry[id].ver), id)
    IN WriteLock(SettleKinds(FoldLeft(need, st, with)))

Booted(d) ==
    LET none == [id \in Ids |-> None]
    IN SettlePackages([registry |-> LoadDir(LoadDir(none, Shipped, FALSE), Copies(d), TRUE),
                       disk |-> d, lock |-> << >>,
                       pending |-> [t \in 0 .. MaxNow |-> None]])

Begins(st) ==
    /\ registry = st.registry /\ disk = st.disk /\ pending = st.pending
    /\ lock = st.lock /\ now = 0 /\ boots = 1

Init == Begins(Booted([id \in Ids |-> None]))

(* A kill: what is in memory is gone, the waiting installs included.       *)
Restart(d) ==
    /\ boots < MaxBoots
    /\ boots' = boots + 1
    /\ Becomes(Booted(d))
    /\ UNCHANGED now

-----------------------------------------------------------------------------
(* R::InstallHarness, asked for by the path of a package.                  *)
Install(p) ==
    /\ Becomes(InstallInner(State, [id |-> p[1], ver |-> p[2], own |-> FALSE], FALSE).st)
    /\ UNCHANGED <<now, boots>>

(* persist_package removes the old copy before it copies the new one: the  *)
(* copying fails, or the process is killed in it.                          *)
Copied(p) == Validate(Manifest[p]) /\ p[1] \notin SetAside

CopyFails(p) ==
    /\ Copied(p)
    /\ disk' = [disk EXCEPT ![p[1]] = None]
    /\ UNCHANGED <<registry, pending, lock, now, boots>>

KilledInCopy(p) == Copied(p) /\ Restart([disk EXCEPT ![p[1]] = None])

Killed == Restart(disk)

(* R::ApproveInstall: the token's directory, whatever it holds by now.     *)
ApproveInstall(t) ==
    /\ pending[t] # None
    /\ Becomes(InstallInner([State EXCEPT !.pending[t] = None],
                            [id |-> pending[t], ver |-> None, own |-> TRUE], TRUE).st)
    /\ UNCHANGED <<now, boots>>

(* A slip: the lock is left as it was.                                     *)
UninstallKeepsLock(id) ==
    LET own == registry[id] # None /\ registry[id].own
    IN /\ Becomes([State EXCEPT !.registry[id] = None,
                                !.disk[id] = IF own THEN None ELSE @])
       /\ UNCHANGED <<now, boots>>

(* R::UninstallHarness: Core's own copy goes with the registration.  The   *)
(* focus and the pins it clears besides are Harnesses'.                   *)
UninstallHarness(id) ==
    LET own == registry[id] # None /\ registry[id].own
        st  == [State EXCEPT !.registry[id] = None,
                             !.disk[id] = IF own THEN None ELSE @]
    IN /\ Becomes(WriteLock(st))
       /\ UNCHANGED <<now, boots>>

(* Registry::ensure_runtime, on every call into a harness: the logic is    *)
(* made from the files that lie there.  It is kept also when it reports a  *)
(* tool that is not declared and the call is refused.                      *)
EnsureRuntime(h) ==
    LET f == Files(State, h)
    IN /\ registry[h] # None /\ IsHarness(ManifestOf(registry, h))
       /\ registry[h].code = None
       /\ f # None /\ Manifest[<<h, f>>].runs
       /\ registry' = [registry EXCEPT ![h].code = f]
       /\ UNCHANGED <<disk, pending, lock, now, boots>>

(* tick's unload_idle, and kill_over_budget after a call.                  *)
DropRuntime(h) ==
    /\ registry[h] # None /\ registry[h].code # None
    /\ registry' = [registry EXCEPT ![h].code = None]
    /\ UNCHANGED <<disk, pending, lock, now, boots>>

Millisecond ==
    /\ now < MaxNow
    /\ now' = now + 1
    /\ UNCHANGED <<registry, disk, pending, lock, boots>>

Next ==
    \/ \E i \in DOMAIN Catalog : \/ Install(Catalog[i])
                                 \/ CopyFails(Catalog[i])
                                 \/ KilledInCopy(Catalog[i])
    \/ Killed
    \/ \E t \in 0 .. MaxNow : ApproveInstall(t)
    \/ \E id \in Ids : \/ UninstallHarness(id)
                      \/ EnsureRuntime(id)
                      \/ DropRuntime(id)
    \/ Millisecond

Spec == Init /\ [][Next]_vars

-----------------------------------------------------------------------------
(* What a package asks of the set it is installed into.                    *)
Met(reg, dep) ==
    \/ dep.optional
    \/ IF dep.interface
       THEN \E id \in Registered(reg) : dep.id \in ManifestOf(reg, id).provides
       ELSE reg[dep.id] # None /\ ApiRangeAccepts(dep.req, reg[dep.id].ver)
Complete(reg, id) == \A i \in DOMAIN ManifestOf(reg, id).deps :
                        Met(reg, ManifestOf(reg, id).deps[i])
Declarers(reg, k) == {id \in Registered(reg) : k \in Declared(ManifestOf(reg, id))}
Kinds == UNION {Declared(Manifest[p]) : p \in DOMAIN Manifest}
SameBoot == boots' = boots

(* environment.lock names exactly what is registered, at the version       *)
(* registered, after every request, refused install and start: "Rewrite    *)
(* `environment.lock` from the installed set" (lib.rs, write_lock), which   *)
(* a dependency installed before its dependent was refused must not escape. *)
LockIsTheSet ==
    /\ DOMAIN lock = Registered(registry)
    /\ \A id \in DOMAIN lock : lock[id].ver = registry[id].ver

(* While Core runs, no package comes to hold a grant it did not hold       *)
(* before except by the answer to a prompt about that package: not by an   *)
(* update, not as somebody's dependency, not by answering another's prompt  *)
(* (lib.rs, install_inner).                                                *)
NoSilentWidening ==
    [][SameBoot => \A id \in Registered(registry) \cap Registered(registry') :
            ~(CapsOf(registry', id) \subseteq CapsOf(registry, id)) =>
                \E t \in DOMAIN pending :
                    /\ pending[t] = id
                    /\ pending'[t] = None]_vars

(* While Core runs, no second types package comes to declare a kind, in    *)
(* whichever order packages and their dependencies are installed (lib.rs,  *)
(* types_declared_once).                                                   *)
OneDeclarer ==
    \A k \in Kinds : Cardinality(Declarers(registry', k)) > 1 =>
                        Declarers(registry', k) \subseteq Declarers(registry, k)

(* A package that was not here, in the first version the catalog lists, is  *)
(* once installed in a set that has everything it depends on at a version   *)
(* it accepts, though its dependencies are installed by nested installs     *)
(* that resolve anew (lib.rs, install_dependencies; deps.rs, resolve).      *)
FreshInstallIsComplete ==
    \A id \in Registered(registry') :
        /\ registry[id] = None
        /\ First(Catalog, LAMBDA p : p[1] = id) = <<id, registry'[id].ver>>
        => Complete(registry', id)

(* The installed set holds together (lib.rs): of every step while Core      *)
(* runs, the two above together.                                            *)
InstalledHoldsTogether == [][SameBoot => OneDeclarer /\ FreshInstallIsComplete]_vars

(* "Install what `manifest` depends on and is not installed yet" (lib.rs,  *)
(* install_dependencies), also for an update: refuted, the resolver begins  *)
(* at the first candidate of that id, which is the version already here.    *)
InstallIsComplete ==
    [][SameBoot => \A id \in Registered(registry') :
            registry[id] # None /\ registry'[id].ver # registry[id].ver =>
                Complete(registry', id)]_vars
=============================================================================
