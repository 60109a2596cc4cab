----------------------------- MODULE MCPackages -----------------------------
(* An app with an update that asks for more and needs another package, a   *)
(* library two others need, and two types packages that declare one kind.  *)
EXTENDS Packages

MCHostApi == <<1, 2>>
Tool == [name |-> "a.x", words |-> 5, props |-> 1, object |-> TRUE,
         kind |-> "write", undoable |-> TRUE, confirm |-> "never",
         front |-> TRUE, cost |-> 40]
AnyVersion == [op |-> "*"]
Caret(v) == [op |-> "^", v |-> v]
Dep(id, req) == [id |-> id, req |-> req, optional |-> FALSE, interface |-> FALSE]
Face(id) == [id |-> id, req |-> None, optional |-> FALSE, interface |-> TRUE]
Library == [idOk |-> TRUE, api |-> Caret(<<1, 0>>), tier |-> "wasm", reason |-> FALSE,
            caps |-> {}, views |-> {}, logicMb |-> 64, surfaceMb |-> 64,
            idleOk |-> TRUE, kind |-> "library", tools |-> None,
            declares |-> None, names |-> {}, deps |-> << >>, provides |-> {},
            netHosts |-> None, netReason |-> FALSE, namespaced |-> TRUE,
            runs |-> TRUE, reports |-> {}]
Types == [Library EXCEPT !.kind = "types", !.declares = {"board.v1"}]
Harness == [Library EXCEPT !.kind = "harness", !.tools = <<Tool>>,
                           !.reports = {"a.x"}, !.caps = {"model"},
                           !.views = {[kind |-> "web", module |-> "index.js"]}]

MCIdOrder == <<"app", "lib", "ty", "uy">>
V1 == <<1, 0>>
V2 == <<2, 0>>
MCManifest ==
    (<<"app", V1>> :> [Harness EXCEPT !.deps = <<Face("ink")>>]) @@
    (<<"app", V2>> :> [Harness EXCEPT !.deps = <<Dep("lib", Caret(V1)), Dep("ty", AnyVersion)>>,
                                      !.caps = {"model", "net"},
                                      !.netHosts = 1, !.netReason = TRUE]) @@
    (<<"lib", V1>> :> [Library EXCEPT !.deps = <<Dep("ty", Caret(V1))>>,
                                      !.names = {"board.v1"},
                                      !.provides = {"ink"}]) @@
    (<<"ty", V1>> :> Types) @@
    (<<"uy", V1>> :> Types)
MCCatalog == << <<"app", V1>>, <<"app", V2>>, <<"lib", V1>>, <<"ty", V1>>, <<"uy", V1>> >>
MCShipped == << >>
MCPolicy == [tierB |-> FALSE, net |-> TRUE, fs |-> TRUE]
=============================================================================
