------------------------------- MODULE MCHost -------------------------------
(***************************************************************************)
(* What Core runs among: the server in front of it (Server), who is present *)
(* (Presence), the way out (Gateway), harnesses as they are called and the  *)
(* native ones' pipe (Harnesses, NativeHarness), a database of the first    *)
(* version (Migration), the measuring kit (Measure), and what is decided    *)
(* from values alone (Placement, Serving).  They share no variable, so a    *)
(* behaviour is one of them: `part` says which, and the others keep their   *)
(* first values.                                                            *)
(***************************************************************************)
EXTENDS Gateway, Harnesses, Measure, Migration, Placement, Presence, Server

VARIABLES part, case

-----------------------------------------------------------------------------
\* Two people who each have a view to open, one of whom asks; the limits of
\* the configuration let both be met: one grant, one event.
Slugs == [board |-> "board", plan |-> "plan"]
Views == {[user |-> "anna", harness |-> "board"], [user |-> "ben", harness |-> "plan"]}

\* One of them has two windows.
WhoseWindow == [a1 |-> "anna", a2 |-> "anna", b1 |-> "ben"]

\* A name on the allowlist, one below a blocked name, one off the list, and
\* addresses inside and outside the intranet's range, one of them an IPv4
\* address written as IPv6; answers that redirect to the blocked name.
Name(labels) == [is |-> "name", parts |-> labels]
Url(host) == [host |-> host, brackets |-> host.is \in {"v6", "mapped"}]
Wiki == Name(<<"org", "wiki">>)
WikiAds == Name(<<"org", "wiki", "ads">>)
Inside == [is |-> "mapped", parts |-> <<1, 0, 1>>]
Outside == [is |-> "v4", parts |-> <<0, 0, 1>>]
SomeUrls == {Url(h) : h \in {Wiki, WikiAds, Name(<<"org", "else">>), Inside, Outside}}

Allowlist == {[is |-> "under", host |-> Wiki, bits |-> 0]}
Blocklist == {[is |-> "exact", host |-> WikiAds, bits |-> 0]}
InnerRange == {[is |-> "range", host |-> [is |-> "v4", parts |-> <<1, 0, 0>>], bits |-> 2]}
SearchPage == Url(Name(<<"org", "wiki", "search">>))
SomeNetCaps == {{}, {<<"org">>}}
RedirectedTo == {WikiAds}

\* Two harnesses whose tools together are over the budget, one that produces
\* what the other accepts; callers who may edit both, one, or nothing.
Tool(n, k, f, c, q) == [name |-> n, kind |-> k, front |-> f, cost |-> c, confirm |-> q]
SomePackages ==
  [board |-> [tools |-> <<Tool("draw", "write", TRUE, 3, "never"), Tool("list", "read", FALSE, 2, "never")>>,
              provider |-> TRUE, says |-> <<2, 2, 2>>, accepts |-> {}, produces |-> {"outline"}],
   plans |-> [tools |-> <<Tool("clear", "write", TRUE, 2, "destructive"), Tool("sum", "compute", TRUE, 2, "never")>>,
              provider |-> TRUE, says |-> <<1>>, accepts |-> {"outline"}, produces |-> {}]]
Caller(viewer, edits, views) == [viewer |-> viewer, edits |-> edits, views |-> views]
Both == {"board", "plans"}
SomeCallers == {Caller(FALSE, Both, Both), Caller(FALSE, {"plans"}, Both),
                Caller(FALSE, {"plans"}, {"plans"}), Caller(TRUE, Both, Both)}
Guest(p, o, t, m, ok) == [put |-> p, over |-> o, traps |-> t, ok |-> ok, makes |-> m, wants |-> TRUE]

SomeGuests == {Guest(FALSE, FALSE, FALSE, "none", TRUE), Guest(TRUE, FALSE, FALSE, "outline", TRUE),
               Guest(TRUE, TRUE, TRUE, "none", TRUE), Guest(FALSE, FALSE, FALSE, "none", FALSE)}
BoardThenPlans == <<"board", "plans">>
CoreOwn == <<Tool("find_capability", "read", TRUE, 1, "never"), Tool("task.plan", "write", TRUE, 1, "never")>>

\* Two passes, one of them with Continue; an item of two messages.
KitPasses == <<[items |-> <<1, 2>>, carry |-> TRUE], [items |-> <<1>>, carry |-> FALSE]>>

Serve == INSTANCE Serving

-----------------------------------------------------------------------------
\* Clients, chains of proxies and what a client claims.
Hosts == {[family |-> 4, number |-> n] : n \in 0..2} \cup {[family |-> 6, number |-> 2]}
Hops == UNION {[1..n -> Hosts] : n \in 0..2}
Lines == [readable : BOOLEAN, hops : Hops]
Claims == {<<>>} \cup {<<line>> : line \in Lines}
            \cup {<<line, Serve!Line(<<[family |-> 4, number |-> 2]>>)>> : line \in Lines}
Trusts == {{}, {Serve!Cidr([family |-> 4, number |-> 0], 1)},
           {Serve!Cidr([family |-> 4, number |-> 1], 2), Serve!Cidr([family |-> 6, number |-> 0], 0)}}

\* Settings files that differ from an empty one in at most two keys.
Ranges == {{Serve!Cidr([family |-> 4, number |-> 1], p)} : p \in 0..2}
Writable ==
  [organisation |-> {"blank", "long", "name"}, bind |-> {"blank", "loopback", "all"},
   url |-> {"http", "https", "other"}, tls |-> {"behind-proxy", "files", "other"}, proxies |-> Ranges,
   upload |-> {0, 1, 65536, 65537}, hosts |-> {"with slug", "without slug"},
   encryption |-> {"off", "at-rest"}, provider |-> {"local", "oidc"},
   ttl |-> {<<59, 1>>, <<1, 60>>, <<30, 86400>>, <<31, 86400>>, <<5, 7>>},
   ceiling |-> {"airgapped", "online", "other"}, search |-> {"searxng", "searxng at no http address", "other"},
   registry |-> {"offline", "other"}, catalogs |-> {"directories", "no directory"}, sink |-> {"local", "other"}]
WritableFiles ==
  UNION {{[Serve!EmptyFile EXCEPT ![k] = a, ![l] = b] : a \in Writable[k], b \in Writable[l]} :
           k, l \in DOMAIN Writable}

\* Computers without a card, with one others use, with one of the processor's;
\* models that fit on the card, in part, and not at all.
Gpu(total, free, others, integrated, bw) ==
  [words |-> <<"rtx">>, total |-> total, free |-> free, others |-> others, integrated |-> integrated, bw |-> bw]
Gpus == {<<>>, <<Gpu(4096, 3000, None, FALSE, 300)>>, <<Gpu(8192, 9000, 2000, FALSE, 300)>>,
         <<Gpu(8192, 8000, None, FALSE, 0)>>, <<Gpu(4096, 4096, None, TRUE, 0), Gpu(8192, 8000, 8100, FALSE, 300)>>}
Computers == [gpus : Gpus, copy : {20}, ram : {8192, 16384, 32768}, ramFree : {4000}, diskFree : {None, 5000}]
Shapes == [weight : {2000 * MIB + 1, 9000 * MIB}, active : {1000 * MIB}, layers : {0, 7, 32},
           kv : {0, 500 * MIB + 3}, ramOnly : {0, 600 * MIB}]

Model(id, params, size, commercial, on1, here) ==
  [id |-> id, params |-> params, bytes |-> size * MIB,
   tensor |-> [core |-> size * MIB, routed |-> 0, layers |-> 32, experts |-> 0, active |-> 0, kv |-> 0],
   commercial |-> commercial, retired |-> FALSE, hidden |-> FALSE, exercised |-> on1,
   fetchable |-> TRUE, here |-> here, vision |-> 0]
Readings == {<<>>, [t \in {"no card", "8 GB"} |-> 6]}
Catalogs ==
  {<<Model("small", 4, 2500, TRUE, r, h), Model("large", 14, 9000, c, s, here)>> :
     r, s \in Readings, c, h, here \in BOOLEAN}

Maps == [core : {10, 40}, routed : {0, 90, 300}, layers : {4}, experts : {8}, active : {2}, kv : {1}]
Machines == [gpus : {<<>>, <<24>>, <<80, 80>>}, ram : {16, 128}, cores : {16}, avx512 : {TRUE}, amx : {FALSE},
             unified : BOOLEAN, pcie : {50, 100}]
Asks == [context : {2, 8}, batch : {0, 2}, quantized : BOOLEAN, reserved : {4}]

NoCase == [is |-> "none"]
Cases ==
  [is : {"address"}, claimed : Claims, client : Hosts, proxies : Hops, joins : BOOLEAN, trusted : Trusts]
    \cup [is : {"start"}, cfg : Serve!Settings]
    \cup [is : {"settings"}, file : WritableFiles, others : {{}, {"misspelt"}, {"unbuilt"}}, insecure : BOOLEAN]
    \cup [is : {"place"}, shape : Shapes, hw : Computers, cap : {None, 5}, shared : {0, 256, 1000}]
    \cup [is : {"offer"}, catalog : Catalogs, hw : Computers, decided : {"small", "none"}]
    \cup [is : {"plan"}, map : Maps, machine : Machines, ask : Asks]

-----------------------------------------------------------------------------
HostInit ==
  /\ part \in {"server", "presence", "native", "gateway", "harnesses", "migration", "measure", "cases"}
  /\ IF part = "cases" THEN case \in Cases ELSE case = NoCase
  /\ ServerInit
  /\ PresenceInit
  /\ NativeInit
  /\ NetInit
  /\ HarInit /\ (part # "harnesses" => me = Caller(FALSE, Both, Both))
  /\ MigrationInit
  /\ MeasureInit /\ (part # "measure" => entry = "away")

HostNext ==
  /\ UNCHANGED <<part, case>>
  /\ IF part = "server" THEN ServerNext ELSE UNCHANGED serverVars
  /\ IF part = "presence" THEN PresenceNext ELSE UNCHANGED presenceVars
  /\ IF part = "native" THEN NativeNext ELSE UNCHANGED nativeVars
  /\ IF part = "gateway" THEN NetNext ELSE UNCHANGED netVars
  /\ IF part = "harnesses" THEN HarNext ELSE UNCHANGED harVars
  /\ IF part = "migration" THEN MigrationNext ELSE UNCHANGED migrationVars
  /\ IF part = "measure" THEN MeasureNext ELSE UNCHANGED measureVars

hostVars == <<part, case, serverVars, presenceVars, nativeVars, netVars, harVars, migrationVars, measureVars>>
HostSpec == HostInit /\ [][HostNext]_hostVars

-----------------------------------------------------------------------------
\* A client is known by its own address, a server starts safely on settings it
\* honours, a placement asks for what the computer has, the model offered first
\* can be used there and a plan adds up (Serving, Placement).
ValuesDecide ==
  CASE case.is = "address" -> Serve!AddressIsTheClients(case.claimed, case.client, case.proxies, case.joins, case.trusted)
    [] case.is = "start" -> Serve!StartsSafely(case.cfg)
    [] case.is = "settings" -> Serve!SettingsAreHonoured(case.file, case.others, case.insecure)
    [] case.is = "place" -> PlacedSafely(case.shape, case.hw, case.cap, case.shared)
    [] case.is = "offer" -> OfferedSafely(case.catalog, case.hw, case.decided)
    [] case.is = "plan" -> PlanAddsUp(case.map, case.machine, case.ask)
    [] OTHER -> TRUE
=============================================================================
