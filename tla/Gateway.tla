------------------------------ MODULE Gateway ------------------------------
(***************************************************************************)
(* What leaves the computer: the egress gateway (gateway.rs), the web tools *)
(* and approvals that lead to it (lib.rs), a harness's own fetch            *)
(* (runtime/wasm.rs) and the endpoint a model was selected at.              *)
(*                                                                         *)
(* A host is [is, parts]: a name with its labels from the root inwards, or  *)
(* an address of a family with its bits from the highest.  A URL is         *)
(* [host, brackets]; NoHost stands for a text that holds none.              *)
(***************************************************************************)
EXTENDS Integers, Sequences, FiniteSets, SequencesExt

CONSTANTS
  Urls,                       \* the URLs that are asked for
  FirstMode, Ceiling,         \* GatewayConfig.mode and .ceiling
  Allow, Block, Intranet,     \* sets of patterns
  SearchUrl,                  \* the search service, NoUrl without one
  NetCaps,                    \* the `net` capabilities of the packages installed: sets of names
  Elsewhere,                  \* the hosts that answers redirect to
  MaxRequests, MaxBytes,      \* the session's quotas
  Pages,                      \* the sizes of the pages that come back
  MaxLog, MaxAsked            \* bounds: the log, the approvals asked for

VARIABLES
  mode, approved, requests, bytes, log,   \* Gateway
  asking, nextApproval,                   \* Core.pending of kind egress
  endpoint,                               \* where Router.chat sends its requests
  left                                    \* what left last, as it was then: a request and
                                          \* the redirects that were followed from it

netVars == <<mode, approved, requests, bytes, log, asking, nextApproval, endpoint, left>>

NoHost == [is |-> "none", parts |-> <<>>]
NoUrl == [host |-> NoHost, brackets |-> FALSE]
Modes == {"airgapped", "ask", "online"}
Rank(m) == CASE m = "airgapped" -> 0 [] m = "ask" -> 1 [] m = "online" -> 2

\* settings.rs sets the mode and the ceiling together; both are `ask` without
\* a setting.
ModesAreSet == FirstMode \in Modes /\ Ceiling \in Modes /\ Rank(FirstMode) <= Rank(Ceiling)
ASSUME NetAssumption == ModesAreSet

(***************************************************************************)
(* Hosts and patterns                                                       *)
(***************************************************************************)
Begins(parts, with) == Len(with) <= Len(parts) /\ SubSeq(parts, 1, Len(with)) = with

\* an IPv4 address written as IPv6 is the IPv4 one
Plain(host) == IF host.is = "mapped" THEN [host EXCEPT !.is = "v4"] ELSE host

InRange(address, p) ==
  /\ address.is \in {"v4", "v6", "mapped"}
  /\ Plain(address).is = Plain(p.host).is
  /\ p.bits <= Len(p.host.parts)
  /\ Begins(Plain(address).parts, SubSeq(p.host.parts, 1, p.bits))

\* a pattern is [is, host, bits]: "under" a name, a "range", or "exact"
MatchesAny(host, patterns) ==
  \E p \in patterns :
    CASE p.is = "under" -> host.is = "name" /\ Begins(host.parts, p.host.parts)
      [] p.is = "range" -> InRange(host, p)
      [] p.is = "exact" -> host = p.host

HostOf(url) == url.host
\* the package's gate reads up to the first colon: an address in brackets is
\* a name no allowlist has
UrlHost(url) == IF url.brackets THEN [is |-> "other", parts |-> <<>>] ELSE url.host

(***************************************************************************)
(* The decision                                                             *)
(***************************************************************************)
\* a mutant: a host on the allowlist is not looked up in the blocklist
CheckAllowFirst(url) ==
  LET host == HostOf(url) IN
  IF \/ host = NoHost
     \/ mode = "airgapped" /\ ~ MatchesAny(host, Intranet)
     \/ ~ MatchesAny(host, Allow \cup Intranet)
     \/ requests >= MaxRequests
     \/ bytes >= MaxBytes
  THEN "denied"
  ELSE IF mode = "ask" /\ host \notin approved THEN "needs_approval" ELSE "allowed"

Check(url) ==
  LET host == HostOf(url)
      intranet == MatchesAny(host, Intranet) IN
  IF \/ host = NoHost
     \/ mode = "airgapped" /\ ~ intranet
     \/ MatchesAny(host, Block)
     \/ Allow # {} /\ ~ MatchesAny(host, Allow) /\ ~ intranet
     \/ requests >= MaxRequests
     \/ bytes >= MaxBytes
  THEN "denied"
  ELSE IF mode = "ask" /\ host \notin approved THEN "needs_approval" ELSE "allowed"

\* the client follows the redirects of an answer by itself, past Check: no agent
\* here limits them
Leaves(to, by, ok) ==
  LET Sent(host, asked) == [to |-> host, by |-> by, mode |-> mode, approved |-> ok, asked |-> asked] IN
  \E on \in SUBSET Elsewhere : left' = {Sent(to, TRUE)} \cup {Sent(h, FALSE) : h \in on}

\* fetch: a call that fails is logged and not counted, a body that cannot be
\* read is neither
Fetch(to, by, ok) ==
  /\ Len(log) < MaxLog
  /\ Leaves(to, by, ok)
  /\ \/ log' = Append(log, [to |-> to, ok |-> FALSE]) /\ UNCHANGED <<requests, bytes>>
     \/ UNCHANGED <<requests, bytes, log>>
     \/ \E page \in Pages :
          /\ requests' = requests + 1 /\ bytes' = bytes + page
          /\ log' = Append(log, [to |-> to, ok |-> TRUE])

Same == UNCHANGED <<mode, approved, asking, nextApproval, endpoint>>
Refused == UNCHANGED netVars

(***************************************************************************)
(* The ways to it                                                           *)
(***************************************************************************)
NetInit ==
  /\ mode = FirstMode /\ approved = {} /\ requests = 0 /\ bytes = 0 /\ log = <<>>
  /\ asking = {} /\ nextApproval = 1 /\ endpoint = NoUrl /\ left = {}

\* R::SetNetworkMode: a choice above the ceiling becomes the ceiling
Clamped(m) == IF Rank(m) > Rank(Ceiling) THEN Ceiling ELSE m
SetNetworkMode(m) ==
  /\ mode' = Clamped(m)
  /\ UNCHANGED <<approved, requests, bytes, log, asking, nextApproval, endpoint, left>>

\* what a web tool brings back cannot reach the model: none is offered to it,
\* and a call from it is refused before anything runs
WEB_RESULTS_REACH_THE_MODEL == FALSE
OffersWeb(search) == mode # "airgapped" /\ WEB_RESULTS_REACH_THE_MODEL /\ (search => SearchUrl # NoUrl)

WebFetch(url, author) ==
  IF author = "agent" /\ ~ OffersWeb(FALSE) THEN Refused
  ELSE CASE Check(url) = "denied" -> Refused
         [] Check(url) = "needs_approval" ->
              /\ nextApproval <= MaxAsked
              /\ asking' = asking \cup {[id |-> nextApproval, url |-> url]}
              /\ nextApproval' = nextApproval + 1
              /\ UNCHANGED <<mode, approved, requests, bytes, log, endpoint, left>>
         [] Check(url) = "allowed" -> Fetch(HostOf(url), "web.fetch", HostOf(url) \in approved) /\ Same

\* web.search: the service's own address is not asked about; only an answer
\* that was read is counted, and nothing is logged
WebSearch(author) ==
  IF (author = "agent" /\ ~ OffersWeb(TRUE)) \/ SearchUrl = NoUrl \/ Check(SearchUrl) = "denied" THEN Refused
  ELSE /\ Leaves(HostOf(SearchUrl), "web.search", HostOf(SearchUrl) \in approved)
       /\ requests' \in {requests, requests + 1}
       /\ UNCHANGED <<bytes, log>> /\ Same

\* R::Approve of an egress: the host is approved for the session and the call
\* is made as the user's, through the same decision
Approve(p, granted) ==
  /\ p \in asking
  /\ asking' = asking \ {p}
  /\ IF ~ granted THEN UNCHANGED <<mode, approved, requests, bytes, log, nextApproval, endpoint, left>>
     ELSE LET host == HostOf(p.url) IN
          /\ approved' = approved \cup {host}
          /\ UNCHANGED <<mode, nextApproval, endpoint>>
          /\ IF Check(p.url) = "denied" THEN UNCHANGED <<requests, bytes, log, left>>
             ELSE Fetch(host, "web.fetch", TRUE)

\* the two gates of a harness: its package's names, then the gateway
MayReach(net, url) ==
  LET host == UrlHost(url) IN host.is = "name" /\ \E h \in net : Begins(host.parts, h)
HarnessFetch(net, url) ==
  IF HostOf(url) = NoHost \/ ~ MayReach(net, url) \/ Check(url) # "allowed" THEN Refused
  ELSE Fetch(HostOf(url), "harness", HostOf(url) \in approved) /\ Same

\* R::SelectModel: the endpoint is decided about once
SelectModel(url) ==
  /\ Check(url) = "allowed"
  /\ endpoint' = url
  /\ UNCHANGED <<mode, approved, requests, bytes, log, asking, nextApproval, left>>

\* a question to the model that was selected
Chat ==
  /\ endpoint # NoUrl
  /\ Leaves(HostOf(endpoint), "model", HostOf(endpoint) \in approved)
  /\ UNCHANGED <<mode, approved, requests, bytes, log, asking, nextApproval, endpoint>>

NetNext ==
  \/ \E m \in {"airgapped", "ask", "online"} : SetNetworkMode(m)
  \/ \E u \in Urls, a \in {"agent", "user"} : WebFetch(u, a)
  \/ \E a \in {"agent", "user"} : WebSearch(a)
  \/ \E p \in asking, g \in BOOLEAN : Approve(p, g)
  \/ \E n \in NetCaps, u \in Urls : HarnessFetch(n, u)
  \/ \E u \in Urls : SelectModel(u)
  \/ Chat

NetSpec == NetInit /\ [][NetNext]_netVars

(***************************************************************************)
(* Properties                                                               *)
(***************************************************************************)

\* Of what Core itself asks for, in whatever order a person, an agent or a
\* harness's logic acted: nothing left the computer outside the administrator's
\* ceiling or to a blocked host, nothing left an airgapped environment but to
\* the intranet, and in `ask` nothing went to a host no person had approved, the
\* search service apart.  Where an answer redirects to is not looked at: of what
\* follows a redirect this says only that such a request came before it.  (The
\* endpoint of a selected model is NothingLeavesAirgapped's.)
MayHaveLeft(e) ==
  /\ Rank(e.mode) <= Rank(Ceiling)
  /\ ~ MatchesAny(e.to, Block)
  /\ e.mode = "airgapped" => MatchesAny(e.to, Intranet)
  /\ e.mode = "ask" => e.approved \/ e.by = "web.search"
NothingLeavesUnasked ==
  \A e \in left : e.by # "model" =>
    IF e.asked THEN MayHaveLeft(e)
    ELSE \E first \in left : first.asked /\ first.by = e.by /\ MayHaveLeft(first)

\* `airgapped` means no egress at all: whatever leaves then goes to the
\* intranet, a question to the selected model and a redirect included.
NothingLeavesAirgapped ==
  \A e \in left : e.mode = "airgapped" => MatchesAny(e.to, Intranet)
=============================================================================
