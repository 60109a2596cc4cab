------------------------------ MODULE HostProof ------------------------------
(***************************************************************************)
(* What Core runs among, for any number of people, hosts, windows and      *)
(* calls: what leaves the computer (Gateway), who is told who is there     *)
(* (Presence), whose answer, stream and grant is whose (Server), what a    *)
(* measuring kit keeps (Measure), what comes over from a database of the   *)
(* first version (Migration), what harnesses are offered as and held to    *)
(* (Harnesses), and whose answer a native one's is (NativeHarness).        *)
(***************************************************************************)
EXTENDS Gateway, Harnesses, Measure, Migration, Presence, Server, SequenceTheorems,
        FiniteSetTheorems, WellFoundedInduction, TLAPS

-----------------------------------------------------------------------------
(* Gateway.  What left is looked at as it was when it left, so one step is *)
(* enough; but it needs the mode to stay under the ceiling.                *)

UnderCeiling == mode \in Modes /\ Rank(mode) <= Rank(Ceiling)

NetInv == UnderCeiling /\ NothingLeavesUnasked

LEMMA RankFacts ==
  ASSUME NEW m \in Modes
  PROVE  Rank(m) \in 0..2
BY DEF Rank, Modes

LEMMA ClampedFacts ==
  ASSUME NEW m \in Modes, Ceiling \in Modes
  PROVE  Clamped(m) \in Modes /\ Rank(Clamped(m)) <= Rank(Ceiling)
BY RankFacts DEF Clamped

\* What the decision stands for, whichever way it is asked.
LEMMA CheckFacts ==
  ASSUME NEW url, Check(url) # "denied"
  PROVE  /\ ~MatchesAny(HostOf(url), Block)
         /\ mode = "airgapped" => MatchesAny(HostOf(url), Intranet)
         /\ Check(url) = "allowed" /\ mode = "ask" => HostOf(url) \in approved
BY DEF Check

\* Whatever leaves leaves in the mode of that moment, what is redirected after it.
LEMMA LeavesFacts ==
  ASSUME UnderCeiling, NEW to, NEW by, NEW ok, Leaves(to, by, ok),
         ~MatchesAny(to, Block), mode = "airgapped" => MatchesAny(to, Intranet),
         mode = "ask" => ok \/ by = "web.search"
  PROVE  NothingLeavesUnasked'
<1> DEFINE Sent(host, itself) == [to |-> host, by |-> by, mode |-> mode, approved |-> ok, asked |-> itself]
<1>1. PICK hosts \in SUBSET Elsewhere : left' = {Sent(to, TRUE)} \cup {Sent(h, FALSE) : h \in hosts}
  BY DEF Leaves
<1>2. MayHaveLeft(Sent(to, TRUE))
  BY DEF MayHaveLeft, UnderCeiling
<1>3. ASSUME NEW e \in left'
      PROVE  IF e.asked THEN MayHaveLeft(e)
             ELSE \E first \in left' : first.asked /\ first.by = e.by /\ MayHaveLeft(first)
  <2>1. CASE e = Sent(to, TRUE)
    BY <1>2, <2>1
  <2>2. CASE e \in {Sent(h, FALSE) : h \in hosts}
    <3>1. ~e.asked /\ e.by = by
      BY <2>2
    <3>2. Sent(to, TRUE) \in left' /\ Sent(to, TRUE).asked /\ Sent(to, TRUE).by = by
      BY <1>1
    <3> QED
      BY <1>2, <3>1, <3>2
  <2> QED
    BY <1>1, <1>3, <2>1, <2>2
<1> QED
  BY <1>3 DEF NothingLeavesUnasked, MayHaveLeft

LEMMA NetInvInit == ModesAreSet /\ NetInit => NetInv
BY DEF ModesAreSet, NetInit, NetInv, UnderCeiling, NothingLeavesUnasked

LEMMA SameInv ==
  ASSUME NetInv, UNCHANGED <<mode, left>>
  PROVE  NetInv'
BY DEF NetInv, UnderCeiling, NothingLeavesUnasked

LEMMA NetInvNext == ModesAreSet /\ NetInv /\ [NetNext]_netVars => NetInv'
<1> SUFFICES ASSUME ModesAreSet, NetInv, [NetNext]_netVars PROVE NetInv'
  OBVIOUS
<1> USE DEF NetInv
<1>1. CASE UNCHANGED netVars
  BY <1>1, SameInv DEF netVars
<1>2. ASSUME NEW m \in Modes, SetNetworkMode(m) PROVE NetInv'
  <2>1. mode' = Clamped(m) /\ left' = left
    BY <1>2 DEF SetNetworkMode
  <2> QED
    BY <2>1, ClampedFacts DEF ModesAreSet, UnderCeiling, NothingLeavesUnasked
<1>3. ASSUME NEW u \in Urls, NEW a \in {"agent", "user"}, WebFetch(u, a) PROVE NetInv'
  <2>1. CASE UNCHANGED <<mode, left>>
    BY <2>1, SameInv
  <2>2. CASE /\ Check(u) = "allowed" /\ Same
             /\ Fetch(HostOf(u), "web.fetch", HostOf(u) \in approved)
    BY <2>2, CheckFacts, LeavesFacts DEF Fetch, Same, UnderCeiling
  <2>3. CASE Refused
    BY <2>1, <2>3 DEF Refused, netVars
  <2>4. Check(u) \in {"denied", "needs_approval", "allowed"}
    BY DEF Check
  <2>5. CASE Check(u) = "denied"
    BY <1>3, <2>3, <2>5 DEF WebFetch
  <2>6. CASE Check(u) = "needs_approval"
    BY <1>3, <2>1, <2>3, <2>6 DEF WebFetch
  <2>7. CASE Check(u) = "allowed"
    BY <1>3, <2>2, <2>3, <2>7 DEF WebFetch
  <2> QED
    BY <2>4, <2>5, <2>6, <2>7
<1>4. ASSUME NEW a \in {"agent", "user"}, WebSearch(a) PROVE NetInv'
  <2>1. CASE Refused
    BY <2>1, SameInv DEF Refused, netVars
  <2>2. CASE /\ Check(SearchUrl) # "denied" /\ Same
             /\ Leaves(HostOf(SearchUrl), "web.search", HostOf(SearchUrl) \in approved)
    BY <2>2, CheckFacts, LeavesFacts DEF Same, UnderCeiling
  <2> QED
    BY <1>4, <2>1, <2>2 DEF WebSearch
<1>5. ASSUME NEW p \in asking, NEW g \in BOOLEAN, Approve(p, g) PROVE NetInv'
  <2>1. CASE UNCHANGED <<mode, left>>
    BY <2>1, SameInv
  <2>2. CASE mode' = mode /\ Check(p.url) # "denied" /\ Fetch(HostOf(p.url), "web.fetch", TRUE)
    BY <2>2, CheckFacts, LeavesFacts DEF Fetch, UnderCeiling
  <2> QED
    BY <1>5, <2>1, <2>2 DEF Approve
<1>6. ASSUME NEW n \in NetCaps, NEW u \in Urls, HarnessFetch(n, u) PROVE NetInv'
  <2>1. CASE Refused
    BY <2>1, SameInv DEF Refused, netVars
  <2>2. CASE /\ Check(u) = "allowed" /\ Same
             /\ Fetch(HostOf(u), "harness", HostOf(u) \in approved)
    BY <2>2, CheckFacts, LeavesFacts DEF Fetch, Same, UnderCeiling
  <2> QED
    BY <1>6, <2>1, <2>2 DEF HarnessFetch
<1>7. ASSUME NEW u \in Urls, SelectModel(u) PROVE NetInv'
  BY <1>7, SameInv DEF SelectModel
<1>8. CASE Chat
  <2>1. mode' = mode /\ \A e \in left' : e.by = "model"
    BY <1>8 DEF Chat, Leaves
  <2> QED
    BY <2>1 DEF UnderCeiling, NothingLeavesUnasked
<1> QED
  BY <1>1, <1>2, <1>3, <1>4, <1>5, <1>6, <1>7, <1>8 DEF NetNext, Modes

\* Nothing Core itself asked for left the computer above the ceiling, to a
\* blocked host, from an airgapped environment but to the intranet, or in `ask`
\* to a host nobody approved, and a redirect only ever followed such a request
\* (gateway.rs check, lib.rs and wasm.rs its callers): for every list of hosts,
\* every quota and every order of requests.
THEOREM NothingEverLeavesUnasked == NetSpec => []NothingLeavesUnasked
<1>1. NetInit => NetInv
  BY NetAssumption, NetInvInit
<1>2. NetInv /\ [NetNext]_netVars => NetInv'
  BY NetAssumption, NetInvNext
<1>3. NetInv => NothingLeavesUnasked
  BY DEF NetInv
<1> QED
  BY <1>1, <1>2, <1>3, PTL DEF NetSpec

-----------------------------------------------------------------------------
(* Presence.  A place that nobody is told of again has the same windows    *)
(* there, each arrived when it did: so whoever is there was told before.   *)

PresenceTypeOK ==
  /\ DOMAIN entries \subseteq Windows
  /\ \A w \in DOMAIN entries : entries[w].place \in Teams

PresenceInv == PresenceTypeOK /\ CompanyIsCurrent

\* Who is at a place, and since when, is all that Arrivals looks at.
LEMMA SameArrivals ==
  ASSUME NEW one, NEW other, NEW place,
         \A w : (w \in DOMAIN one /\ one[w].place = place)
                  <=> (w \in DOMAIN other /\ other[w].place = place),
         \A w \in DOMAIN one : one[w].place = place => one[w].since = other[w].since
  PROVE  Arrivals(one, place) = Arrivals(other, place)
<1> DEFINE Here(t) == {w \in DOMAIN t : t[w].place = place}
           Times(t, u) == {t[w].since : w \in {x \in Here(t) : UserOf[x] = u}}
<1>1. Here(one) = Here(other)
  OBVIOUS
<1>2. ASSUME NEW u PROVE Times(one, u) = Times(other, u)
  BY <1>1
<1> HIDE DEF Times
<1>3. [u \in {UserOf[w] : w \in Here(one)} |-> Min(Times(one, u))]
      = [u \in {UserOf[w] : w \in Here(other)} |-> Min(Times(other, u))]
  BY <1>1, <1>2
<1> QED
  BY <1>3 DEF Arrivals, Times

LEMMA ArrivalsDomain ==
  ASSUME NEW table, NEW place, NEW u
  PROVE  u \in DOMAIN Arrivals(table, place)
           <=> \E y \in DOMAIN table : table[y].place = place /\ UserOf[y] = u
BY DEF Arrivals

\* What an announcement leaves of the table.
LeavesOf(after, w, place, t) ==
  /\ DOMAIN after = ((DOMAIN entries \ Silent(t)) \ {w}) \cup (IF place = Nothing THEN {} ELSE {w})
  /\ \A x \in (DOMAIN entries \ Silent(t)) \ {w} : after[x] = entries[x]
  /\ place # Nothing => after[w].place = place
  /\ place # Nothing /\ w \in DOMAIN entries \ Silent(t) /\ entries[w].place = place
       => after[w].since = entries[w].since

LEMMA AnnouncedFacts ==
  ASSUME NEW w \in Windows, NEW place \in Teams \cup {Nothing}, NEW t
  PROVE  LeavesOf(Announced(w, place, t), w, place, t)
BY DEF Announced, LeavesOf

\* A place that is not among those that changed.
LEMMA UnchangedPlace ==
  ASSUME PlacesAreReal, PresenceTypeOK,
         NEW w \in Windows, NEW place \in Teams \cup {Nothing}, NEW t,
         NEW p \in Teams, p \notin Changed(w, place, t)
  PROVE  Arrivals(Announced(w, place, t), p) = Arrivals(entries, p)
<1> DEFINE after == Announced(w, place, t)
           known == DOMAIN entries \ Silent(t)
<1>1. \A s \in Silent(t) : entries[s].place # p
  BY DEF Changed
<1>2. \/ w \in known /\ entries[w].place = place
      \/ (w \in known => entries[w].place # p) /\ place # p
  <2>1. CASE w \in known /\ entries[w].place # place
    BY <2>1 DEF Changed, PlacesAreReal
  <2>2. CASE w \notin known
    BY <2>2 DEF Changed, PlacesAreReal
  <2> QED
    BY <2>1, <2>2
<1>3. /\ DOMAIN after = (known \ {w}) \cup (IF place = Nothing THEN {} ELSE {w})
      /\ \A x \in known \ {w} : after[x] = entries[x]
      /\ place # Nothing => after[w].place = place
      /\ place # Nothing /\ w \in known /\ entries[w].place = place
           => after[w].since = entries[w].since
  <2>1. LeavesOf(after, w, place, t)
    BY AnnouncedFacts
  <2> QED
    BY <2>1 DEF LeavesOf
<1>4. Silent(t) \subseteq DOMAIN entries
  BY DEF Silent
<1>5. w \in known => entries[w].place \in Teams /\ entries[w].place # Nothing
  BY DEF PresenceTypeOK, PlacesAreReal
<1> HIDE DEF after
<1>6. ASSUME NEW x
      PROVE  /\ (x \in DOMAIN after /\ after[x].place = p)
                   <=> (x \in DOMAIN entries /\ entries[x].place = p)
             /\ x \in DOMAIN after /\ after[x].place = p => after[x].since = entries[x].since
  <2>1. CASE x = w
    BY <1>1, <1>2, <1>3, <1>4, <1>5, <2>1 DEF PlacesAreReal
  <2>2. CASE x # w
    BY <1>1, <1>3, <1>4, <2>2
  <2> QED
    BY <2>1, <2>2
<1>7. Arrivals(after, p) = Arrivals(entries, p)
  BY <1>6, SameArrivals
<1> QED
  BY <1>7 DEF after

\* Whoever is there after an announcement has been told, now or before.
LEMMA ToldByNow ==
  ASSUME PlacesAreReal, PresenceInv,
         NEW w \in Windows, NEW place \in Teams \cup {Nothing}, NEW t,
         NEW after, after = Announced(w, place, t),
         NEW x \in DOMAIN after, NEW u \in People, u = UserOf[x],
         NEW p \in Teams, p = after[x].place
  PROVE  (IF p \in Changed(w, place, t) /\ u \in DOMAIN Arrivals(after, p)
          THEN UsersAt(after, p) ELSE company[u][p]) = UsersAt(after, p)
<1>2. u \in DOMAIN Arrivals(after, p)
  BY ArrivalsDomain
<1>3. CASE p \in Changed(w, place, t)
  BY <1>2, <1>3
<1>4. CASE p \notin Changed(w, place, t)
  <2>1. Arrivals(after, p) = Arrivals(entries, p)
    BY <1>4, UnchangedPlace DEF PresenceInv
  <2>2. PICK y \in DOMAIN entries : entries[y].place = p /\ UserOf[y] = u
    BY <1>2, <2>1, ArrivalsDomain
  <2>3. company[u][p] = UsersAt(entries, p)
    BY <2>2 DEF PresenceInv, CompanyIsCurrent
  <2> QED
    BY <1>4, <2>1, <2>3 DEF UsersAt
<1> QED
  BY <1>3, <1>4

LEMMA PresenceInvNext ==
  ASSUME PlacesAreReal, PresenceInv, [PresenceNext]_presenceVars
  PROVE  PresenceInv'
<1>1. CASE UNCHANGED <<entries, company>>
  BY <1>1 DEF PresenceInv, PresenceTypeOK, CompanyIsCurrent
<1>2. ASSUME NEW w \in Windows, NEW place \in Teams \cup {Nothing}, Announce(w, place)
      PROVE  PresenceInv'
  <2>1. PICK t, after, told :
          /\ after = Announced(w, place, t)
          /\ told = [u \in People |-> [p \in Teams |->
                       IF p \in Changed(w, place, t) /\ u \in DOMAIN Arrivals(after, p)
                       THEN UsersAt(after, p) ELSE company[u][p]]]
          /\ entries' = after /\ company' = told
    BY <1>2 DEF Announce
  <2>2. /\ DOMAIN after = ((DOMAIN entries \ Silent(t)) \ {w})
                             \cup (IF place = Nothing THEN {} ELSE {w})
        /\ \A x \in (DOMAIN entries \ Silent(t)) \ {w} : after[x] = entries[x]
        /\ place # Nothing => after[w].place = place
    <3>1. LeavesOf(Announced(w, place, t), w, place, t)
      BY AnnouncedFacts
    <3> QED
      BY <2>1, <3>1 DEF LeavesOf
  <2>3. DOMAIN after \subseteq Windows /\ \A x \in DOMAIN after : after[x].place \in Teams
    BY <2>2 DEF PresenceInv, PresenceTypeOK
  <2>4. ASSUME NEW x \in DOMAIN after
        PROVE  told[UserOf[x]][after[x].place] = UsersAt(after, after[x].place)
    <3>1. UserOf[x] \in People /\ after[x].place \in Teams
      BY <2>3 DEF People
    <3>2. PICK u \in People, p \in Teams : u = UserOf[x] /\ p = after[x].place
      BY <3>1
    <3>3. told[u][p] = IF p \in Changed(w, place, t) /\ u \in DOMAIN Arrivals(after, p)
                       THEN UsersAt(after, p) ELSE company[u][p]
      BY <2>1
    <3>4. after = Announced(w, place, t)
      BY <2>1
    <3>5. (IF p \in Changed(w, place, t) /\ u \in DOMAIN Arrivals(after, p)
           THEN UsersAt(after, p) ELSE company[u][p]) = UsersAt(after, p)
      BY <3>2, <3>4, ToldByNow
    <3> QED
      BY <3>2, <3>3, <3>5
  <2> QED
    BY <2>1, <2>3, <2>4 DEF PresenceInv, PresenceTypeOK, CompanyIsCurrent
<1> QED
  BY <1>1, <1>2 DEF PresenceNext, Wait, presenceVars

\* Whoever is at a board was last told exactly who is there and in which
\* order they came (presence.rs announce and sweep, lib.rs R::Presence): for
\* any number of windows, people and workspaces, however the announcements
\* and the silences fall.
THEOREM CompanyStaysCurrent == PresenceSpec => []CompanyIsCurrent
<1>1. PresenceInit => PresenceInv
  BY DEF PresenceInit, PresenceInv, PresenceTypeOK, CompanyIsCurrent
<1>2. PresenceInv /\ [PresenceNext]_presenceVars => PresenceInv'
  BY PresenceAssumption, PresenceInvNext
<1>3. PresenceInv => CompanyIsCurrent
  BY DEF PresenceInv
<1> QED
  BY <1>1, <1>2, <1>3, PTL DEF PresenceSpec

-----------------------------------------------------------------------------
(* Server: what the variables hold.                                        *)

Asked == [user : Users \cup {"system"}, kind : {"request"}, harness : {"none"}]
           \cup [user : Users, kind : {"open", "file"}, harness : Surfaces]
Request == [id : Nat, asked : Asked]
Answer == [is : {"answer"}, id : Nat, asked : Asked, ok : BOOLEAN]
Event == [is : {"event"}, to : Users \cup {All}, n : Nat]
Missed == [is |-> "missed"]
Shown == Event \cup {Missed}
Origins == {Slug[h] : h \in Surfaces} \cup {"none"}

Called == [asked : Asked, on : Nat, token : Nat, origin : Origins, phase : Phases,
           id : Nat, answer : SUBSET Answer]
Socket == [user : Users, open : BOOLEAN, seen : Seq(Shown), from : Nat, at : Nat]
Grant == [token : Nat, user : Users, harness : Surfaces, slug : Origins]

CallsTyped == calls \in Seq(Called) /\ nextId \in Nat
QueuesTyped ==
  /\ toCore \in Seq(Request)
  /\ fromCore \in Seq(Answer \cup Event)
  /\ events \in Nat
StreamsTyped ==
  /\ \A u \in DOMAIN streams : streams[u] \in Seq(Event)
  /\ sockets \in Seq(Socket)
GrantsTyped == grants \in Seq(Grant)

ServerTypeOK == CallsTyped /\ QueuesTyped /\ StreamsTyped /\ GrantsTyped

\* A sequence is its indices; one more at the end, one less at the head.
LEMMA SetOfAppend ==
  ASSUME NEW T, NEW s \in Seq(T), NEW e \in T
  PROVE  ToSet(Append(s, e)) = ToSet(s) \cup {e}
BY AppendProperties DEF ToSet

LEMMA SetOfTail ==
  ASSUME NEW T, NEW s \in Seq(T), s # <<>>
  PROVE  ToSet(s) = {Head(s)} \cup ToSet(Tail(s))
<1>1. /\ Tail(s) \in Seq(T) /\ Len(Tail(s)) = Len(s) - 1 /\ Len(s) \in Nat \ {0}
      /\ \A i \in 1..Len(Tail(s)) : Tail(s)[i] = s[i + 1]
  BY HeadTailProperties, EmptySeq
<1>2. Head(s) = s[1]
  OBVIOUS
<1>3. \A i \in 1..Len(s) : i = 1 \/ (i - 1 \in 1..Len(Tail(s)) /\ s[i] = Tail(s)[i - 1])
  BY <1>1
<1>4. ASSUME NEW x \in ToSet(s) PROVE x = Head(s) \/ x \in ToSet(Tail(s))
  <2>1. PICK i \in 1..Len(s) : x = s[i]
    BY DEF ToSet
  <2>2. DOMAIN Tail(s) = 1..Len(Tail(s))
    BY <1>1
  <2> QED
    BY <1>2, <1>3, <2>1, <2>2 DEF ToSet
<1>5. \A i \in 1..Len(Tail(s)) : i + 1 \in 1..Len(s)
  BY <1>1
<1>6. \A x \in ToSet(Tail(s)) : x \in ToSet(s)
  BY <1>1, <1>5 DEF ToSet
<1>7. Head(s) \in ToSet(s)
  BY <1>1, <1>2 DEF ToSet
<1> QED
  BY <1>4, <1>6, <1>7

\* One call moves on: the others are as they were, and so is what it asked.
LEMMA MoveFacts ==
  ASSUME calls \in Seq(Called), NEW c \in DOMAIN calls, NEW phase \in Phases, Move(c, phase)
  PROVE  /\ calls' \in Seq(Called) /\ Len(calls') = Len(calls)
         /\ DOMAIN calls' = DOMAIN calls
         /\ \A d \in DOMAIN calls : d # c => calls'[d] = calls[d]
         /\ calls'[c].phase = phase /\ calls'[c].id = calls[c].id
         /\ calls'[c].asked = calls[c].asked /\ calls'[c].token = calls[c].token
         /\ calls'[c].origin = calls[c].origin /\ calls'[c].answer = calls[c].answer
<1>1. calls[c] \in Called
  BY ElementOfSeq
<1> DEFINE new == [calls[c] EXCEPT !.phase = phase]
<1>2. new \in Called
  BY <1>1 DEF Called
<1>3. calls' = [calls EXCEPT ![c] = new]
  BY DEF Move
<1>4. /\ new.phase = phase /\ new.id = calls[c].id /\ new.asked = calls[c].asked
      /\ new.token = calls[c].token /\ new.origin = calls[c].origin
      /\ new.answer = calls[c].answer
  BY <1>1 DEF Called
<1> HIDE DEF new
<1>5. calls' \in Seq(Called) /\ Len(calls') = Len(calls)
  BY <1>2, <1>3, ExceptSeq, LenProperties
<1>6. DOMAIN calls' = DOMAIN calls /\ calls'[c] = new
  BY <1>3
<1>7. \A d \in DOMAIN calls : d # c => calls'[d] = calls[d]
  BY <1>3
<1> QED
  BY <1>4, <1>5, <1>6, <1>7

\* A call is sent: it has the next id, and the rest is as it was.
LEMMA CallAsFacts ==
  ASSUME NEW begun \in Seq(Called), NEW c \in DOMAIN begun, nextId \in Nat, CallAs(c, begun)
  PROVE  /\ calls' \in Seq(Called) /\ Len(calls') = Len(begun)
         /\ DOMAIN calls' = DOMAIN begun
         /\ \A d \in DOMAIN begun : d # c => calls'[d] = begun[d]
         /\ calls'[c].phase = "sent" /\ calls'[c].id = nextId
         /\ calls'[c].asked = begun[c].asked /\ calls'[c].token = begun[c].token
         /\ calls'[c].origin = begun[c].origin /\ calls'[c].answer = begun[c].answer
<1>1. begun[c] \in Called
  BY ElementOfSeq
<1> DEFINE new == [begun[c] EXCEPT !.phase = "sent", !.id = nextId]
<1>2. new \in Called
  BY <1>1 DEF Called, Phases
<1>3. calls' = [begun EXCEPT ![c] = new]
  BY <1>1 DEF CallAs, Called
<1>4. /\ new.phase = "sent" /\ new.id = nextId /\ new.asked = begun[c].asked
      /\ new.token = begun[c].token /\ new.origin = begun[c].origin
      /\ new.answer = begun[c].answer
  BY <1>1 DEF Called
<1> HIDE DEF new
<1>5. calls' \in Seq(Called) /\ Len(calls') = Len(begun)
  BY <1>2, <1>3, ExceptSeq, LenProperties
<1>6. DOMAIN calls' = DOMAIN begun /\ calls'[c] = new
  BY <1>3
<1>7. \A d \in DOMAIN begun : d # c => calls'[d] = begun[d]
  BY <1>3
<1> QED
  BY <1>4, <1>5, <1>6, <1>7

-----------------------------------------------------------------------------
(* Server: an id is on its way to Core or back while its call waits, it is *)
(* never given twice, and it is never asked for anything else.             *)

Way == {<<m.id, m.asked>> : m \in ToSet(toCore)}
         \cup {<<m.id, m.asked>> : m \in {a \in ToSet(fromCore) : a.is = "answer"}}

RouteInv ==
  /\ \A i \in DOMAIN waitingFor : i \in Nat /\ i < nextId /\ waitingFor[i] \in DOMAIN calls
  /\ \A w \in Way :
       /\ w[1] \in Nat /\ w[1] < nextId
       /\ w[1] \in DOMAIN waitingFor => calls[waitingFor[w[1]]].asked = w[2]
  /\ \A c \in DOMAIN calls :
       /\ \A m \in calls[c].answer : m.asked = calls[c].asked
       /\ calls[c].phase = "sent" =>
            /\ calls[c].id \in DOMAIN waitingFor /\ waitingFor[calls[c].id] = c
            /\ \E w \in Way : w[1] = calls[c].id

OneCore == core \in BOOLEAN /\ made = IF core THEN 1 ELSE 0

LEMMA WayIsOnTheWay ==
  ASSUME NEW w \in Way PROVE w[1] \in OnTheWay
BY DEF Way, OnTheWay

LEMMA RouteImplies == RouteInv /\ OneCore => AnswersFindTheirCaller
<1> SUFFICES ASSUME RouteInv, OneCore PROVE AnswersFindTheirCaller
  OBVIOUS
<1>1. made <= 1
  BY DEF OneCore
<1>2. ASSUME NEW c \in DOMAIN calls, calls[c].phase = "sent"
      PROVE  calls[c].id \in DOMAIN waitingFor \cap OnTheWay /\ waitingFor[calls[c].id] = c
  <2>1. PICK w \in Way : w[1] = calls[c].id
    BY <1>2 DEF RouteInv
  <2> QED
    BY <1>2, <2>1, WayIsOnTheWay DEF RouteInv
<1> QED
  BY <1>1, <1>2 DEF RouteInv, AnswersFindTheirCaller

LEMMA WaySent ==
  ASSUME QueuesTyped, NEW m \in Request,
         toCore' = Append(toCore, m), fromCore' = fromCore
  PROVE  Way' = Way \cup {<<m.id, m.asked>>}
<1>1. toCore \in Seq(Request)
  BY DEF QueuesTyped
<1>2. ToSet(Append(toCore, m)) = ToSet(toCore) \cup {m}
  BY <1>1, SetOfAppend
<1> QED
  BY <1>2 DEF Way

LEMMA WayAnswered ==
  ASSUME QueuesTyped, CoreAnswers
  PROVE  Way' = Way
<1>1. PICK ok \in BOOLEAN :
        fromCore' = Append(fromCore, [is |-> "answer", id |-> Head(toCore).id,
                                      asked |-> Head(toCore).asked, ok |-> ok])
  BY DEF CoreAnswers
<1> DEFINE m == Head(toCore)
           a == [is |-> "answer", id |-> m.id, asked |-> m.asked, ok |-> ok]
<1>2. m \in Request
  BY HeadTailProperties DEF CoreAnswers, QueuesTyped
<1>3. a \in Answer /\ a.is = "answer" /\ a.id = m.id /\ a.asked = m.asked
  BY <1>2 DEF Answer, Request
<1>4. ToSet(toCore) = {m} \cup ToSet(toCore')
  BY SetOfTail DEF CoreAnswers, QueuesTyped
<1> HIDE DEF m
<1>5. fromCore' = Append(fromCore, a)
  BY <1>1 DEF m
<1> HIDE DEF a
<1>6. ToSet(fromCore') = ToSet(fromCore) \cup {a}
  BY <1>3, <1>5, SetOfAppend DEF QueuesTyped
<1> QED
  BY <1>3, <1>4, <1>6 DEF Way

LEMMA WayPumped ==
  ASSUME QueuesTyped, fromCore # <<>>, fromCore' = Tail(fromCore), toCore' = toCore
  PROVE  /\ Head(fromCore).is = "answer"
              => Way = Way' \cup {<<Head(fromCore).id, Head(fromCore).asked>>}
         /\ Head(fromCore).is # "answer" => Way' = Way
<1>1. ToSet(fromCore) = {Head(fromCore)} \cup ToSet(fromCore')
  BY SetOfTail DEF QueuesTyped
<1> QED
  BY <1>1 DEF Way

LEMMA WaySaid ==
  ASSUME QueuesTyped, NEW e \in Event, fromCore' = Append(fromCore, e), toCore' = toCore
  PROVE  Way' = Way
<1>1. ToSet(fromCore') = ToSet(fromCore) \cup {e}
  BY SetOfAppend DEF QueuesTyped
<1>2. e.is # "answer"
  BY DEF Event
<1> QED
  BY <1>1, <1>2 DEF Way

\* Nothing is sent, answered or forgotten, whatever else becomes of a call.
LEMMA RouteSame ==
  ASSUME RouteInv, Way' = Way, UNCHANGED <<waitingFor, nextId>>,
         \A d \in DOMAIN calls :
           /\ d \in DOMAIN calls'
           /\ calls'[d].asked = calls[d].asked /\ calls'[d].answer = calls[d].answer
           /\ calls'[d].phase = "sent" => calls[d].phase = "sent" /\ calls'[d].id = calls[d].id,
         \A d \in DOMAIN calls' : d \notin DOMAIN calls =>
           calls'[d].phase # "sent" /\ calls'[d].answer = {}
  PROVE  RouteInv'
<1>1. \A i \in DOMAIN waitingFor' : i \in Nat /\ i < nextId' /\ waitingFor'[i] \in DOMAIN calls'
  BY DEF RouteInv
<1>2. \A w \in Way' :
       /\ w[1] \in Nat /\ w[1] < nextId'
       /\ w[1] \in DOMAIN waitingFor' => calls'[waitingFor'[w[1]]].asked = w[2]
  BY DEF RouteInv
<1>3. ASSUME NEW d \in DOMAIN calls'
      PROVE  \A m \in calls'[d].answer : m.asked = calls'[d].asked
  BY DEF RouteInv
<1>4. ASSUME NEW d \in DOMAIN calls', calls'[d].phase = "sent"
      PROVE  /\ calls'[d].id \in DOMAIN waitingFor' /\ waitingFor'[calls'[d].id] = d
             /\ \E w \in Way' : w[1] = calls'[d].id
  BY <1>4 DEF RouteInv
<1> QED
  BY <1>1, <1>2, <1>3, <1>4 DEF RouteInv

\* A call is sent: its id is new, so it is nobody else's.
LEMMA RouteSend ==
  ASSUME RouteInv, CallsTyped, QueuesTyped, fromCore' = fromCore,
         NEW begun \in Seq(Called), NEW c \in DOMAIN begun, CallAs(c, begun),
         \A d \in DOMAIN calls : d \in DOMAIN begun /\ begun[d] = calls[d],
         \A d \in DOMAIN begun : d \notin DOMAIN calls => d = c /\ begun[d].answer = {}
  PROVE  RouteInv'
<1>1. nextId \in Nat /\ nextId' = nextId + 1
  BY DEF CallsTyped, CallAs
<1>2. /\ DOMAIN calls' = DOMAIN begun
      /\ \A d \in DOMAIN begun : d # c => calls'[d] = begun[d]
      /\ calls'[c].phase = "sent" /\ calls'[c].id = nextId
      /\ calls'[c].asked = begun[c].asked /\ calls'[c].answer = begun[c].answer
  BY <1>1, CallAsFacts
<1>3. /\ DOMAIN waitingFor' = DOMAIN waitingFor \cup {nextId}
      /\ waitingFor'[nextId] = c
      /\ \A j \in DOMAIN waitingFor : waitingFor'[j] = waitingFor[j]
  <2>1. nextId \notin DOMAIN waitingFor
    BY <1>1 DEF RouteInv
  <2>2. waitingFor' = Put(waitingFor, nextId, c)
    BY DEF CallAs
  <2> QED
    BY <2>1, <2>2 DEF Put
<1>4. begun[c] \in Called
  BY ElementOfSeq
<1>5. Way' = Way \cup {<<nextId, begun[c].asked>>}
  <2> DEFINE m == [id |-> nextId, asked |-> begun[c].asked]
  <2>1. m \in Request /\ m.id = nextId /\ m.asked = begun[c].asked
    BY <1>1, <1>4 DEF Request, Called
  <2>2. toCore' = Append(toCore, m)
    BY DEF CallAs
  <2> HIDE DEF m
  <2>3. Way' = Way \cup {<<m.id, m.asked>>}
    BY <2>1, <2>2, WaySent
  <2> QED
    BY <2>1, <2>3
<1>6. \A d \in DOMAIN calls : d \in DOMAIN calls' /\ calls'[d].asked = calls[d].asked
                              /\ calls'[d].answer = calls[d].answer
  BY <1>2
<1>7. \A i \in DOMAIN waitingFor' : i \in Nat /\ i < nextId' /\ waitingFor'[i] \in DOMAIN calls'
  BY <1>1, <1>2, <1>3, <1>6 DEF RouteInv
<1>8. ASSUME NEW w \in Way'
      PROVE  /\ w[1] \in Nat /\ w[1] < nextId'
             /\ w[1] \in DOMAIN waitingFor' => calls'[waitingFor'[w[1]]].asked = w[2]
  <2>1. CASE w \in Way
    <3>1. w[1] \in Nat /\ w[1] < nextId
      BY <2>1 DEF RouteInv
    <3>2. w[1] \in DOMAIN waitingFor' => w[1] \in DOMAIN waitingFor
      BY <1>1, <1>3, <3>1
    <3> QED
      BY <1>1, <1>3, <1>6, <2>1, <3>1, <3>2 DEF RouteInv
  <2>2. CASE w = <<nextId, begun[c].asked>>
    BY <1>1, <1>2, <1>3, <2>2
  <2> QED
    BY <1>5, <2>1, <2>2
<1>9. ASSUME NEW d \in DOMAIN calls'
      PROVE  \A m \in calls'[d].answer : m.asked = calls'[d].asked
  BY <1>2, <1>6 DEF RouteInv
<1>10. ASSUME NEW d \in DOMAIN calls', calls'[d].phase = "sent"
       PROVE  /\ calls'[d].id \in DOMAIN waitingFor' /\ waitingFor'[calls'[d].id] = d
              /\ \E w \in Way' : w[1] = calls'[d].id
  <2>1. CASE d = c
    <3>1. <<nextId, begun[c].asked>>[1] = nextId
      OBVIOUS
    <3> QED
      BY <1>2, <1>3, <1>5, <2>1, <3>1
  <2>2. CASE d # c
    <3>1. d \in DOMAIN calls /\ calls'[d] = calls[d]
      BY <1>2, <2>2
    <3>2. calls[d].id \in DOMAIN waitingFor /\ waitingFor[calls[d].id] = d
          /\ \E w \in Way : w[1] = calls[d].id
      BY <1>10, <3>1 DEF RouteInv
    <3> QED
      BY <1>3, <1>5, <3>1, <3>2
  <2> QED
    BY <2>1, <2>2
<1> QED
  BY <1>7, <1>8, <1>9, <1>10 DEF RouteInv

\* An answer is given to the call that waits for its id, and the id goes.
LEMMA RoutePump ==
  ASSUME RouteInv, CallsTyped, QueuesTyped, fromCore # <<>>, fromCore' = Tail(fromCore),
         NEW m \in Answer, m = Head(fromCore), PumpAnswer(m), UNCHANGED <<toCore, nextId>>
  PROVE  /\ RouteInv' /\ calls' \in Seq(Called) /\ DOMAIN calls' = DOMAIN calls
         /\ \A d \in DOMAIN calls :
              /\ calls'[d].asked = calls[d].asked /\ calls'[d].token = calls[d].token
              /\ calls'[d].origin = calls[d].origin
              /\ calls[d].phase # "sent" => calls'[d] = calls[d]
<1>1. Way = Way' \cup {<<m.id, m.asked>>}
  BY WayPumped DEF Answer
<1>2. CASE m.id \notin DOMAIN waitingFor
  <2>1. UNCHANGED <<waitingFor, calls>>
    BY <1>2 DEF PumpAnswer
  <2>2. ASSUME NEW d \in DOMAIN calls, calls[d].phase = "sent"
        PROVE  \E w \in Way' : w[1] = calls[d].id
    BY <1>1, <1>2, <2>2 DEF RouteInv
  <2>3. RouteInv'
    BY <1>1, <2>1, <2>2 DEF RouteInv
  <2> QED
    BY <2>1, <2>3 DEF CallsTyped
<1>3. CASE m.id \in DOMAIN waitingFor
  <2> DEFINE c == waitingFor[m.id]
  <2>1. c \in DOMAIN calls /\ calls[c].asked = m.asked
    <3>1. PICK w \in Way : w = <<m.id, m.asked>>
      BY <1>1
    <3>2. w[1] = m.id /\ w[2] = m.asked
      BY <3>1
    <3> QED
      BY <1>3, <3>2 DEF RouteInv
  <2>2. calls[c] \in Called
    BY <2>1, ElementOfSeq DEF CallsTyped
  <2> DEFINE new == [calls[c] EXCEPT !.phase = "answered", !.answer = {m}]
  <2>3. /\ new \in Called /\ new.phase = "answered" /\ new.answer = {m}
        /\ new.asked = calls[c].asked /\ new.token = calls[c].token
        /\ new.origin = calls[c].origin
    BY <2>2 DEF Called, Phases
  <2>4. calls' = IF calls[c].phase # "sent" THEN calls ELSE [calls EXCEPT ![c] = new]
    <3>1. CASE calls[c].phase # "sent"
      BY <1>3, <3>1 DEF PumpAnswer
    <3>2. CASE calls[c].phase = "sent"
      BY <1>3, <2>1, <2>2, <3>2 DEF PumpAnswer, Called
    <3> QED
      BY <3>1, <3>2
  <2>5. waitingFor' = [i \in DOMAIN waitingFor \ {m.id} |-> waitingFor[i]]
    BY <1>3 DEF PumpAnswer
  <2> HIDE DEF new
  <2>6. calls' \in Seq(Called)
    <3>1. calls \in Seq(Called)
      BY DEF CallsTyped
    <3>2. [calls EXCEPT ![c] = new] \in Seq(Called)
      BY <2>1, <2>3, <3>1, ExceptSeq, LenProperties
    <3> QED
      BY <2>4, <3>1, <3>2
  <2>7. /\ DOMAIN calls' = DOMAIN calls
        /\ \A d \in DOMAIN calls : d # c => calls'[d] = calls[d]
        /\ calls[c].phase # "sent" => calls'[c] = calls[c]
        /\ calls[c].phase = "sent" => calls'[c] = new
    BY <2>1, <2>4
  <2> HIDE DEF c
  <2>8. c = waitingFor[m.id]
    BY DEF c
  <2>9. \A d \in DOMAIN calls :
          /\ calls'[d].asked = calls[d].asked /\ calls'[d].token = calls[d].token
          /\ calls'[d].origin = calls[d].origin
    BY <2>3, <2>7
  <2>10. \A i \in DOMAIN waitingFor' : i \in Nat /\ i < nextId' /\ waitingFor'[i] \in DOMAIN calls'
    BY <2>5, <2>7 DEF RouteInv
  <2>11. \A w \in Way' :
           /\ w[1] \in Nat /\ w[1] < nextId'
           /\ w[1] \in DOMAIN waitingFor' => calls'[waitingFor'[w[1]]].asked = w[2]
    BY <1>1, <2>5, <2>9 DEF RouteInv
  <2>12. ASSUME NEW d \in DOMAIN calls'
         PROVE  \A a \in calls'[d].answer : a.asked = calls'[d].asked
    BY <2>1, <2>3, <2>7 DEF RouteInv
  <2>13. ASSUME NEW d \in DOMAIN calls', calls'[d].phase = "sent"
         PROVE  /\ calls'[d].id \in DOMAIN waitingFor' /\ waitingFor'[calls'[d].id] = d
                /\ \E w \in Way' : w[1] = calls'[d].id
    <3>1. d # c /\ d \in DOMAIN calls /\ calls'[d] = calls[d]
      BY <2>3, <2>7, <2>13
    <3>2. calls[d].id \in DOMAIN waitingFor /\ waitingFor[calls[d].id] = d
      BY <2>13, <3>1 DEF RouteInv
    <3>3. PICK w \in Way : w[1] = calls[d].id
      BY <2>13, <3>1 DEF RouteInv
    <3>4. calls[d].id # m.id
      BY <2>8, <3>1, <3>2
    <3>5. w \in Way'
      BY <1>1, <3>3, <3>4
    <3> QED
      BY <2>5, <3>1, <3>2, <3>3, <3>4, <3>5
  <2>14. RouteInv'
    BY <2>10, <2>11, <2>12, <2>13 DEF RouteInv
  <2> QED
    BY <2>6, <2>7, <2>9, <2>14
<1> QED
  BY <1>2, <1>3

\* A call that has waited too long gives up its id, and no other's.
LEMMA RouteTimeOut ==
  ASSUME RouteInv, CallsTyped, NEW c \in DOMAIN calls, TimeOut(c)
  PROVE  RouteInv'
<1>1. "late" \in Phases /\ Move(c, "late") /\ calls \in Seq(Called)
  BY DEF Phases, TimeOut, CallsTyped
<1>2. /\ DOMAIN calls' = DOMAIN calls
      /\ \A d \in DOMAIN calls : d # c => calls'[d] = calls[d]
      /\ calls'[c].phase = "late" /\ calls'[c].asked = calls[c].asked
      /\ calls'[c].answer = calls[c].answer
  BY <1>1, MoveFacts
<1>3. /\ calls[c].phase = "sent" /\ UNCHANGED <<toCore, fromCore, nextId>>
      /\ waitingFor' = [i \in DOMAIN waitingFor \ {calls[c].id} |-> waitingFor[i]]
  BY DEF TimeOut
<1>4. waitingFor[calls[c].id] = c
  BY <1>3 DEF RouteInv
<1>5. Way' = Way
  BY <1>3 DEF Way
<1>6. \A i \in DOMAIN waitingFor' : i \in Nat /\ i < nextId' /\ waitingFor'[i] \in DOMAIN calls'
  BY <1>2, <1>3 DEF RouteInv
<1>7. \A w \in Way' :
        /\ w[1] \in Nat /\ w[1] < nextId'
        /\ w[1] \in DOMAIN waitingFor' => calls'[waitingFor'[w[1]]].asked = w[2]
  BY <1>2, <1>3, <1>5 DEF RouteInv
<1>8. ASSUME NEW d \in DOMAIN calls'
      PROVE  \A m \in calls'[d].answer : m.asked = calls'[d].asked
  BY <1>2 DEF RouteInv
<1>9. ASSUME NEW d \in DOMAIN calls', calls'[d].phase = "sent"
      PROVE  /\ calls'[d].id \in DOMAIN waitingFor' /\ waitingFor'[calls'[d].id] = d
             /\ \E w \in Way' : w[1] = calls'[d].id
  <2>1. d # c /\ d \in DOMAIN calls /\ calls'[d] = calls[d]
    BY <1>2, <1>9
  <2>2. /\ calls[d].id \in DOMAIN waitingFor /\ waitingFor[calls[d].id] = d
        /\ \E w \in Way : w[1] = calls[d].id
    BY <1>9, <2>1 DEF RouteInv
  <2> QED
    BY <1>3, <1>4, <1>5, <2>1, <2>2
<1> QED
  BY <1>6, <1>7, <1>8, <1>9 DEF RouteInv

LEMMA CallFacts ==
  ASSUME NEW what \in Asked
  PROVE  /\ Call(what) \in Called /\ Call(what).answer = {} /\ Call(what).phase = "arrived"
         /\ Call(what).asked = what
BY DEF Call, Called, Phases, NoCall, Origins

\* A new call comes last, and is sent at once where the Core is there.
LEMMA BeginFacts ==
  ASSUME RouteInv, CallsTyped, QueuesTyped, fromCore' = fromCore,
         NEW call \in Called, call.answer = {}, call.phase = "arrived", Begin(call)
  PROVE  /\ RouteInv' /\ calls' \in Seq(Called) /\ nextId' \in Nat /\ toCore' \in Seq(Request)
         /\ \A d \in DOMAIN calls : d \in DOMAIN calls' /\ calls'[d] = calls[d]
         /\ \A d \in DOMAIN calls' : d \notin DOMAIN calls =>
              /\ calls'[d].asked = call.asked /\ calls'[d].token = call.token
              /\ calls'[d].origin = call.origin
<1> DEFINE begun == Append(calls, call)
           n == Len(calls) + 1
<1>1. /\ calls \in Seq(Called) /\ nextId \in Nat /\ Len(calls) \in Nat
      /\ DOMAIN calls = 1..Len(calls) /\ toCore \in Seq(Request)
  BY LenProperties DEF CallsTyped, QueuesTyped
<1>2. /\ begun \in Seq(Called) /\ DOMAIN begun = 1..n
      /\ \A d \in DOMAIN calls : begun[d] = calls[d]
      /\ begun[n] = call
  BY <1>1, AppendProperties
<1>3. /\ n \in DOMAIN begun /\ \A d \in DOMAIN calls : d \in DOMAIN begun /\ d # n
      /\ \A d \in DOMAIN begun : d \notin DOMAIN calls => d = n
  BY <1>1, <1>2
<1> HIDE DEF begun, n
<1>4. CASE core
  <2>1. CallAs(n, begun)
    BY <1>4 DEF Begin, begun, n
  <2>2. RouteInv'
    BY <1>2, <1>3, <2>1, RouteSend
  <2>3. /\ calls' \in Seq(Called) /\ DOMAIN calls' = DOMAIN begun
        /\ \A d \in DOMAIN begun : d # n => calls'[d] = begun[d]
        /\ calls'[n].asked = begun[n].asked /\ calls'[n].token = begun[n].token
        /\ calls'[n].origin = begun[n].origin
    BY <1>1, <1>2, <1>3, <2>1, CallAsFacts
  <2>4. nextId' \in Nat
    BY <1>1, <2>1 DEF CallAs
  <2>5. toCore' \in Seq(Request)
    <3>1. [id |-> nextId, asked |-> begun[n].asked] \in Request
      BY <1>1, <1>2 DEF Request, Called
    <3>2. toCore' = Append(toCore, [id |-> nextId, asked |-> begun[n].asked])
      BY <2>1 DEF CallAs
    <3> QED
      BY <1>1, <3>1, <3>2, AppendProperties
  <2> QED
    BY <1>2, <1>3, <2>2, <2>3, <2>4, <2>5
<1>5. CASE ~core
  <2>1. calls' = begun /\ UNCHANGED <<toCore, waitingFor, nextId>>
    BY <1>5 DEF Begin, begun
  <2>2. Way' = Way
    BY <2>1 DEF Way
  <2>3. \A d \in DOMAIN calls' : d \notin DOMAIN calls =>
          calls'[d].phase # "sent" /\ calls'[d].answer = {}
    BY <1>2, <1>3, <2>1
  <2>4. \A d \in DOMAIN calls : d \in DOMAIN calls' /\ calls'[d] = calls[d]
    BY <1>2, <1>3, <2>1
  <2>5. RouteInv'
    BY <2>1, <2>2, <2>3, <2>4, RouteSame
  <2> QED
    BY <1>1, <1>2, <1>3, <2>1, <2>4, <2>5
<1> QED
  BY <1>4, <1>5

-----------------------------------------------------------------------------
(* Server: what a step does to the calls.                                  *)

Kept(d) ==
  /\ calls'[d].asked = calls[d].asked /\ calls'[d].token = calls[d].token
  /\ calls'[d].origin = calls[d].origin
  /\ calls[d].phase = "shown" => calls'[d].phase = "shown" /\ calls'[d].answer = calls[d].answer

\* A file is asked for under a grant, as its user and for its view.
UnderGrant(d, g) ==
  /\ calls'[d].token = g.token /\ calls'[d].origin = g.slug
  /\ calls'[d].asked = [user |-> g.user, kind |-> "file", harness |-> g.harness]

CallsStep ==
  /\ CallsTyped' /\ toCore' \in Seq(Request) /\ RouteInv'
  /\ \A d \in DOMAIN calls : d \in DOMAIN calls' /\ Kept(d)
  /\ \A d \in DOMAIN calls' : d \notin DOMAIN calls /\ calls'[d].asked.kind = "file" =>
       \E g \in ToSet(grants) : UnderGrant(d, g)

\* A call as anyone makes it but a frame.
LEMMA BeginStep ==
  ASSUME RouteInv, CallsTyped, QueuesTyped, fromCore' = fromCore,
         NEW call \in Called, call.answer = {}, call.phase = "arrived",
         call.asked.kind # "file", Begin(call)
  PROVE  CallsStep
BY BeginFacts DEF CallsStep, CallsTyped, Kept

\* Nobody's call but c moves, and c neither to `sent` nor from `shown`.
LEMMA MoveStep ==
  ASSUME RouteInv, CallsTyped, QueuesTyped, NEW c \in DOMAIN calls, NEW phase \in Phases,
         Move(c, phase), phase # "sent", calls[c].phase # "shown",
         UNCHANGED <<toCore, nextId>>, RouteInv' \/ (Way' = Way /\ waitingFor' = waitingFor)
  PROVE  CallsStep
<1>1. calls \in Seq(Called)
  BY DEF CallsTyped
<1>2. /\ calls' \in Seq(Called) /\ DOMAIN calls' = DOMAIN calls
      /\ \A d \in DOMAIN calls : d # c => calls'[d] = calls[d]
      /\ calls'[c].phase = phase /\ calls'[c].id = calls[c].id
      /\ calls'[c].asked = calls[c].asked /\ calls'[c].token = calls[c].token
      /\ calls'[c].origin = calls[c].origin /\ calls'[c].answer = calls[c].answer
  BY <1>1, MoveFacts
<1>3. \A d \in DOMAIN calls : Kept(d)
  BY <1>2 DEF Kept
<1>4. RouteInv'
  <2>1. CASE Way' = Way /\ waitingFor' = waitingFor
    BY <1>2, <2>1, RouteSame
  <2> QED
    BY <2>1
<1> QED
  BY <1>2, <1>3, <1>4 DEF CallsStep, CallsTyped, QueuesTyped

LEMMA SameStep ==
  ASSUME RouteInv, CallsTyped, QueuesTyped, Way' = Way, UNCHANGED <<calls, nextId, waitingFor>>,
         toCore' \in Seq(Request)
  PROVE  CallsStep
<1>1. RouteInv'
  BY DEF RouteInv
<1> QED
  BY <1>1 DEF CallsStep, CallsTyped, Kept

LEMMA ArriveStep ==
  ASSUME RouteInv, CallsTyped, QueuesTyped, NEW what \in Asked, what.kind # "file", Arrive(what)
  PROVE  CallsStep
BY CallFacts, BeginStep DEF Arrive

LEMMA MakeCoreStep ==
  ASSUME RouteInv, CallsTyped, QueuesTyped, NEW c \in DOMAIN calls, MakeCore(c)
  PROVE  CallsStep
<1>1. calls[c].phase = "locked" /\ fromCore' = fromCore
  BY DEF MakeCore
<1>2. CASE CallAs(c, calls)
  <2>1. calls \in Seq(Called) /\ nextId \in Nat /\ toCore \in Seq(Request)
    BY DEF CallsTyped, QueuesTyped
  <2>2. RouteInv'
    BY <1>1, <1>2, <2>1, RouteSend
  <2>3. /\ calls' \in Seq(Called) /\ DOMAIN calls' = DOMAIN calls
        /\ \A d \in DOMAIN calls : d # c => calls'[d] = calls[d]
        /\ calls'[c].asked = calls[c].asked /\ calls'[c].token = calls[c].token
        /\ calls'[c].origin = calls[c].origin
    BY <1>2, <2>1, CallAsFacts
  <2>4. \A d \in DOMAIN calls : Kept(d)
    BY <1>1, <2>3 DEF Kept
  <2>5. [id |-> nextId, asked |-> calls[c].asked] \in Request
    <3>1. calls[c] \in Called
      BY <2>1, ElementOfSeq
    <3> QED
      BY <2>1, <3>1 DEF Request, Called
  <2>6. nextId' = nextId + 1 /\ toCore' = Append(toCore, [id |-> nextId, asked |-> calls[c].asked])
    BY <1>2 DEF CallAs
  <2>7. toCore' \in Seq(Request)
    BY <2>1, <2>5, <2>6, AppendProperties
  <2> QED
    BY <2>1, <2>2, <2>3, <2>4, <2>6, <2>7 DEF CallsStep, CallsTyped
<1>3. CASE Move(c, "refused") /\ UNCHANGED <<toCore, waitingFor, nextId>>
  <2>1. Way' = Way /\ "refused" \in Phases
    BY <1>1, <1>3 DEF Way, Phases
  <2> QED
    BY <1>1, <1>3, <2>1, MoveStep
<1> QED
  BY <1>2, <1>3 DEF MakeCore, Made

LEMMA PumpStep ==
  ASSUME RouteInv, CallsTyped, QueuesTyped, Pump
  PROVE  CallsStep
<1> DEFINE m == Head(fromCore)
<1>1. fromCore # <<>> /\ fromCore' = Tail(fromCore) /\ UNCHANGED <<toCore, nextId>>
  BY DEF Pump
<1>2. m \in Answer \cup Event /\ toCore \in Seq(Request)
  BY <1>1, HeadTailProperties DEF QueuesTyped
<1>3. CASE m.is = "answer"
  <2>1. m \in Answer /\ PumpAnswer(m)
    BY <1>2, <1>3 DEF Pump, Answer, Event
  <2> HIDE DEF m
  <2>2. m = Head(fromCore)
    BY DEF m
  <2>3. /\ RouteInv' /\ calls' \in Seq(Called) /\ DOMAIN calls' = DOMAIN calls
        /\ \A d \in DOMAIN calls :
             /\ calls'[d].asked = calls[d].asked /\ calls'[d].token = calls[d].token
             /\ calls'[d].origin = calls[d].origin
             /\ calls[d].phase # "sent" => calls'[d] = calls[d]
    BY <1>1, <2>1, <2>2, RoutePump
  <2>4. \A d \in DOMAIN calls : Kept(d)
    BY <2>3 DEF Kept
  <2> QED
    BY <1>1, <1>2, <2>3, <2>4 DEF CallsStep, CallsTyped
<1>4. CASE m.is # "answer"
  <2>1. UNCHANGED <<waitingFor, calls>>
    BY <1>4 DEF Pump, PumpEvent
  <2>2. Way' = Way
    BY <1>1, <1>4, WayPumped
  <2> QED
    BY <1>1, <1>2, <2>1, <2>2, SameStep
<1> QED
  BY <1>3, <1>4

LEMMA LoadStep ==
  ASSUME RouteInv, CallsTyped, QueuesTyped, GrantsTyped,
         NEW token \in Nat, NEW slug \in Origins, Load(token, slug)
  PROVE  CallsStep
<1>1. fromCore' = fromCore
  BY DEF Load
<1> DEFINE what(g) == [user |-> g.user, kind |-> "file", harness |-> g.harness]
           call(g) == [Call(what(g)) EXCEPT !.token = token, !.origin = slug]
<1>2. PICK g \in ToSet(grants) : g.token = token /\ g.slug = slug /\ Begin(call(g))
  BY DEF Load, GrantFor
<1>3. g \in Grant
  BY ElementOfSeq DEF GrantsTyped, ToSet
<1>4. what(g) \in Asked
  BY <1>3 DEF Asked, Grant
<1>5. Call(what(g)) \in Called /\ Call(what(g)).answer = {} /\ Call(what(g)).phase = "arrived"
      /\ Call(what(g)).asked = what(g)
  <2> HIDE DEF what
  <2> QED
    BY <1>4, CallFacts
<1>6. /\ call(g) \in Called /\ call(g).answer = {} /\ call(g).phase = "arrived"
      /\ call(g).asked = what(g) /\ call(g).token = token /\ call(g).origin = slug
  <2> HIDE DEF what
  <2> QED
    BY <1>5 DEF Called
<1> HIDE DEF call
<1>7. /\ RouteInv' /\ calls' \in Seq(Called) /\ nextId' \in Nat /\ toCore' \in Seq(Request)
      /\ \A d \in DOMAIN calls : d \in DOMAIN calls' /\ calls'[d] = calls[d]
      /\ \A d \in DOMAIN calls' : d \notin DOMAIN calls =>
           /\ calls'[d].asked = call(g).asked /\ calls'[d].token = call(g).token
           /\ calls'[d].origin = call(g).origin
  BY <1>1, <1>2, <1>6, BeginFacts
<1>8. \A d \in DOMAIN calls' : d \notin DOMAIN calls => UnderGrant(d, g)
  BY <1>2, <1>6, <1>7 DEF UnderGrant
<1>9. \A d \in DOMAIN calls : d \in DOMAIN calls' /\ Kept(d)
  BY <1>7 DEF Kept
<1> QED
  BY <1>2, <1>7, <1>8, <1>9 DEF CallsStep, CallsTyped

LEMMA FrameStep ==
  ASSUME RouteInv, CallsTyped, QueuesTyped, StreamsTyped, NEW s \in DOMAIN sockets, Frame(s)
  PROVE  CallsStep
<1> DEFINE what == [user |-> sockets[s].user, kind |-> "request", harness |-> "none"]
           call == [Call(what) EXCEPT !.on = s]
<1>1. sockets[s] \in Socket /\ s \in Nat
  BY ElementOfSeq, LenProperties DEF StreamsTyped
<1>2. what \in Asked /\ what.kind # "file"
  BY <1>1 DEF Asked, Socket
<1>3. Begin(call) /\ fromCore' = fromCore
  BY DEF Frame
<1> HIDE DEF what
<1>4. call \in Called /\ call.answer = {} /\ call.phase = "arrived" /\ call.asked = what
  <2>1. Call(what) \in Called /\ Call(what).answer = {} /\ Call(what).phase = "arrived"
        /\ Call(what).asked = what
    BY <1>2, CallFacts
  <2> QED
    BY <1>1, <2>1 DEF Called
<1> HIDE DEF call
<1> QED
  BY <1>2, <1>3, <1>4, BeginStep

LEMMA CallsNext ==
  ASSUME ServerIsSet, ServerTypeOK, RouteInv, ServerNext
  PROVE  CallsStep
<1> USE DEF ServerTypeOK
<1>1. ASSUME NEW u \in Askers, ApiRequest(u) PROVE CallsStep
  <2> DEFINE what == [user |-> u, kind |-> "request", harness |-> "none"]
  <2>1. what \in Asked /\ what.kind # "file" /\ Arrive(what)
    BY <1>1 DEF ServerIsSet, Asked, ApiRequest
  <2> HIDE DEF what
  <2> QED
    BY <2>1, ArriveStep
<1>2. CASE AsSystem
  <2> DEFINE what == [user |-> "system", kind |-> "request", harness |-> "none"]
  <2>1. what \in Asked /\ what.kind # "file" /\ Arrive(what)
    BY <1>2 DEF Asked, AsSystem
  <2> HIDE DEF what
  <2> QED
    BY <2>1, ArriveStep
<1>3. ASSUME NEW o \in Openers, OpenSurface(o) PROVE CallsStep
  <2> DEFINE what == [user |-> o.user, kind |-> "open", harness |-> o.harness]
  <2>1. what \in Asked /\ what.kind # "file" /\ Arrive(what)
    BY <1>3 DEF ServerIsSet, Asked, OpenSurface
  <2> HIDE DEF what
  <2> QED
    BY <2>1, ArriveStep
<1>4. ASSUME NEW c \in DOMAIN calls, LockCore(c) PROVE CallsStep
  <2>1. /\ Move(c, "locked") /\ "locked" \in Phases /\ calls[c].phase # "shown"
        /\ UNCHANGED <<toCore, nextId, waitingFor>> /\ Way' = Way
    BY <1>4 DEF LockCore, Phases, Way
  <2> QED
    BY <2>1, MoveStep
<1>5. ASSUME NEW c \in DOMAIN calls, MakeCore(c) PROVE CallsStep
  BY <1>5, MakeCoreStep
<1>6. CASE CoreAnswers
  <2>1. toCore' \in Seq(Request) /\ UNCHANGED <<calls, nextId, waitingFor>>
    BY <1>6, HeadTailProperties DEF CoreAnswers, QueuesTyped
  <2> QED
    BY <1>6, <2>1, WayAnswered, SameStep
<1>7. ASSUME NEW to \in Users \cup {All}, CoreSays(to) PROVE CallsStep
  <2> DEFINE e == [is |-> "event", to |-> to, n |-> events + 1]
  <2>1. e \in Event /\ fromCore' = Append(fromCore, e) /\ toCore' = toCore
        /\ UNCHANGED <<calls, nextId, waitingFor>>
    BY <1>7 DEF CoreSays, Event, QueuesTyped
  <2> HIDE DEF e
  <2>2. Way' = Way /\ toCore' \in Seq(Request)
    BY <2>1, WaySaid DEF QueuesTyped
  <2> QED
    BY <2>1, <2>2, SameStep
<1>8. CASE Pump
  BY <1>8, PumpStep
<1>9. ASSUME NEW c \in DOMAIN calls, TimeOut(c) PROVE CallsStep
  <2>1. /\ Move(c, "late") /\ "late" \in Phases /\ calls[c].phase # "shown"
        /\ UNCHANGED <<toCore, nextId>>
    BY <1>9 DEF TimeOut, Phases
  <2> QED
    BY <1>9, <2>1, MoveStep, RouteTimeOut
<1>10. ASSUME NEW c \in DOMAIN calls, Abandon(c) PROVE CallsStep
  <2>1. /\ Move(c, "gone") /\ "gone" \in Phases /\ calls[c].phase # "shown"
        /\ UNCHANGED <<toCore, nextId, waitingFor>> /\ Way' = Way
    BY <1>10 DEF Abandon, Phases, Way
  <2> QED
    BY <2>1, MoveStep
<1>11. ASSUME NEW c \in DOMAIN calls, MintGrant(c) PROVE CallsStep
  <2>1. /\ Move(c, "shown") /\ "shown" \in Phases /\ calls[c].phase # "shown"
        /\ UNCHANGED <<toCore, nextId, waitingFor>> /\ Way' = Way
    BY <1>11 DEF MintGrant, Phases, Way
  <2> QED
    BY <2>1, MoveStep
<1>12. ASSUME NEW s \in DOMAIN sockets, Frame(s) PROVE CallsStep
  BY <1>12, FrameStep
<1>13. CASE UNCHANGED <<calls, toCore, fromCore, nextId, waitingFor>>
  <2>1. Way' = Way /\ toCore' \in Seq(Request)
    BY <1>13 DEF Way, QueuesTyped
  <2> QED
    BY <1>13, <2>1, SameStep
<1>14. ASSUME NEW g \in ToSet(grants), NEW slug \in {Slug[h] : h \in Surfaces}, Load(g.token, slug)
       PROVE  CallsStep
  <2>1. g \in Grant
    BY ElementOfSeq DEF GrantsTyped, ToSet
  <2>2. g.token \in Nat /\ slug \in Origins
    BY <2>1 DEF Grant, Origins
  <2> QED
    BY <1>14, <2>2, LoadStep
<1> QED
  BY <1>1, <1>2, <1>3, <1>4, <1>5, <1>6, <1>7, <1>8, <1>9, <1>10, <1>11, <1>12, <1>13, <1>14
     DEF ServerNext, Connect, Deliver, Close

\* One Core, however many find none and wait for the lock.
LEMMA OneCoreNext ==
  ASSUME OneCore, ServerNext
  PROVE  OneCore'
<1>1. CASE UNCHANGED <<core, made>>
  BY <1>1 DEF OneCore
<1>2. ASSUME NEW c \in DOMAIN calls, Made(c), ~UNCHANGED <<core, made>>
      PROVE  OneCore'
  <2>1. core = FALSE /\ core' = TRUE /\ made' = made + 1
    BY <1>2 DEF Made, OneCore
  <2> QED
    BY <2>1 DEF OneCore
<1> QED
  BY <1>1, <1>2 DEF ServerNext, ApiRequest, AsSystem, OpenSurface, Arrive, LockCore, MakeCore,
     CoreAnswers, CoreSays, Pump, TimeOut, Abandon, Connect, Frame, Deliver, Close, MintGrant, Load

-----------------------------------------------------------------------------
(* Server: a grant stands for a view its person was shown, and that call   *)
(* is over for good.                                                       *)

GrantOK(g) ==
  /\ g.token \in DOMAIN calls /\ g.slug = Slug[g.harness]
  /\ calls[g.token].phase = "shown" /\ \A m \in calls[g.token].answer : m.ok
  /\ calls[g.token].asked = [user |-> g.user, kind |-> "open", harness |-> g.harness]

FileOK(c) ==
  LET opened == calls[calls[c].token] IN
  /\ Slug[calls[c].asked.harness] = calls[c].origin
  /\ calls[c].token \in DOMAIN calls /\ calls[c].token < c
  /\ opened.phase = "shown" /\ \A m \in opened.answer : m.ok
  /\ opened.asked = [calls[c].asked EXCEPT !.kind = "open"]

FrameInv ==
  /\ \A g \in ToSet(grants) : GrantOK(g)
  /\ \A c \in DOMAIN calls : calls[c].asked.kind = "file" => FileOK(c)
  /\ Len(grants) <= MaxGrants

LEMMA FrameImplies == FrameInv => FramesKeepApart
BY DEF FrameInv, FileOK, FramesKeepApart

LEMMA GrantsGrow ==
  ASSUME CallsStep, NEW g, GrantOK(g)
  PROVE  GrantOK(g)'
BY DEF CallsStep, Kept, GrantOK

LEMMA FilesGrow ==
  ASSUME CallsTyped, CallsStep, FrameInv,
         NEW c \in DOMAIN calls', calls'[c].asked.kind = "file"
  PROVE  FileOK(c)'
<1>1. CASE c \in DOMAIN calls
  <2>1. FileOK(c)
    BY <1>1 DEF FrameInv, CallsStep, Kept
  <2>2. Kept(c) /\ Kept(calls[c].token) /\ calls[c].token \in DOMAIN calls'
    BY <1>1, <2>1 DEF CallsStep, FileOK
  <2> QED
    BY <2>1, <2>2 DEF FileOK, Kept
<1>2. CASE c \notin DOMAIN calls
  <2>1. PICK g \in ToSet(grants) : UnderGrant(c, g)
    BY <1>2 DEF CallsStep
  <2>2. GrantOK(g)
    BY DEF FrameInv
  <2>3. Kept(g.token) /\ g.token \in DOMAIN calls /\ g.token \in DOMAIN calls'
    BY <2>2 DEF GrantOK, CallsStep
  <2>4. g.token < c
    <3>1. calls \in Seq(Called) /\ calls' \in Seq(Called)
      BY DEF CallsTyped, CallsStep
    <3>2. DOMAIN calls = 1..Len(calls) /\ Len(calls) \in Nat /\ c \in Nat \ {0}
      BY <3>1, LenProperties
    <3> QED
      BY <1>2, <2>3, <3>2
  <2>5. [calls'[c].asked EXCEPT !.kind = "open"]
          = [user |-> g.user, kind |-> "open", harness |-> g.harness]
    BY <2>1 DEF UnderGrant
  <2>6. calls'[c].asked.harness = g.harness
    BY <2>1 DEF UnderGrant
  <2> QED
    BY <2>1, <2>2, <2>3, <2>4, <2>5, <2>6 DEF FileOK, UnderGrant, GrantOK, Kept
<1> QED
  BY <1>1, <1>2

LEMMA MintStep ==
  ASSUME ServerIsSet, CallsTyped, GrantsTyped, CallsStep, FrameInv,
         NEW c \in DOMAIN calls, MintGrant(c)
  PROVE  GrantsTyped' /\ (\A g \in ToSet(grants') : GrantOK(g)') /\ Len(grants') <= MaxGrants
<1>1. grants \in Seq(Grant) /\ Len(grants) \in Nat /\ MaxGrants \in Nat \ {0}
      /\ Len(grants) <= MaxGrants
  BY LenProperties DEF GrantsTyped, ServerIsSet, FrameInv
<1>2. CASE grants' = grants
  BY <1>1, <1>2, GrantsGrow DEF GrantsTyped, FrameInv
<1>3. CASE /\ \A m \in calls[c].answer : m.ok
           /\ grants' = Granted(c)
  <2> DEFINE kept == IF Len(grants) >= MaxGrants THEN Tail(grants) ELSE grants
  <2>g. PICK g : g = [token |-> c, user |-> calls[c].asked.user,
                      harness |-> calls[c].asked.harness, slug |-> Slug[calls[c].asked.harness]]
    OBVIOUS
  <2>1. grants' = Append(kept, g)
    BY <1>3, <2>g DEF Granted
  <2>2. kept \in Seq(Grant) /\ Len(kept) < MaxGrants /\ Len(kept) \in Nat
        /\ ToSet(kept) \subseteq ToSet(grants)
    <3>1. CASE Len(grants) >= MaxGrants
      <4>1. grants # <<>>
        BY <1>1, <3>1, EmptySeq
      <4> QED
        BY <1>1, <3>1, <4>1, HeadTailProperties, SetOfTail
    <3>2. CASE ~(Len(grants) >= MaxGrants)
      BY <1>1, <3>2
    <3> QED
      BY <3>1, <3>2
  <2> HIDE DEF kept
  <2>3. calls[c] \in Called /\ calls[c].asked.kind = "open" /\ Move(c, "shown") /\ "shown" \in Phases
        /\ calls \in Seq(Called) /\ c \in Nat
    BY ElementOfSeq, LenProperties DEF CallsTyped, MintGrant, Phases
  <2>4. calls[c].asked \in [user : Users, kind : {"open", "file"}, harness : Surfaces]
    BY <2>3 DEF Called, Asked
  <2>5. g \in Grant
    BY <2>g, <2>3, <2>4 DEF Grant, Origins
  <2>6. GrantOK(g)'
    <3>1. /\ c \in DOMAIN calls' /\ calls'[c].phase = "shown"
          /\ calls'[c].asked = calls[c].asked /\ calls'[c].answer = calls[c].answer
      BY <2>3, MoveFacts
    <3>2. calls[c].asked = [user |-> g.user, kind |-> "open", harness |-> g.harness]
      BY <2>g, <2>3, <2>4
    <3> QED
      BY <1>3, <2>g, <3>1, <3>2 DEF GrantOK
  <2>7. ToSet(grants') = ToSet(kept) \cup {g} /\ grants' \in Seq(Grant)
        /\ Len(grants') = Len(kept) + 1
    BY <2>1, <2>2, <2>5, SetOfAppend, AppendProperties
  <2>8. \A h \in ToSet(grants') : GrantOK(h)'
    BY <2>2, <2>6, <2>7, GrantsGrow DEF FrameInv
  <2> QED
    BY <1>1, <2>2, <2>7, <2>8 DEF GrantsTyped
<1> QED
  BY <1>2, <1>3 DEF MintGrant

LEMMA FrameInvNext ==
  ASSUME ServerIsSet, CallsTyped, GrantsTyped, CallsStep, FrameInv, ServerNext
  PROVE  FrameInv' /\ GrantsTyped'
<1>1. \A c \in DOMAIN calls' : calls'[c].asked.kind = "file" => FileOK(c)'
  BY FilesGrow
<1>2. CASE grants' = grants
  BY <1>1, <1>2, GrantsGrow DEF FrameInv, GrantsTyped
<1>3. ASSUME NEW c \in DOMAIN calls, MintGrant(c) PROVE FrameInv' /\ GrantsTyped'
  BY <1>1, <1>3, MintStep DEF FrameInv
<1> QED
  BY <1>2, <1>3 DEF ServerNext, ApiRequest, AsSystem, OpenSurface, Arrive, LockCore, MakeCore,
     CoreAnswers, CoreSays, Pump, TimeOut, Abandon, Connect, Frame, Deliver, Close, Load

-----------------------------------------------------------------------------
(* Server: the events are numbered as Core says them, so what is still on  *)
(* the way is younger than what any channel carried; and a socket stands   *)
(* in its channel as many events after its last gap as it has shown since. *)

Said(i) == fromCore[i].is = "event"

Ordered(u) ==
  \A k \in DOMAIN streams[u] :
    /\ streams[u][k].to \in {u, All} /\ streams[u][k].n <= events
    /\ \A i \in DOMAIN fromCore : Said(i) => streams[u][k].n < fromCore[i].n
    /\ \A j \in 1..(k - 1) : streams[u][j].n < streams[u][k].n

\* k is where the last gap was told, or the opening.
Shows(seen, here, from, stream, k) ==
  /\ k = 0 \/ seen[k].is = "missed"
  /\ \A j \in (k + 1)..Len(seen) : seen[j].is # "missed"
  /\ Len(seen) - k <= here - from
  /\ \A i \in 1..(Len(seen) - k) : seen[k + i] = stream[here - (Len(seen) - k) + i]
  /\ k = 0 => Len(seen) = here - from

Stands(socket) ==
  /\ socket.user \in DOMAIN streams
  /\ socket.from <= socket.at /\ socket.at <= Len(streams[socket.user])
  /\ \E k \in 0..Len(socket.seen) :
       Shows(socket.seen, socket.at, socket.from, streams[socket.user], k)

StreamInv ==
  /\ \A i \in DOMAIN fromCore : Said(i) => fromCore[i].n <= events
  /\ \A i, j \in DOMAIN fromCore : i < j /\ Said(i) /\ Said(j) => fromCore[i].n < fromCore[j].n
  /\ \A u \in DOMAIN streams : Ordered(u)
  /\ \A s \in DOMAIN sockets : Stands(sockets[s])

LEMMA LastGap ==
  ASSUME NEW seen \in Seq(Shown), NEW k \in 0..Len(seen),
         k = 0 \/ seen[k].is = "missed",
         \A j \in (k + 1)..Len(seen) : seen[j].is # "missed"
  PROVE  SinceMissed(seen) = SubSeq(seen, k + 1, Len(seen))
<1> DEFINE cuts == {i \in DOMAIN seen : seen[i].is = "missed"}
           after == CHOOSE i \in cuts \cup {0} : \A j \in cuts : j <= i
<1>1. Len(seen) \in Nat /\ DOMAIN seen = 1..Len(seen)
  BY LenProperties
<1>2. k \in cuts \cup {0} /\ \A j \in cuts : j <= k
  BY <1>1
<1>3. cuts \subseteq Nat \ {0}
  BY <1>1
<1>4. SinceMissed(seen) = SubSeq(seen, after + 1, Len(seen))
  BY DEF SinceMissed
<1> HIDE DEF cuts
<1>5. after \in cuts \cup {0} /\ \A j \in cuts : j <= after
  BY <1>2
<1> HIDE DEF after
<1>6. after \in Nat /\ k \in Nat /\ after <= k /\ k <= after
  BY <1>2, <1>3, <1>5
<1>7. after = k
  BY <1>6
<1> QED
  BY <1>4, <1>7

LEMMA PartOf ==
  ASSUME NEW T, NEW s \in Seq(T), NEW a \in Nat, NEW b \in Nat, a <= b, b <= Len(s)
  PROVE  /\ SubSeq(s, a + 1, b) \in Seq(T) /\ Len(SubSeq(s, a + 1, b)) = b - a
         /\ \A i \in 1..(b - a) : SubSeq(s, a + 1, b)[i] = s[a + i]
<1>1. Len(s) \in Nat /\ \A i \in 1..Len(s) : s[i] \in T
  BY LenProperties, ElementOfSeq
<1>2. \A i \in (a + 1)..b : s[i] \in T
  BY <1>1
<1>3. /\ SubSeq(s, a + 1, b) \in Seq(T)
      /\ Len(SubSeq(s, a + 1, b)) = IF a + 1 <= b THEN b - (a + 1) + 1 ELSE 0
      /\ \A i \in 1..(b - (a + 1) + 1) : SubSeq(s, a + 1, b)[i] = s[(a + 1) + i - 1]
  BY <1>2, SubSeqProperties
<1>4. \A i \in 1..(b - a) : i \in 1..(b - (a + 1) + 1) /\ (a + 1) + i - 1 = a + i
  OBVIOUS
<1> QED
  BY <1>3, <1>4

LEMMA StandsWhole ==
  ASSUME NEW seen \in Seq(Shown), NEW stream \in Seq(Event),
         NEW here \in Nat, NEW from \in Nat, from <= here, here <= Len(stream),
         NEW k \in 0..Len(seen), Shows(seen, here, from, stream, k)
  PROVE  LET latest == SinceMissed(seen)
         IN  /\ latest = SubSeq(stream, here - Len(latest) + 1, here)
             /\ latest = seen => Len(latest) = here - from
<1> DEFINE latest == SubSeq(seen, k + 1, Len(seen))
           n == Len(seen) - k
           other == SubSeq(stream, here - n + 1, here)
<1>1. SinceMissed(seen) = latest
  BY LastGap DEF Shows
<1>2. Len(seen) \in Nat /\ n \in Nat /\ n <= here - from /\ DOMAIN seen = 1..Len(seen)
  BY LenProperties DEF Shows
<1>3. Len(stream) \in Nat /\ DOMAIN stream = 1..Len(stream)
  BY LenProperties
<1>4. /\ latest \in Seq(Shown) /\ Len(latest) = n
      /\ \A i \in 1..n : latest[i] = seen[k + i]
  <2>2. PICK b \in Nat : b = Len(seen)
    BY <1>2
  <2>1. k \in Nat /\ k <= b /\ b <= Len(seen)
    BY <1>2, <2>2
  <2>3. /\ SubSeq(seen, k + 1, b) \in Seq(Shown) /\ Len(SubSeq(seen, k + 1, b)) = b - k
        /\ \A i \in 1..(b - k) : SubSeq(seen, k + 1, b)[i] = seen[k + i]
    BY <2>1, PartOf
  <2> QED
    BY <2>2, <2>3
<1>5. /\ other \in Seq(Event) /\ Len(other) = n
      /\ \A i \in 1..n : other[i] = stream[here - n + i]
  <2>1. here - n \in Nat /\ here - n <= here /\ here - (here - n) = n
    BY <1>2
  <2>2. PICK a \in Nat : a = here - n
    BY <2>1
  <2>3. /\ SubSeq(stream, a + 1, here) \in Seq(Event) /\ Len(SubSeq(stream, a + 1, here)) = here - a
        /\ \A i \in 1..(here - a) : SubSeq(stream, a + 1, here)[i] = stream[a + i]
    <3>1. a <= here
      BY <2>1, <2>2
    <3> QED
      BY <3>1, PartOf
  <2> QED
    BY <2>1, <2>2, <2>3
<1>6. \A i \in 1..n : latest[i] = other[i]
  BY <1>4, <1>5 DEF Shows
<1>7. other \in Seq(Shown)
  BY <1>5, SeqMonotonic DEF Shown
<1> HIDE DEF latest, other
<1>8. latest = other
  BY <1>4, <1>5, <1>6, <1>7, SeqEqual
<1>9. ASSUME latest = seen PROVE n = here - from
  <2>1. Len(seen) = n
    BY <1>4, <1>9, Zenon
  <2>2. k = 0
    BY <1>2, <2>1
  <2>3. Len(seen) = here - from
    BY <2>2, Zenon DEF Shows
  <2> QED
    BY <2>1, <2>3
<1>10. latest = SubSeq(stream, here - Len(latest) + 1, here)
  BY <1>4, <1>8, Zenon DEF other
<1>11. latest = seen => Len(latest) = here - from
  BY <1>4, <1>9, Zenon
<1> QED
  BY ONLY <1>1, <1>10, <1>11, Zenon

LEMMA StreamImplies == StreamsTyped /\ StreamInv => StreamsAreWhole
<1> SUFFICES ASSUME StreamsTyped, StreamInv, NEW s \in DOMAIN sockets
             PROVE  LET stream == streams[sockets[s].user]
                        latest == SinceMissed(sockets[s].seen)
                    IN  /\ latest = SubSeq(stream, sockets[s].at - Len(latest) + 1, sockets[s].at)
                        /\ latest = sockets[s].seen => Len(latest) = sockets[s].at - sockets[s].from
                        /\ \A i \in DOMAIN stream :
                              /\ stream[i].to \in {sockets[s].user, All}
                              /\ \A j \in 1..(i - 1) : stream[j].n < stream[i].n
  BY DEF StreamsAreWhole
<1>1. sockets[s] \in Socket
  BY ElementOfSeq DEF StreamsTyped
<1>2. Stands(sockets[s]) /\ Ordered(sockets[s].user)
  BY DEF StreamInv, Stands
<1>3. PICK user, seen, here, from, stream :
        /\ user = sockets[s].user /\ seen = sockets[s].seen /\ here = sockets[s].at
        /\ from = sockets[s].from /\ stream = streams[user]
  OBVIOUS
<1>4. seen \in Seq(Shown) /\ here \in Nat /\ from \in Nat
  BY <1>1, <1>3 DEF Socket
<1>5. user \in DOMAIN streams /\ from <= here /\ here <= Len(stream)
  BY <1>2, <1>3 DEF Stands
<1>6. stream \in Seq(Event)
  BY <1>3, <1>5 DEF StreamsTyped
<1>7. PICK k \in 0..Len(seen) : Shows(seen, here, from, stream, k)
  BY <1>2, <1>3 DEF Stands
<1>8. LET latest == SinceMissed(seen)
      IN  /\ latest = SubSeq(stream, here - Len(latest) + 1, here)
          /\ latest = seen => Len(latest) = here - from
  BY <1>4, <1>5, <1>6, <1>7, StandsWhole
<1>9. \A i \in DOMAIN stream :
        /\ stream[i].to \in {user, All}
        /\ \A j \in 1..(i - 1) : stream[j].n < stream[i].n
  BY <1>2, <1>3 DEF Ordered
<1> QED
  BY <1>3, <1>8, <1>9

\* The channels only grow, and a socket stands where it stood.
Grows ==
  \A u \in DOMAIN streams :
    /\ u \in DOMAIN streams' /\ streams'[u] \in Seq(Event)
    /\ Len(streams[u]) <= Len(streams'[u])
    /\ \A i \in 1..Len(streams[u]) : streams'[u][i] = streams[u][i]

LEMMA ShowsGrow ==
  ASSUME NEW seen \in Seq(Shown), NEW stream, NEW longer, NEW here \in Nat, NEW from \in Nat,
         NEW k \in 0..Len(seen), Shows(seen, here, from, stream, k), from <= here,
         \A i \in 1..here : longer[i] = stream[i]
  PROVE  Shows(seen, here, from, longer, k)
<1>1. Len(seen) \in Nat /\ Len(seen) - k <= here - from
  BY LenProperties DEF Shows
<1>2. \A i \in 1..(Len(seen) - k) : here - (Len(seen) - k) + i \in 1..here
  BY <1>1
<1> QED
  BY <1>2 DEF Shows

LEMMA StandsGrow ==
  ASSUME StreamsTyped, Grows, NEW socket \in Socket, Stands(socket)
  PROVE  Stands(socket)'
<1>1. PICK user, stream, longer :
        user = socket.user /\ stream = streams[user] /\ longer = streams'[user]
  OBVIOUS
<1>2. socket.seen \in Seq(Shown) /\ socket.at \in Nat /\ socket.from \in Nat
  BY DEF Socket
<1>3. user \in DOMAIN streams /\ socket.from <= socket.at /\ socket.at <= Len(stream)
  BY <1>1 DEF Stands
<1>4. stream \in Seq(Event) /\ longer \in Seq(Event) /\ user \in DOMAIN streams'
      /\ Len(stream) <= Len(longer) /\ \A i \in 1..Len(stream) : longer[i] = stream[i]
  BY <1>1, <1>3 DEF Grows, StreamsTyped
<1>5. Len(stream) \in Nat /\ Len(longer) \in Nat
  BY <1>4, LenProperties
<1>6. PICK k \in 0..Len(socket.seen) : Shows(socket.seen, socket.at, socket.from, stream, k)
  BY <1>1 DEF Stands
<1>7. \A i \in 1..socket.at : longer[i] = stream[i]
  BY <1>2, <1>3, <1>4, <1>5
<1>8. Shows(socket.seen, socket.at, socket.from, longer, k)
  BY <1>2, <1>3, <1>6, <1>7, ShowsGrow
<1>9. socket.at <= Len(longer)
  BY <1>2, <1>3, <1>4, <1>5
<1> QED
  BY <1>1, <1>3, <1>4, <1>6, <1>8, <1>9 DEF Stands

LEMMA SocketsGrow ==
  ASSUME StreamsTyped, Grows, \A s \in DOMAIN sockets : Stands(sockets[s])
  PROVE  \A s \in DOMAIN sockets : \A socket : socket = sockets[s] => Stands(socket)'
<1>1. \A s \in DOMAIN sockets : sockets[s] \in Socket
  BY ElementOfSeq DEF StreamsTyped
<1> QED
  BY <1>1, StandsGrow

StreamsStep == QueuesTyped' /\ StreamsTyped' /\ StreamInv'

LEMMA AnswersStep ==
  ASSUME QueuesTyped, StreamsTyped, StreamInv, toCore' \in Seq(Request), CoreAnswers
  PROVE  StreamsStep
<1>1. PICK ok \in BOOLEAN :
        fromCore' = Append(fromCore, [is |-> "answer", id |-> Head(toCore).id,
                                      asked |-> Head(toCore).asked, ok |-> ok])
  BY DEF CoreAnswers
<1>2. PICK a : a = [is |-> "answer", id |-> Head(toCore).id,
                    asked |-> Head(toCore).asked, ok |-> ok]
  OBVIOUS
<1>3. Head(toCore) \in Request
  BY HeadTailProperties DEF CoreAnswers, QueuesTyped
<1>4. a \in Answer \cup Event /\ a.is = "answer" /\ fromCore' = Append(fromCore, a)
  BY <1>1, <1>2, <1>3 DEF Answer, Request
<1>5. /\ fromCore' \in Seq(Answer \cup Event)
      /\ DOMAIN fromCore' = 1..(Len(fromCore) + 1) /\ DOMAIN fromCore = 1..Len(fromCore)
      /\ \A i \in 1..Len(fromCore) : fromCore'[i] = fromCore[i]
      /\ fromCore'[Len(fromCore) + 1] = a /\ Len(fromCore) \in Nat
  BY <1>4, AppendProperties, LenProperties DEF QueuesTyped
<1>6. \A i \in DOMAIN fromCore' : Said(i)' =>
        i \in DOMAIN fromCore /\ fromCore'[i] = fromCore[i] /\ Said(i)
  BY <1>4, <1>5 DEF Said
<1>7. UNCHANGED <<events, streams, sockets>>
  BY DEF CoreAnswers
<1>8. ASSUME NEW u \in DOMAIN streams PROVE Ordered(u)'
  <2>1. Ordered(u)
    BY DEF StreamInv
  <2> QED
    BY <1>6, <1>7, <2>1 DEF Ordered
<1>9. \A s \in DOMAIN sockets' : Stands(sockets[s])'
  BY <1>7 DEF StreamInv, Stands
<1> QED
  BY <1>5, <1>6, <1>7, <1>8, <1>9 DEF StreamsStep, QueuesTyped, StreamsTyped, StreamInv

LEMMA SaysStep ==
  ASSUME QueuesTyped, StreamsTyped, StreamInv, NEW to \in Users \cup {All}, CoreSays(to)
  PROVE  StreamsStep
<1>1. PICK e : e = [is |-> "event", to |-> to, n |-> events + 1]
  OBVIOUS
<1>2. events \in Nat /\ e \in Event /\ e \in Answer \cup Event
      /\ e.is = "event" /\ e.n = events + 1 /\ fromCore' = Append(fromCore, e)
  BY <1>1 DEF Event, CoreSays, QueuesTyped
<1>3. /\ fromCore' \in Seq(Answer \cup Event)
      /\ DOMAIN fromCore' = 1..(Len(fromCore) + 1) /\ DOMAIN fromCore = 1..Len(fromCore)
      /\ \A i \in 1..Len(fromCore) : fromCore'[i] = fromCore[i]
      /\ fromCore'[Len(fromCore) + 1] = e /\ Len(fromCore) \in Nat
  BY <1>2, AppendProperties, LenProperties DEF QueuesTyped
<1>4. \A i \in DOMAIN fromCore' :
        \/ i \in DOMAIN fromCore /\ fromCore'[i] = fromCore[i] /\ (Said(i)' <=> Said(i))
        \/ i = Len(fromCore) + 1 /\ fromCore'[i].n = events + 1
  BY <1>2, <1>3 DEF Said
<1>5. events' = events + 1 /\ UNCHANGED <<toCore, streams, sockets>>
  BY DEF CoreSays
<1>6. \A i \in DOMAIN fromCore : Said(i) => fromCore[i] \in Event /\ fromCore[i].n \in Nat
  <2>1. \A i \in DOMAIN fromCore : fromCore[i] \in Answer \cup Event
    BY ElementOfSeq DEF QueuesTyped
  <2> QED
    BY <2>1 DEF Said, Answer, Event
<1>7. \A i \in DOMAIN fromCore' : Said(i)' => fromCore'[i].n <= events'
  BY <1>2, <1>4, <1>5, <1>6 DEF StreamInv
<1>8. ASSUME NEW i \in DOMAIN fromCore', NEW j \in DOMAIN fromCore', i < j, Said(i)', Said(j)'
      PROVE  fromCore'[i].n < fromCore'[j].n
  <2>1. i \in DOMAIN fromCore /\ fromCore'[i] = fromCore[i] /\ Said(i) /\ fromCore[i].n <= events
    BY <1>3, <1>4, <1>8 DEF StreamInv
  <2> QED
    BY <1>2, <1>4, <1>6, <1>8, <2>1 DEF StreamInv
<1>9. ASSUME NEW u \in DOMAIN streams PROVE Ordered(u)'
  <2>1. ASSUME NEW k \in DOMAIN streams[u]
        PROVE  /\ streams[u][k].to \in {u, All} /\ streams[u][k].n <= events'
               /\ \A i \in DOMAIN fromCore' : Said(i)' => streams[u][k].n < fromCore'[i].n
               /\ \A j \in 1..(k - 1) : streams[u][j].n < streams[u][k].n
    <3>1. streams[u][k] \in Event
      BY ElementOfSeq DEF StreamsTyped
    <3>2. streams[u][k].n \in Nat
      BY <3>1 DEF Event
    <3>3. /\ streams[u][k].to \in {u, All} /\ streams[u][k].n <= events
          /\ \A i \in DOMAIN fromCore : Said(i) => streams[u][k].n < fromCore[i].n
          /\ \A j \in 1..(k - 1) : streams[u][j].n < streams[u][k].n
      BY DEF StreamInv, Ordered
    <3> QED
      BY <1>2, <1>4, <1>5, <3>2, <3>3
  <2> QED
    BY <1>5, <2>1 DEF Ordered
<1>10. \A s \in DOMAIN sockets' : Stands(sockets[s])'
  BY <1>5 DEF StreamInv, Stands
<1> QED
  BY <1>2, <1>3, <1>5, <1>7, <1>8, <1>9, <1>10 DEF StreamsStep, QueuesTyped, StreamsTyped, StreamInv

\* The queue out of Core, one message shorter.
LEMMA QueueShorter ==
  ASSUME QueuesTyped, StreamInv, fromCore # <<>>, fromCore' = Tail(fromCore), events' = events
  PROVE  /\ fromCore' \in Seq(Answer \cup Event)
         /\ 1 \in DOMAIN fromCore /\ Head(fromCore) = fromCore[1]
         /\ \A i \in DOMAIN fromCore' :
              /\ i \in Nat /\ 1 < i + 1 /\ i + 1 \in DOMAIN fromCore
              /\ fromCore'[i] = fromCore[i + 1] /\ (Said(i)' <=> Said(i + 1))
         /\ \A i \in DOMAIN fromCore' : Said(i)' => fromCore'[i].n <= events'
         /\ \A i, j \in DOMAIN fromCore' : i < j /\ Said(i)' /\ Said(j)' =>
              fromCore'[i].n < fromCore'[j].n
<1>1. /\ fromCore \in Seq(Answer \cup Event) /\ Len(fromCore) \in Nat \ {0}
      /\ DOMAIN fromCore = 1..Len(fromCore)
  BY EmptySeq, LenProperties DEF QueuesTyped
<1>2. /\ fromCore' \in Seq(Answer \cup Event) /\ Len(fromCore') = Len(fromCore) - 1
      /\ \A i \in 1..Len(fromCore') : fromCore'[i] = fromCore[i + 1]
  BY <1>1, HeadTailProperties
<1>3. DOMAIN fromCore' = 1..Len(fromCore') /\ Head(fromCore) = fromCore[1]
  BY <1>1, <1>2
<1>4. \A i \in DOMAIN fromCore' :
        /\ i \in Nat /\ 1 < i + 1 /\ i + 1 \in DOMAIN fromCore
        /\ fromCore'[i] = fromCore[i + 1] /\ (Said(i)' <=> Said(i + 1))
  BY <1>1, <1>2, <1>3 DEF Said
<1>5. \A i, j \in DOMAIN fromCore' : i < j => i + 1 < j + 1
  BY <1>4
<1> QED
  BY <1>1, <1>2, <1>3, <1>4, <1>5 DEF StreamInv

LEMMA PumpStreams ==
  ASSUME QueuesTyped, StreamsTyped, StreamInv, Pump
  PROVE  StreamsStep
<1>1. /\ fromCore # <<>> /\ fromCore' = Tail(fromCore) /\ events' = events
      /\ UNCHANGED <<toCore, sockets>>
  BY DEF Pump
<1>2. /\ fromCore' \in Seq(Answer \cup Event)
      /\ 1 \in DOMAIN fromCore /\ Head(fromCore) = fromCore[1]
      /\ \A i \in DOMAIN fromCore' :
           /\ i \in Nat /\ 1 < i + 1 /\ i + 1 \in DOMAIN fromCore
           /\ fromCore'[i] = fromCore[i + 1] /\ (Said(i)' <=> Said(i + 1))
      /\ \A i \in DOMAIN fromCore' : Said(i)' => fromCore'[i].n <= events'
      /\ \A i, j \in DOMAIN fromCore' : i < j /\ Said(i)' /\ Said(j)' =>
           fromCore'[i].n < fromCore'[j].n
  BY <1>1, QueueShorter
<1>3. PICK m : m = Head(fromCore)
  OBVIOUS
<1>4. \A u \in DOMAIN streams : streams[u] \in Seq(Event) /\ Len(streams[u]) \in Nat
                                /\ DOMAIN streams[u] = 1..Len(streams[u])
  BY LenProperties DEF StreamsTyped
\* what a channel carried before stays in order before what is left
<1>5. ASSUME NEW u \in DOMAIN streams, NEW k \in DOMAIN streams[u]
      PROVE  /\ streams[u][k].to \in {u, All} /\ streams[u][k].n <= events'
             /\ \A i \in DOMAIN fromCore' : Said(i)' => streams[u][k].n < fromCore'[i].n
             /\ \A j \in 1..(k - 1) : streams[u][j].n < streams[u][k].n
  BY <1>1, <1>2 DEF StreamInv, Ordered
<1>6. /\ DOMAIN streams' = DOMAIN streams
      /\ \A u \in DOMAIN streams :
           \/ streams'[u] = streams[u]
           \/ m \in Event /\ m.to \in {u, All} /\ streams'[u] = Append(streams[u], m)
  <2>1. CASE m.is = "answer"
    BY <1>3, <2>1 DEF Pump, PumpAnswer
  <2>2. CASE m.is # "answer"
    <3>1. m \in Event
      <4>1. m \in Answer \cup Event
        BY <1>2, <1>3, ElementOfSeq DEF QueuesTyped
      <4> QED
        BY <2>2, <4>1 DEF Answer
    <3>2. streams' = [u \in DOMAIN streams |->
                        IF m.to \in {u, All} /\ Listening(u)
                        THEN Append(streams[u], m) ELSE streams[u]]
      BY <1>3, <2>2 DEF Pump, PumpEvent
    <3> QED
      BY <3>1, <3>2
  <2> QED
    BY <2>1, <2>2
<1>7. m \in Event => /\ m.n \in Nat /\ m.n <= events'
                     /\ \A i \in DOMAIN fromCore' : Said(i)' => m.n < fromCore'[i].n
                     /\ \A u \in DOMAIN streams : \A k \in DOMAIN streams[u] : streams[u][k].n < m.n
  <2> SUFFICES ASSUME m \in Event
               PROVE  /\ m.n \in Nat /\ m.n <= events'
                      /\ \A i \in DOMAIN fromCore' : Said(i)' => m.n < fromCore'[i].n
                      /\ \A u \in DOMAIN streams : \A k \in DOMAIN streams[u] : streams[u][k].n < m.n
    OBVIOUS
  <2>1. Said(1) /\ fromCore[1] = m
    BY <1>2, <1>3 DEF Said, Event
  <2>2. m.n \in Nat /\ m.n <= events'
    BY <1>1, <1>2, <2>1 DEF StreamInv, Event
  <2>3. \A i \in DOMAIN fromCore' : Said(i)' => m.n < fromCore'[i].n
    BY <1>2, <2>1 DEF StreamInv
  <2>4. \A u \in DOMAIN streams : \A k \in DOMAIN streams[u] : streams[u][k].n < m.n
    BY <1>2, <2>1 DEF StreamInv, Ordered
  <2> QED
    BY <2>2, <2>3, <2>4
<1>8. ASSUME NEW u \in DOMAIN streams
      PROVE  /\ streams'[u] \in Seq(Event) /\ Len(streams[u]) <= Len(streams'[u])
             /\ \A i \in 1..Len(streams[u]) : streams'[u][i] = streams[u][i]
             /\ Ordered(u)'
  <2>1. CASE streams'[u] = streams[u]
    BY <1>4, <1>5, <2>1 DEF Ordered
  <2>2. CASE m \in Event /\ m.to \in {u, All} /\ streams'[u] = Append(streams[u], m)
    <3>1. /\ streams'[u] \in Seq(Event) /\ Len(streams'[u]) = Len(streams[u]) + 1
          /\ \A i \in 1..Len(streams[u]) : streams'[u][i] = streams[u][i]
          /\ streams'[u][Len(streams[u]) + 1] = m
      BY <1>4, <2>2, AppendProperties
    <3>2. DOMAIN streams'[u] = 1..(Len(streams[u]) + 1)
      BY <3>1, LenProperties
    <3>3. ASSUME NEW k \in DOMAIN streams'[u]
          PROVE  /\ streams'[u][k].to \in {u, All} /\ streams'[u][k].n <= events'
                 /\ \A i \in DOMAIN fromCore' : Said(i)' => streams'[u][k].n < fromCore'[i].n
                 /\ \A j \in 1..(k - 1) : streams'[u][j].n < streams'[u][k].n
      <4>1. CASE k = Len(streams[u]) + 1
        <5>1. \A j \in 1..(k - 1) : j \in DOMAIN streams[u] /\ streams'[u][j] = streams[u][j]
          BY <1>4, <3>1, <4>1
        <5> QED
          BY <1>7, <2>2, <3>1, <4>1, <5>1
      <4>2. CASE k # Len(streams[u]) + 1
        <5>1. k \in DOMAIN streams[u] /\ streams'[u][k] = streams[u][k]
          BY <1>4, <3>1, <3>2, <4>2
        <5>2. \A j \in 1..(k - 1) : streams'[u][j] = streams[u][j]
          BY <1>4, <3>1, <5>1
        <5> QED
          BY <1>5, <5>1, <5>2
      <4> QED
        BY <4>1, <4>2
    <3>4. Ordered(u)'
      BY <3>3 DEF Ordered
    <3> QED
      BY <1>4, <3>1, <3>4
  <2> QED
    BY <1>6, <2>1, <2>2
<1>9. Grows
  BY <1>6, <1>8 DEF Grows
<1>10. \A s \in DOMAIN sockets' : Stands(sockets[s])'
  <2>1. \A s \in DOMAIN sockets : \A socket : socket = sockets[s] => Stands(socket)'
    BY <1>9, SocketsGrow DEF StreamInv
  <2> QED
    BY <1>1, <2>1
<1> QED
  BY <1>1, <1>2, <1>6, <1>8, <1>10 DEF StreamsStep, QueuesTyped, StreamsTyped, StreamInv

\* The queue out of Core and its numbers stay: what is left to show is that
\* the channels are in order and the sockets stand in them.
LEMMA SocketStep ==
  ASSUME QueuesTyped, StreamInv, UNCHANGED <<toCore, fromCore, events>>, StreamsTyped',
         \A u \in DOMAIN streams' : Ordered(u)',
         \A s \in DOMAIN sockets' : \A socket : socket = sockets'[s] => Stands(socket)'
  PROVE  StreamsStep
<1>1. \A s \in DOMAIN sockets' : Stands(sockets[s])'
  OBVIOUS
<1> QED
  BY <1>1 DEF StreamsStep, StreamInv, QueuesTyped, Said

LEMMA ConnectStep ==
  ASSUME QueuesTyped, StreamsTyped, StreamInv, NEW u \in Users, Connect(u)
  PROVE  StreamsStep
<1>1. /\ UNCHANGED <<toCore, fromCore, events>>
      /\ streams' = IF u \in DOMAIN streams THEN streams ELSE Put(streams, u, <<>>)
  BY DEF Connect
<1>2. \A v \in DOMAIN streams : streams[v] \in Seq(Event) /\ Ordered(v) /\ Len(streams[v]) \in Nat
  BY LenProperties DEF StreamsTyped, StreamInv
<1>3. /\ DOMAIN streams' = DOMAIN streams \cup {u}
      /\ \A v \in DOMAIN streams : streams'[v] = streams[v]
      /\ u \notin DOMAIN streams => streams'[u] = <<>>
  <2>1. CASE u \in DOMAIN streams
    BY <1>1, <2>1
  <2>2. CASE u \notin DOMAIN streams
    BY <1>1, <2>2 DEF Put
  <2> QED
    BY <2>1, <2>2
<1>4. \A v \in DOMAIN streams' : streams'[v] \in Seq(Event)
  BY <1>2, <1>3, EmptySeq
<1>5. ASSUME NEW v \in DOMAIN streams' PROVE Ordered(v)'
  <2>1. CASE v \in DOMAIN streams
    BY <1>1, <1>2, <1>3, <2>1 DEF Ordered, Said
  <2>2. CASE v \notin DOMAIN streams
    <3>1. DOMAIN streams'[v] = {}
      BY <1>3, <2>2
    <3> QED
      BY <3>1 DEF Ordered
  <2> QED
    BY <2>1, <2>2
<1>6. Grows
  BY <1>2, <1>3 DEF Grows
<1>7. PICK here : here = Len(streams'[u])
  OBVIOUS
<1>8. here \in Nat /\ u \in DOMAIN streams'
  BY <1>3, <1>4, <1>7, LenProperties
<1>9. PICK new : new = [user |-> u, open |-> TRUE, seen |-> <<>>, from |-> here, at |-> here]
  OBVIOUS
<1>10. new \in Socket /\ sockets' = Append(sockets, new) /\ sockets \in Seq(Socket)
  <2>1. <<>> \in Seq(Shown)
    BY EmptySeq
  <2> QED
    BY <1>7, <1>8, <1>9, <2>1 DEF Connect, Socket, StreamsTyped
<1>11. /\ sockets' \in Seq(Socket) /\ DOMAIN sockets' = 1..(Len(sockets) + 1)
       /\ \A s \in DOMAIN sockets : sockets'[s] = sockets[s]
       /\ sockets'[Len(sockets) + 1] = new
       /\ \A s \in DOMAIN sockets' : s \in DOMAIN sockets \/ s = Len(sockets) + 1
  BY <1>10, AppendProperties, LenProperties
<1>12. Stands(new)'
  <2>1. new.user = u /\ new.at = here /\ new.from = here /\ new.seen = <<>>
    BY <1>9
  <2>2. Len(new.seen) = 0
    BY <2>1, EmptySeq
  <2>3. 0 \in 0..Len(new.seen) /\ Shows(new.seen, here, here, streams'[u], 0)
    BY <1>8, <2>2 DEF Shows
  <2>4. here <= here
    BY <1>8
  <2> QED
    BY <1>7, <1>8, <2>1, <2>3, <2>4 DEF Stands
<1>13. \A s \in DOMAIN sockets : \A socket : socket = sockets[s] => Stands(socket)'
  BY <1>6, SocketsGrow DEF StreamInv
<1>14. \A s \in DOMAIN sockets' : \A socket : socket = sockets'[s] => Stands(socket)'
  BY <1>11, <1>12, <1>13
<1>15. StreamsTyped'
  BY <1>4, <1>11 DEF StreamsTyped
<1> QED
  BY <1>1, <1>5, <1>14, <1>15, SocketStep

\* One socket is another; the rest of the server is as it was.
LEMMA OneSocketStep ==
  ASSUME QueuesTyped, StreamsTyped, StreamInv, UNCHANGED <<toCore, fromCore, events, streams>>,
         NEW s \in DOMAIN sockets, NEW new \in Socket, sockets' = [sockets EXCEPT ![s] = new],
         Stands(new)
  PROVE  StreamsStep
<1>1. /\ sockets' \in Seq(Socket) /\ DOMAIN sockets' = DOMAIN sockets
      /\ \A r \in DOMAIN sockets : sockets'[r] = IF r = s THEN new ELSE sockets[r]
  <2>1. sockets \in Seq(Socket)
    BY DEF StreamsTyped
  <2>2. sockets' \in Seq(Socket)
    BY <2>1, ExceptSeq, LenProperties
  <2> QED
    BY <2>2
<1>2. \A v \in DOMAIN streams' : Ordered(v)'
  BY DEF StreamInv, Ordered, Said
<1>3. \A r \in DOMAIN sockets' : \A socket : socket = sockets'[r] => Stands(socket)'
  BY <1>1 DEF StreamInv, Stands
<1>4. StreamsTyped'
  BY <1>1 DEF StreamsTyped
<1> QED
  BY <1>2, <1>3, <1>4, SocketStep

\* What the next event, or the word that some were missed, leaves shown.
LEMMA ShowsNext ==
  ASSUME NEW seen \in Seq(Shown), NEW stream \in Seq(Event), NEW here \in Nat, NEW from \in Nat,
         from <= here, here < Len(stream), NEW k \in 0..Len(seen), Shows(seen, here, from, stream, k)
  PROVE  /\ Append(seen, stream[here + 1]) \in Seq(Shown)
         /\ k \in 0..Len(Append(seen, stream[here + 1]))
         /\ Shows(Append(seen, stream[here + 1]), here + 1, from, stream, k)
<1>1. PICK e, more, n : e = stream[here + 1] /\ more = Append(seen, e) /\ n = Len(seen)
  OBVIOUS
<1>2. Len(stream) \in Nat /\ n \in Nat /\ k \in Nat /\ k <= n
  BY <1>1, LenProperties
<1>3. e \in Event
  BY <1>1, <1>2, ElementOfSeq
<1>4. e \in Shown /\ e.is # "missed"
  BY <1>3 DEF Shown, Event
<1>5. /\ more \in Seq(Shown) /\ Len(more) = n + 1 /\ more[n + 1] = e
      /\ \A i \in 1..n : more[i] = seen[i]
  BY <1>1, <1>4, AppendProperties
<1>6. k = 0 \/ more[k].is = "missed"
  BY <1>1, <1>2, <1>5 DEF Shows
<1>7. \A j \in (k + 1)..(n + 1) : more[j].is # "missed"
  BY <1>1, <1>2, <1>4, <1>5 DEF Shows
<1>8. (n + 1) - k <= (here + 1) - from /\ (k = 0 => n + 1 = (here + 1) - from)
  BY <1>1, <1>2 DEF Shows
<1>9. ASSUME NEW i \in 1..((n + 1) - k)
      PROVE  more[k + i] = stream[(here + 1) - ((n + 1) - k) + i]
  <2>1. (here + 1) - ((n + 1) - k) + i = here - (n - k) + i
    BY <1>2
  <2>2. CASE i = (n + 1) - k
    <3>1. k + i = n + 1 /\ here - (n - k) + i = here + 1
      BY <1>2, <2>2
    <3> QED
      BY <1>1, <1>5, <2>1, <3>1
  <2>3. CASE i # (n + 1) - k
    <3>1. i \in 1..(n - k) /\ k + i \in 1..n
      BY <1>2, <2>3
    <3> QED
      BY <1>1, <1>5, <2>1, <3>1 DEF Shows
  <2> QED
    BY <2>2, <2>3
<1>10. k \in 0..Len(more)
  BY <1>2, <1>5
<1>11. Shows(more, here + 1, from, stream, k)
  BY <1>5, <1>6, <1>7, <1>8, <1>9 DEF Shows
<1> QED
  BY <1>1, <1>5, <1>10, <1>11

LEMMA ShowsMissed ==
  ASSUME NEW seen \in Seq(Shown), NEW stream, NEW here \in Nat, NEW from \in Nat, from <= here
  PROVE  /\ Append(seen, Missed) \in Seq(Shown)
         /\ Len(seen) + 1 \in 0..Len(Append(seen, Missed))
         /\ Shows(Append(seen, Missed), here, from, stream, Len(seen) + 1)
<1>1. Missed \in Shown /\ Missed.is = "missed" /\ Len(seen) \in Nat
  BY LenProperties DEF Shown, Missed
<1>2. /\ Append(seen, Missed) \in Seq(Shown) /\ Len(Append(seen, Missed)) = Len(seen) + 1
      /\ Append(seen, Missed)[Len(seen) + 1] = Missed
  BY <1>1, AppendProperties
<1> QED
  BY <1>1, <1>2 DEF Shows

LEMMA DeliverStep ==
  ASSUME ServerIsSet, QueuesTyped, StreamsTyped, StreamInv, NEW s \in DOMAIN sockets, Deliver(s)
  PROVE  StreamsStep
<1>1. PICK old, user, seen, here, from, stream :
        /\ old = sockets[s] /\ user = old.user /\ seen = old.seen /\ here = old.at
        /\ from = old.from /\ stream = streams[user]
  OBVIOUS
<1>2. old \in Socket /\ seen \in Seq(Shown) /\ here \in Nat /\ from \in Nat
  <2>1. old \in Socket
    BY <1>1, ElementOfSeq DEF StreamsTyped
  <2> QED
    BY <1>1, <2>1 DEF Socket
<1>3. /\ user \in DOMAIN streams /\ from <= here /\ here <= Len(stream)
      /\ \E k \in 0..Len(seen) : Shows(seen, here, from, stream, k)
  BY <1>1 DEF StreamInv, Stands
<1>4. stream \in Seq(Event) /\ Len(stream) \in Nat /\ EventsPerUser \in Nat
  BY <1>1, <1>3, LenProperties DEF StreamsTyped, ServerIsSet
<1>5. /\ Behind(s) = Len(stream) - here /\ Len(stream) - here > 0
      /\ sockets' = [sockets EXCEPT ![s] = Read(s)]
      /\ UNCHANGED <<toCore, fromCore, events, streams>>
  BY <1>1 DEF Deliver, Behind
<1>6. CASE Len(stream) - here > EventsPerUser
  <2>1. PICK there, new : /\ there = Len(stream) - EventsPerUser
                          /\ new = [old EXCEPT !.at = there, !.seen = Append(seen, Missed)]
    OBVIOUS
  <2>2. there \in Nat /\ from <= there /\ there <= Len(stream)
    BY <1>2, <1>3, <1>4, <1>6, <2>1
  <2>3. /\ Append(seen, Missed) \in Seq(Shown)
        /\ Len(seen) + 1 \in 0..Len(Append(seen, Missed))
        /\ Shows(Append(seen, Missed), there, from, stream, Len(seen) + 1)
    BY <1>2, <2>2, ShowsMissed
  <2>4. /\ new \in Socket /\ new.user = user /\ new.at = there /\ new.from = from
        /\ new.seen = Append(seen, Missed)
    BY <1>1, <1>2, <2>1, <2>2, <2>3 DEF Socket
  <2>5. Stands(new)
    BY <1>1, <1>3, <2>2, <2>3, <2>4 DEF Stands
  <2>6. sockets' = [sockets EXCEPT ![s] = new]
    BY <1>1, <1>5, <1>6, <2>1 DEF Read, Missed
  <2> QED
    BY <1>5, <2>4, <2>5, <2>6, OneSocketStep
<1>7. CASE ~(Len(stream) - here > EventsPerUser)
  <2>1. PICK k \in 0..Len(seen) : Shows(seen, here, from, stream, k)
    BY <1>3
  <2>2. PICK more, new : /\ more = Append(seen, stream[here + 1])
                         /\ new = [old EXCEPT !.at = here + 1, !.seen = more]
    OBVIOUS
  <2>3. here < Len(stream) /\ from <= here + 1 /\ here + 1 <= Len(stream) /\ here + 1 \in Nat
    BY <1>2, <1>3, <1>4, <1>5
  <2>4. more \in Seq(Shown) /\ k \in 0..Len(more) /\ Shows(more, here + 1, from, stream, k)
    BY <1>2, <1>3, <1>4, <2>1, <2>2, <2>3, ShowsNext
  <2>5. /\ new \in Socket /\ new.user = user /\ new.at = here + 1 /\ new.from = from
        /\ new.seen = more
    BY <1>1, <1>2, <2>2, <2>3, <2>4 DEF Socket
  <2>6. Stands(new)
    BY <1>1, <1>3, <2>3, <2>4, <2>5 DEF Stands
  <2>7. sockets' = [sockets EXCEPT ![s] = new]
    BY <1>1, <1>5, <1>7, <2>2 DEF Read
  <2> QED
    BY <1>5, <2>5, <2>6, <2>7, OneSocketStep
<1> QED
  BY <1>6, <1>7

LEMMA CloseStep ==
  ASSUME QueuesTyped, StreamsTyped, StreamInv, NEW s \in DOMAIN sockets, Close(s)
  PROVE  StreamsStep
<1>1. PICK old, new : old = sockets[s] /\ new = [old EXCEPT !.open = FALSE]
  OBVIOUS
<1>2. old \in Socket /\ Stands(old)
  BY <1>1, ElementOfSeq DEF StreamsTyped, StreamInv
<1>3. /\ new \in Socket /\ new.user = old.user /\ new.at = old.at /\ new.from = old.from
      /\ new.seen = old.seen
  BY <1>1, <1>2 DEF Socket
<1>4. Stands(new)
  BY <1>2, <1>3 DEF Stands
<1>5. sockets' = [sockets EXCEPT ![s] = new] /\ UNCHANGED <<toCore, fromCore, events, streams>>
  BY <1>1 DEF Close
<1> QED
  BY <1>3, <1>4, <1>5, OneSocketStep

LEMMA StreamInvNext ==
  ASSUME ServerIsSet, QueuesTyped, StreamsTyped, StreamInv, toCore' \in Seq(Request), ServerNext
  PROVE  StreamsStep
<1>1. CASE UNCHANGED <<fromCore, events, streams, sockets>>
  <2>1. QueuesTyped' /\ StreamsTyped'
    BY <1>1 DEF QueuesTyped, StreamsTyped
  <2>2. \A u \in DOMAIN streams' : Ordered(u)'
    BY <1>1 DEF StreamInv, Ordered, Said
  <2>3. \A s \in DOMAIN sockets' : Stands(sockets[s])'
    BY <1>1 DEF StreamInv, Stands
  <2> QED
    BY <1>1, <2>1, <2>2, <2>3 DEF StreamsStep, StreamInv, Said
<1>2. CASE CoreAnswers
  BY <1>2, AnswersStep
<1>3. ASSUME NEW to \in Users \cup {All}, CoreSays(to) PROVE StreamsStep
  BY <1>3, SaysStep
<1>4. CASE Pump
  BY <1>4, PumpStreams
<1>5. ASSUME NEW u \in Users, Connect(u) PROVE StreamsStep
  BY <1>5, ConnectStep
<1>6. ASSUME NEW s \in DOMAIN sockets, Deliver(s) PROVE StreamsStep
  BY <1>6, DeliverStep
<1>7. ASSUME NEW s \in DOMAIN sockets, Close(s) PROVE StreamsStep
  BY <1>7, CloseStep
<1> QED
  BY <1>1, <1>2, <1>3, <1>4, <1>5, <1>6, <1>7 DEF ServerNext, ApiRequest, AsSystem, OpenSurface,
     Arrive, LockCore, MakeCore, TimeOut, Abandon, Frame, MintGrant, Load

-----------------------------------------------------------------------------
ServerInv == ServerTypeOK /\ RouteInv /\ OneCore /\ StreamInv /\ FrameInv

LEMMA ServerInvInit == ServerIsSet /\ ServerInit => ServerInv
<1> SUFFICES ASSUME ServerIsSet, ServerInit PROVE ServerInv
  OBVIOUS
<1>1. /\ <<>> \in Seq(Called) /\ <<>> \in Seq(Request) /\ <<>> \in Seq(Answer \cup Event)
      /\ <<>> \in Seq(Socket) /\ <<>> \in Seq(Grant) /\ Len(<<>>) = 0
  BY EmptySeq
<1>2. ServerTypeOK
  BY <1>1 DEF ServerInit, ServerTypeOK, CallsTyped, QueuesTyped, StreamsTyped, GrantsTyped
<1>3. ToSet(<<>>) = {} /\ DOMAIN <<>> = {}
  BY DEF ToSet
<1>4. Way = {}
  BY <1>3 DEF ServerInit, Way
<1>5. RouteInv
  BY <1>3, <1>4 DEF ServerInit, RouteInv
<1>6. OneCore
  BY DEF ServerInit, OneCore
<1>7. StreamInv
  BY <1>3 DEF ServerInit, StreamInv
<1>8. FrameInv
  BY <1>1, <1>3 DEF ServerInit, FrameInv, ServerIsSet
<1> QED
  BY <1>2, <1>5, <1>6, <1>7, <1>8 DEF ServerInv

LEMMA ServerInvNext == ServerIsSet /\ ServerInv /\ [ServerNext]_serverVars => ServerInv'
<1> SUFFICES ASSUME ServerIsSet, ServerInv, [ServerNext]_serverVars PROVE ServerInv'
  OBVIOUS
<1>1. CASE ServerNext
  <2>1. ServerTypeOK /\ RouteInv /\ OneCore /\ StreamInv /\ FrameInv
    BY DEF ServerInv
  <2>2. CallsStep
    BY <1>1, <2>1, CallsNext
  <2>3. StreamsStep
    BY <1>1, <2>1, <2>2, StreamInvNext DEF ServerTypeOK, CallsStep
  <2>4. FrameInv' /\ GrantsTyped'
    BY <1>1, <2>1, <2>2, FrameInvNext DEF ServerTypeOK
  <2>5. OneCore'
    BY <1>1, <2>1, OneCoreNext
  <2> QED
    BY <2>2, <2>3, <2>4, <2>5 DEF ServerInv, ServerTypeOK, CallsStep, StreamsStep
<1>2. CASE UNCHANGED serverVars
  <2>1. ServerTypeOK'
    BY <1>2 DEF serverVars, ServerInv, ServerTypeOK, CallsTyped, QueuesTyped, StreamsTyped, GrantsTyped
  <2>2. RouteInv' /\ OneCore'
    <3>1. Way' = Way
      BY <1>2 DEF serverVars, Way
    <3> QED
      BY <1>2, <3>1 DEF serverVars, ServerInv, RouteInv, OneCore
  <2>3. StreamInv'
    <3>1. \A u \in DOMAIN streams' : Ordered(u)'
      BY <1>2 DEF serverVars, ServerInv, StreamInv, Ordered, Said
    <3>2. \A s \in DOMAIN sockets' : Stands(sockets[s])'
      BY <1>2 DEF serverVars, ServerInv, StreamInv, Stands
    <3> QED
      BY <1>2, <3>1, <3>2 DEF serverVars, ServerInv, StreamInv, Said
  <2>4. FrameInv'
    <3>1. \A g \in ToSet(grants') : GrantOK(g)'
      BY <1>2 DEF serverVars, ServerInv, FrameInv, GrantOK
    <3>2. \A c \in DOMAIN calls' : calls'[c].asked.kind = "file" => FileOK(c)'
      BY <1>2 DEF serverVars, ServerInv, FrameInv, FileOK
    <3> QED
      BY <1>2, <3>1, <3>2 DEF serverVars, ServerInv, FrameInv
  <2> QED
    BY <2>1, <2>2, <2>3, <2>4 DEF ServerInv
<1> QED
  BY <1>1, <1>2

\* Nobody gets what is another's (session.rs call_as and pump, ws.rs serve,
\* surfaces.rs open and serve): every caller its own answer, every socket its
\* person's events in order and without an untold gap, every frame the files
\* of the view its own person was shown; for any number of people, calls,
\* events and sockets, whatever times out, hangs up, falls behind or races to
\* make the Core.
THEOREM ServerAlwaysKeepsApart == ServerSpec => []ServerKeepsApart
<1>1. ServerInit => ServerInv
  BY ServerAssumption, ServerInvInit
<1>2. ServerInv /\ [ServerNext]_serverVars => ServerInv'
  BY ServerAssumption, ServerInvNext
<1>3. ServerInv => ServerKeepsApart
  BY RouteImplies, StreamImplies, FrameImplies DEF ServerInv, ServerTypeOK, ServerKeepsApart
<1> QED
  BY <1>1, <1>2, <1>3, PTL DEF ServerSpec

-----------------------------------------------------------------------------
(* The measuring kit.  What is written while a message is asked hangs on    *)
(* where the kit is; that a whole file has no hole needs that the progress   *)
(* is exactly what comes before the next item; and that a run which says     *)
(* nothing of its end asked everything needs every place it can be at after  *)
(* the last pass, the writes between them included.                          *)

KitTyped ==
  /\ pos \in [pass : Nat, item : Nat, turn : Nat]
  /\ onward \in {"none", "pass", "card", "closing", "over"}

\* What is being written when a message is asked, or has been answered.
KitAlone ==
  /\ step \in {"files", "loading"} => running = {}
  /\ step \in {"pass", "ask", "read", "carry", "carry_done", "keeping", "writing",
               "reading", "picture", "card"} /\ ~grace => running = {}

\* A file last written well holds what was measured; it is closed at the very end.
KitHolds ==
  /\ written = "well" =>
        results.whole /\ {x \in progress : x.step # "reading"} \subseteq results.holds
  /\ results.whole => NoHole(results.holds)
  /\ ~results.going =>
        step = "over" /\ results.whole /\ results.ended = ended /\ results.holds = progress

\* Every item before the one asked next has its place in the progress ...
KitBehind ==
  \A p \in DOMAIN Passes : \A i \in DOMAIN Passes[p].items :
    (p < pos.pass \/ (p = pos.pass /\ i < pos.item))
      => Item(p, i) \in progress

\* ... and no other has, ...
KitWithin ==
  \A p \in DOMAIN Passes : \A i \in DOMAIN Passes[p].items :
    Item(p, i) \in progress => p < pos.pass \/ (p = pos.pass /\ i < pos.item)

\* ... and what comes after the passes comes after all of them.
Place == IF step \in {"keeping", "writing"} THEN onward ELSE step
KitAfter ==
  /\ (\/ Place \in {"reading", "picture", "card"}
      \/ Place \in {"closing", "over"} /\ ended = NoEnd) => pos.pass > Len(Passes)
  /\ step \in {"keeping", "writing"} => written = "under_way"

KitInv == KitTyped /\ KitAlone /\ KitHolds /\ KitBehind /\ KitWithin /\ KitAfter

\* The passes: how many, and that positions in them are numbers.
LEMMA PassFacts ==
  ASSUME KitAsks
  PROVE  /\ Len(Passes) \in Nat /\ DOMAIN Passes = 1..Len(Passes)
         /\ \A p \in DOMAIN Passes :
              /\ Len(Passes[p].items) \in Nat
              /\ DOMAIN Passes[p].items = 1..Len(Passes[p].items)
BY DEF KitAsks

LEMMA KitInvInit == KitAsks /\ MeasureInit => KitInv
<1> SUFFICES ASSUME KitAsks, MeasureInit PROVE KitInv
  OBVIOUS
<1>1. KitTyped /\ KitAlone /\ KitAfter
  BY DEF MeasureInit, KitTyped, KitAlone, KitAfter, Place
<1>2. KitHolds /\ KitWithin
  <2>1. results.whole /\ results.holds = {} /\ results.going /\ progress = {}
    BY Zenon DEF MeasureInit
  <2> QED
    BY <2>1 DEF KitHolds, KitWithin, NoHole
<1>3. KitBehind
  <2>1. pos.pass = 1 /\ pos.item = 1
    BY DEF MeasureInit
  <2>2. ASSUME NEW p \in DOMAIN Passes, NEW i \in DOMAIN Passes[p].items
        PROVE  ~(p < pos.pass \/ (p = pos.pass /\ i < pos.item))
    <3>1. p \in Nat /\ i \in Nat /\ p >= 1 /\ i >= 1
      BY PassFacts
    <3> QED
      BY <2>1, <3>1
  <2> QED
    BY <2>2 DEF KitBehind
<1> QED
  BY <1>1, <1>2, <1>3 DEF KitInv

LEMMA ReportFacts ==
  /\ Report.whole /\ Report.holds = progress /\ Report.ended = ended
  /\ ~Report.going => onward = "over"
BY Zenon DEF Report

LEMMA EmptiedFacts == ~Emptied.whole /\ Emptied.going
BY Zenon DEF Emptied

\* What was measured has no hole.
LEMMA ProgressWhole ==
  ASSUME KitAsks, KitInv
  PROVE  NoHole(progress)
<1> SUFFICES ASSUME NEW p \in DOMAIN Passes, NEW i \in DOMAIN Passes[p].items, Item(p, i) \in progress,
                    NEW q \in DOMAIN Passes, NEW j \in DOMAIN Passes[q].items,
                    q < p \/ (q = p /\ j < i)
             PROVE  Item(q, j) \in progress
  BY DEF NoHole
<1>1. p \in Nat /\ i \in Nat /\ q \in Nat /\ j \in Nat /\ pos.pass \in Nat /\ pos.item \in Nat
  <2>1. p \in Nat /\ i \in Nat
    BY PassFacts
  <2>2. q \in Nat /\ j \in Nat
    BY PassFacts
  <2>3. pos.pass \in Nat /\ pos.item \in Nat
    BY DEF KitInv, KitTyped
  <2> QED
    BY <2>1, <2>2, <2>3
<1>2. p < pos.pass \/ (p = pos.pass /\ i < pos.item)
  BY DEF KitInv, KitWithin
<1>3. q < pos.pass \/ (q = pos.pass /\ j < pos.item)
  BY <1>1, <1>2
<1> QED
  BY <1>3 DEF KitInv, KitBehind

\* A step that asks nothing new and keeps nothing: what was heard stays.
LEMMA KitSame ==
  ASSUME KitInv, UNCHANGED <<pos, progress, writeVars>>, results.going
  PROVE  KitTyped' /\ KitHolds' /\ KitBehind' /\ KitWithin'
BY DEF KitInv, KitTyped, KitHolds, KitBehind, KitWithin, NoHole, writeVars

LEMMA StillGoing ==
  ASSUME KitInv, step # "over"
  PROVE  results.going
BY DEF KitInv, KitHolds

\* A write is due: the file is as it was, and is not said to be written well.
LEMMA KeepsHolds ==
  ASSUME KitInv, step # "over", NEW then, Keeps(then)
  PROVE  KitHolds'
BY StillGoing DEF Keeps, KitInv, KitHolds, NoHole

LEMMA NextPassStep ==
  ASSUME KitAsks, KitInv, NextPass
  PROVE  KitInv'
<1>1. /\ pos \in [pass : Nat, item : Nat, turn : Nat] /\ UNCHANGED <<running, grace, progress, writeVars>>
      /\ step = "pass" /\ results.going
  BY StillGoing DEF NextPass, KitInv, KitTyped
<1>2. KitAlone' /\ KitHolds'
  <2>1. step' \in {"closing", "reading", "ask", "carry", "pass"} /\ UNCHANGED ended
    BY <1>1 DEF NextPass, Goes
  <2>2. KitAlone'
    BY <1>1, <2>1 DEF KitInv, KitAlone
  <2>3. KitHolds'
    BY <1>1 DEF KitInv, KitHolds, NoHole, writeVars
  <2> QED
    BY <2>2, <2>3
<1>3. CASE pos' = pos
  <2>1. KitTyped' /\ KitBehind' /\ KitWithin'
    BY <1>1, <1>3 DEF KitInv, KitTyped, KitBehind, KitWithin, writeVars
  <2>2. KitAfter'
    BY <1>1, <1>3 DEF NextPass, Goes, KitAfter, Place
  <2> QED
    BY <1>2, <2>1, <2>2 DEF KitInv
<1>4. CASE pos' # pos
  <2>1. /\ ~(pos.pass > Len(Passes)) /\ ~(pos.item <= Len(Passes[pos.pass].items))
        /\ pos' = [pass |-> pos.pass + 1, item |-> 1, turn |-> 1] /\ step' = step
    BY <1>4 DEF NextPass, Items
  <2>2. KitTyped'
    BY <1>1, <2>1 DEF KitInv, KitTyped, writeVars
  <2>3. ASSUME NEW p \in DOMAIN Passes, NEW i \in DOMAIN Passes[p].items,
               p < pos'.pass \/ (p = pos'.pass /\ i < pos'.item)
        PROVE  Item(p, i) \in progress
    <3>1. /\ p \in Nat /\ i \in Nat /\ 1 <= i /\ i <= Len(Passes[p].items)
          /\ Len(Passes[p].items) \in Nat
      BY PassFacts
    <3>2. p < pos.pass \/ (p = pos.pass /\ i < pos.item)
      BY <1>1, <2>1, <2>3, <3>1
    <3> QED
      BY <3>2 DEF KitInv, KitBehind
  <2>4. KitBehind'
    BY <1>1, <2>3 DEF KitBehind
  <2>5. KitAfter'
    BY <1>1, <2>1 DEF KitAfter, Place
  <2>6. KitWithin'
    <3> SUFFICES ASSUME NEW p \in DOMAIN Passes, NEW i \in DOMAIN Passes[p].items, Item(p, i) \in progress
                 PROVE  p < pos'.pass
      BY <1>1 DEF KitWithin
    <3>1. p \in Nat /\ (p < pos.pass \/ p = pos.pass)
      BY PassFacts DEF KitInv, KitWithin
    <3> QED
      BY <1>1, <2>1, <3>1
  <2> QED
    BY <1>2, <2>2, <2>4, <2>5, <2>6 DEF KitInv
<1> QED
  BY <1>3, <1>4

LEMMA ReadAnswerStep ==
  ASSUME KitAsks, KitInv, ReadAnswer
  PROVE  KitInv'
<1>1. /\ pos \in [pass : Nat, item : Nat, turn : Nat] /\ UNCHANGED <<running, grace>>
      /\ step = "read" /\ results.going
  BY StillGoing DEF ReadAnswer, KitInv, KitTyped
<1>2. CASE pos.turn < Items[pos.item]
  <2>1. /\ pos' = [pos EXCEPT !.turn = @ + 1] /\ UNCHANGED <<progress, writeVars, ended>>
        /\ step' = "ask"
    BY <1>2 DEF ReadAnswer, Goes
  <2>2. KitTyped' /\ pos'.pass = pos.pass /\ pos'.item = pos.item
    BY <1>1, <2>1 DEF KitInv, KitTyped, writeVars
  <2>3. KitHolds' /\ KitBehind' /\ KitWithin'
    BY <1>1, <2>1, <2>2 DEF KitInv, KitHolds, KitBehind, KitWithin, NoHole, writeVars
  <2>4. KitAlone' /\ KitAfter'
    BY <1>1, <2>1 DEF KitInv, KitAlone, KitAfter, Place
  <2> QED
    BY <2>2, <2>3, <2>4 DEF KitInv
<1>3. CASE ~(pos.turn < Items[pos.item])
  <2>1. /\ pos' = [pos EXCEPT !.item = @ + 1, !.turn = 1]
        /\ progress' = progress \cup {Item(pos.pass, pos.item)} /\ Keeps("pass")
    BY <1>3 DEF ReadAnswer, KeptAfterItem
  <2>2. KitTyped' /\ pos'.pass = pos.pass /\ pos'.item = pos.item + 1
    <3>1. PICK p, i, t \in Nat : pos = [pass |-> p, item |-> i, turn |-> t]
      BY <1>1
    <3>2. pos' = [pass |-> p, item |-> i + 1, turn |-> 1]
      BY <2>1, <3>1
    <3> QED
      BY <2>1, <3>1, <3>2 DEF KitTyped, Keeps
  <2>3. KitHolds' /\ KitAlone' /\ KitAfter'
    BY <1>1, <2>1, KeepsHolds DEF KitInv, KitAlone, KitAfter, Keeps, Place
  <2>4. ASSUME NEW p \in DOMAIN Passes, NEW i \in DOMAIN Passes[p].items
        PROVE  /\ p \in Nat /\ i \in Nat
               /\ (p < pos'.pass \/ (p = pos'.pass /\ i < pos'.item))
                    <=> ((p < pos.pass \/ (p = pos.pass /\ i < pos.item)) \/ (p = pos.pass /\ i = pos.item))
               /\ Item(p, i) = Item(pos.pass, pos.item) <=> (p = pos.pass /\ i = pos.item)
    BY <1>1, <2>2, PassFacts DEF Item
  <2>5. KitBehind'
    BY <2>1, <2>4 DEF KitInv, KitBehind
  <2>6. KitWithin'
    BY <2>1, <2>4 DEF KitInv, KitWithin
  <2> QED
    BY <2>2, <2>3, <2>5, <2>6 DEF KitInv
<1> QED
  BY <1>2, <1>3

\* Beside the items other things are measured, which are none of them.
LEMMA NotedStep ==
  ASSUME KitInv, NEW note, note.step # "item", progress' = progress \cup {note},
         pos'.pass = pos.pass, pos'.item = pos.item
  PROVE  KitBehind' /\ KitWithin'
<1>1. \A p, i : Item(p, i).step = "item"
  BY DEF Item
<1>2. \A p, i : Item(p, i) \in progress' <=> Item(p, i) \in progress
  BY <1>1
<1> QED
  BY <1>2 DEF KitInv, KitBehind, KitWithin

LEMMA CarryDoneStep ==
  ASSUME KitInv, NEW again \in BOOLEAN, CarryDone(again)
  PROVE  KitInv'
<1>1. /\ pos \in [pass : Nat, item : Nat, turn : Nat] /\ pos' = [pos EXCEPT !.turn = 2]
      /\ step = "carry_done" /\ results.going /\ UNCHANGED grace
  BY StillGoing DEF CarryDone, KitInv, KitTyped
<1>2. pos' \in [pass : Nat, item : Nat, turn : Nat] /\ pos'.pass = pos.pass /\ pos'.item = pos.item
  BY <1>1
<1>3. CASE again /\ pos.turn = 1
  <2>1. step' = "carried" /\ UNCHANGED <<progress, writeVars, ended>>
    BY <1>3 DEF CarryDone, Goes
  <2>2. KitTyped' /\ KitHolds' /\ KitBehind' /\ KitWithin'
    BY <1>1, <1>2, <2>1 DEF KitInv, KitTyped, KitHolds, KitBehind, KitWithin, NoHole, writeVars
  <2>3. KitAlone' /\ KitAfter'
    BY <2>1 DEF KitAlone, KitAfter, Place
  <2> QED
    BY <2>2, <2>3 DEF KitInv
<1>4. CASE ~(again /\ pos.turn = 1)
  <2> DEFINE note == [step |-> "carried", pass |-> pos.pass, nr |-> 0]
  <2>1. Keeps("pass") /\ UNCHANGED running /\ progress' = progress \cup {note}
    BY <1>4 DEF CarryDone
  <2>2. note.step # "item"
    OBVIOUS
  <2>3. KitBehind' /\ KitWithin'
    <3> HIDE DEF note
    <3> QED
      BY <1>2, <2>1, <2>2, NotedStep
  <2>4. KitTyped' /\ KitHolds'
    BY <1>1, <1>2, <2>1, KeepsHolds DEF Keeps, KitTyped
  <2>5. KitAlone' /\ KitAfter'
    BY <1>1, <2>1 DEF KitInv, KitAlone, KitAfter, Keeps, Place
  <2> QED
    BY <2>3, <2>4, <2>5 DEF KitInv
<1> QED
  BY <1>3, <1>4

LEMMA NoteFacts ==
  ASSUME step \in {"reading", "picture", "card"}
  PROVE  Note(step).step = step /\ Note("reading").step = "reading"
BY DEF Note

LEMMA ReadingStep ==
  ASSUME KitInv, Reading
  PROVE  KitInv'
<1>1. /\ UNCHANGED <<pos, running, grace, writeVars, ended>> /\ results.going
      /\ progress' = progress \cup {Note("reading")}
      /\ step = "reading" /\ step' \in {"picture", "closing"}
  BY StillGoing DEF Reading, Goes
<1>2. KitBehind' /\ KitWithin'
  BY <1>1, NoteFacts, NotedStep
<1>3. KitTyped' /\ KitAlone' /\ KitAfter'
  BY <1>1 DEF KitInv, KitTyped, KitAlone, KitAfter, Place, writeVars
<1>4. {x \in progress' : x.step # "reading"} = {x \in progress : x.step # "reading"}
  BY <1>1, NoteFacts
<1>5. KitHolds'
  BY <1>1, <1>4 DEF KitInv, KitHolds, NoHole, writeVars
<1> QED
  BY <1>2, <1>3, <1>5 DEF KitInv

LEMMA PicturePassStep ==
  ASSUME KitInv, PicturePass
  PROVE  KitInv'
<1> DEFINE then == IF step = "picture" THEN "card" ELSE "closing"
<1>1. /\ UNCHANGED <<pos, running, grace>> /\ progress' = progress \cup {Note(step)}
      /\ step \in {"picture", "card"} /\ Keeps(then)
  BY DEF PicturePass
<1>2. then \in {"card", "closing"}
  OBVIOUS
<1> HIDE DEF then
<1>3. KitBehind' /\ KitWithin'
  BY <1>1, NoteFacts, NotedStep
<1>4. KitHolds'
  BY <1>1, KeepsHolds
<1>5. KitTyped' /\ KitAlone' /\ KitAfter'
  BY <1>1, <1>2 DEF KitInv, KitTyped, KitAlone, KitAfter, Keeps, Place
<1> QED
  BY <1>3, <1>4, <1>5 DEF KitInv

\* The file is emptied, filled, or neither.
LEMMA WritingStep ==
  ASSUME KitAsks, KitInv, OpenResults \/ WriteEnds \/ WriteFails
  PROVE  KitInv'
<1>1. /\ UNCHANGED <<pos, running, grace, progress, ended, onward>>
      /\ step \in {"keeping", "writing"}
      /\ step' = onward \/ (step' = "writing" /\ written' = written)
      /\ onward \in {"none", "pass", "card", "closing", "over"} /\ results.going
  BY StillGoing DEF OpenResults, WriteEnds, WriteFails, notWriting, KitInv, KitTyped
<1>2. KitTyped' /\ KitAlone' /\ KitBehind' /\ KitWithin' /\ KitAfter'
  BY <1>1 DEF KitInv, KitTyped, KitAlone, KitBehind, KitWithin, KitAfter, Place
<1>3. CASE OpenResults
  <2>1. results' = Emptied /\ written' = written /\ step = "keeping"
    BY <1>3 DEF OpenResults
  <2>2. KitHolds'
    BY <1>1, <1>3, <2>1, EmptiedFacts DEF KitHolds, KitAfter, KitInv, OpenResults
  <2> QED
    BY <1>2, <2>2 DEF KitInv
<1>4. CASE WriteEnds
  <2>1. results' = Report /\ step' = onward
    BY <1>4 DEF WriteEnds
  <2>2. NoHole(results'.holds) /\ results'.whole /\ results'.holds = progress' /\ results'.ended = ended'
    BY <1>1, <2>1, ReportFacts, ProgressWhole
  <2>3. ~results'.going => step' = "over"
    BY <2>1, ReportFacts
  <2>4. KitHolds'
    BY <2>2, <2>3 DEF KitHolds, NoHole
  <2> QED
    BY <1>2, <2>4 DEF KitInv
<1>5. CASE WriteFails
  <2>1. KitHolds'
    BY <1>1, <1>5 DEF WriteFails, KitInv, KitHolds, NoHole
  <2> QED
    BY <1>2, <2>1 DEF KitInv
<1> QED
  BY <1>3, <1>4, <1>5

\* The run ends early, saying why.
LEMMA FailsStep ==
  ASSUME KitInv, NEW why, why # NoEnd, Fails(why), step # "over",
         UNCHANGED <<pos, running, grace, progress, writeVars>>
  PROVE  KitInv'
<1>1. results.going /\ step' = "closing" /\ ended' # NoEnd
  BY StillGoing DEF Fails
<1>2. KitAlone' /\ KitAfter'
  BY <1>1 DEF KitAlone, KitAfter, Place
<1> QED
  BY <1>1, <1>2, KitSame DEF KitInv

\* The next message's turn comes, or an answer to be waited for.
LEMMA MovesStep ==
  ASSUME KitInv, UNCHANGED <<pos, progress, writeVars>>, step # "over",
         step' \notin {"reading", "picture", "card", "closing", "over", "keeping", "writing"}, KitAlone'
  PROVE  KitInv'
<1>1. results.going
  BY StillGoing
<1>2. KitAfter'
  BY DEF KitAfter, Place
<1> QED
  BY <1>1, <1>2, KitSame DEF KitInv

LEMMA PresentStep ==
  ASSUME KitInv, Present
  PROVE  KitInv'
<1>1. /\ step = "files" /\ UNCHANGED <<pos, running, grace, progress, writeVars>>
      /\ running = {}
  BY DEF Present, KitInv, KitAlone
<1>2. CASE \E why \in {"download_failed", "not_the_published_files", "not_on_this_computer"} : Fails(why)
  BY <1>1, <1>2, FailsStep DEF NoEnd
<1>3. CASE step' \in {"files", "loading"}
  BY <1>1, <1>3, MovesStep DEF KitAlone
<1> QED
  BY <1>1, <1>2, <1>3 DEF Present, Goes

LEMMA CloseRunStep ==
  ASSUME KitInv, CloseRun
  PROVE  KitInv'
<1>1. step = "closing" /\ Keeps("over") /\ running' = {} /\ UNCHANGED <<pos, grace, progress>>
  BY DEF CloseRun
<1>2. KitTyped' /\ KitAlone' /\ KitBehind' /\ KitWithin'
  BY <1>1 DEF KitInv, KitTyped, KitAlone, KitBehind, KitWithin, Keeps
<1>3. KitAfter'
  BY <1>1 DEF KitInv, KitAfter, Keeps, Place
<1>4. KitHolds'
  BY <1>1, KeepsHolds
<1> QED
  BY <1>2, <1>3, <1>4 DEF KitInv

LEMMA KitInvNext == KitAsks /\ KitInv /\ [MeasureNext]_measureVars => KitInv'
<1> SUFFICES ASSUME KitAsks, KitInv, [MeasureNext]_measureVars PROVE KitInv'
  OBVIOUS
<1>1. CASE UNCHANGED measureVars
  BY <1>1 DEF measureVars, KitInv, KitTyped, KitAlone, KitHolds, KitBehind, KitWithin, KitAfter,
              Place, NoHole
<1>2. CASE Present
  BY <1>2, PresentStep
<1>3. CASE Stall
  BY <1>3, FailsStep DEF Stall, NoEnd
<1>4. ASSUME NEW to \in Stages, CoreFiles(to) PROVE KitInv'
  BY <1>4, MovesStep DEF CoreFiles, KitInv, KitAlone
<1>5. ASSUME NEW works \in BOOLEAN, LoadModel(works) PROVE KitInv'
  <2>1. CASE works
    BY <1>5, <2>1, MovesStep DEF LoadModel, Goes, KitInv, KitAlone
  <2>2. CASE ~works
    BY <1>5, <2>2, FailsStep DEF LoadModel, NoEnd
  <2> QED
    BY <2>1, <2>2
<1>6. CASE NextPass
  BY <1>6, NextPassStep
<1>7. ASSUME NEW taken \in BOOLEAN, Send(taken) PROVE KitInv'
  BY <1>7, MovesStep DEF Send, Goes, KitInv, KitAlone
<1>8. CASE Ends
  BY <1>8, MovesStep DEF Ends, Goes, KitAlone
<1>9. CASE Overruns
  BY <1>9, MovesStep DEF Overruns, Goes, KitAlone
<1>10. CASE Stopped
  BY <1>10, MovesStep DEF Stopped, Goes, KitAlone
<1>11. CASE ReadAnswer
  BY <1>11, ReadAnswerStep
<1>12. CASE CarrySend
  BY <1>12, MovesStep DEF CarrySend, Goes, KitAlone
<1>13. ASSUME NEW again \in BOOLEAN, CarryDone(again) PROVE KitInv'
  BY <1>13, CarryDoneStep
<1>14. CASE Reading \/ PicturePass
  BY <1>14, ReadingStep, PicturePassStep
<1>15. CASE LimitRunsOut
  BY <1>15, FailsStep DEF LimitRunsOut, NoEnd
<1>16. CASE CloseRun
  BY <1>16, CloseRunStep
<1>17. ASSUME NEW turn \in running, CoreEnds(turn) PROVE KitInv'
  BY <1>17 DEF CoreEnds, KitInv, KitTyped, KitAlone, KitHolds, KitBehind, KitWithin, KitAfter,
               Place, NoHole, writeVars
<1>18. CASE Killed
  BY <1>18, MovesStep DEF Killed, KitAlone
<1>19. CASE OpenResults \/ WriteEnds \/ WriteFails
  BY <1>19, WritingStep
<1> QED
  BY <1>1, <1>2, <1>3, <1>4, <1>5, <1>6, <1>7, <1>8, <1>9, <1>10, <1>11, <1>12, <1>13, <1>14,
     <1>15, <1>16, <1>17, <1>18, <1>19 DEF MeasureNext

\* What closes without a reason comes after the last pass: everything was asked.
LEMMA KitInvMeasures == KitAsks /\ KitInv => MeasuredIsKept
<1> SUFFICES ASSUME KitAsks, KitInv PROVE MeasuredIsKept
  OBVIOUS
<1>1. AskedAlone
  BY DEF KitInv, KitAlone, AskedAlone
<1>2. ASSUME ~results.going, results.ended = NoEnd,
             NEW p \in DOMAIN Passes, NEW i \in DOMAIN Passes[p].items
      PROVE  Item(p, i) \in results.holds
  <2>1. step = "over" /\ ended = NoEnd /\ results.holds = progress
    BY <1>2 DEF KitInv, KitHolds
  <2>2. pos.pass > Len(Passes) /\ pos.pass \in Nat
    BY <2>1 DEF KitInv, KitAfter, KitTyped, Place
  <2>3. p \in 1..Len(Passes) /\ Len(Passes) \in Nat
    BY PassFacts
  <2>4. p < pos.pass
    BY <2>2, <2>3
  <2> QED
    BY <2>1, <2>4 DEF KitInv, KitBehind
<1>3. ResultsAreKept
  BY <1>2 DEF KitInv, KitHolds, ResultsAreKept
<1> QED
  BY <1>1, <1>3 DEF MeasuredIsKept

(* What a kit measured is each answer's own, and is in its file while the    *)
(* last write went well; a whole file has no hole and a closed one is whole, *)
(* however the run ended and whatever writes failed, for every script        *)
(* (measure.rs run_pass, answer_ends, keep).                                 *)
THEOREM MeasuredAlwaysKept == MeasureSpec => []MeasuredIsKept
<1>1. KitAsks
  BY KitAsks
<1> QED
  BY <1>1, KitInvInit, KitInvNext, KitInvMeasures, PTL DEF MeasureSpec

-----------------------------------------------------------------------------
(* A database of the first version.  What a start leaves for the next is in *)
(* the records, the chats, the version and the name of the legacy file: each *)
(* of these says that what comes before it was done, or that a put of it     *)
(* failed.                                                                   *)

MoveTyped ==
  /\ version \in {1, SchemaVersion}
  /\ legacy \in {"there", "renamed"}
  /\ chats \in [DOMAIN chats -> Nat] /\ inset \in [DOMAIN inset -> Nat]
  /\ always \subseteq OldDocs
  /\ shown \in [OldDocs -> {"nothing_yet", "its_own", "a_new_document"}]

\* Every old document is recorded before a start goes on, and before the
\* version says so, or a put of it failed.
MoveRecords ==
  /\ at = "recording" => (OldDocs \ (todo \cup missed)) \subseteq DOMAIN records
  /\ at \in {"reading", "importing", "renaming", "versioning", "up"} \/ version = SchemaVersion
       => (OldDocs \ missed) \subseteq DOMAIN records

\* The chats are in before their file is renamed or the version written, but
\* for those a put of which failed.
MoveChats ==
  /\ at = "importing" => (OldChats \ (todo \cup missed)) \subseteq DOMAIN chats
  /\ at = "renaming" => (OldChats \ missed) \subseteq DOMAIN chats
  /\ at \in {"versioning", "up"} \/ version = SchemaVersion \/ legacy = "renamed"
       => unread \/ (OldChats \ (deleted \cup missed)) \subseteq DOMAIN chats

\* What is shown of a chat is at least what is saved of it; while chats are
\* brought in, nothing is saved that is not shown.
MoveSet ==
  /\ \A c \in DOMAIN chats : c \in DOMAIN inset => chats[c] <= inset[c]
  /\ at \in {"recording", "reading"} => DOMAIN inset = DOMAIN chats
  /\ at = "importing" => DOMAIN chats \subseteq DOMAIN inset /\ (todo \cap DOMAIN inset) \subseteq DOMAIN chats

\* A harness that was there when its document was recorded finds it.
MoveShows ==
  \A h \in always : /\ h \in DOMAIN records => records[h] = h
                    /\ h \notin missed
                    /\ shown[h] # "a_new_document"

MoveInv == MoveTyped /\ MoveRecords /\ MoveChats /\ MoveSet /\ MoveShows

LEMMA WithTyped ==
  ASSUME NEW f, f \in [DOMAIN f -> Nat], NEW key, NEW value \in Nat
  PROVE  With(f, key, value) \in [DOMAIN With(f, key, value) -> Nat]
BY DEF With

LEMMA NoChatsFacts == DOMAIN NoChats = {} /\ NoChats \in [DOMAIN NoChats -> Nat]
BY DEF NoChats

LEMMA MoveInvInit == MigrationInit => MoveInv
<1> SUFFICES ASSUME MigrationInit PROVE MoveInv
  OBVIOUS
<1>1. MoveTyped
  BY NoChatsFacts DEF MigrationInit, MoveTyped
<1>2. /\ version # SchemaVersion /\ legacy # "renamed" /\ at = "down"
  <2>1. version = 1 /\ legacy = "there" /\ at = "down"
    BY Zenon DEF MigrationInit
  <2> QED
    BY <2>1 DEF SchemaVersion
<1>3. MoveShows /\ MoveSet
  <2>1. DOMAIN records = {} /\ DOMAIN chats = {} /\ missed = {}
    BY Zenon, NoChatsFacts DEF MigrationInit
  <2>2. \A h \in always : shown[h] = "nothing_yet"
    BY DEF MigrationInit
  <2> QED
    BY <1>2, <2>1, <2>2 DEF MoveShows, MoveSet
<1> QED
  BY <1>1, <1>2, <1>3 DEF MoveInv, MoveRecords, MoveChats

\* A step in which only the place of the start changes, and with it what is
\* shown and what is still to do.
LEMMA PlaceStep ==
  ASSUME MoveInv, UNCHANGED <<version, records, chats, legacy, always, shown, deleted, unread, missed>>,
         inset' \in {inset, chats, NoChats},
         \/ at' \in {"copying", "opening", "down"}
         \/ at' = "recording" /\ inset' = chats /\ todo' = OldDocs \ DOMAIN records
         \/ at' = "up" /\ version = SchemaVersion
         \/ at' = "reading" /\ at = "recording" /\ inset' = inset /\ todo = {}
         \/ at' = "renaming" /\ at = "importing" /\ todo = {}
  PROVE  MoveInv'
<1>1. MoveTyped' /\ MoveRecords' /\ MoveChats' /\ MoveShows'
  BY NoChatsFacts DEF MoveInv, MoveTyped, MoveRecords, MoveChats, MoveShows
<1>2. MoveSet'
  BY NoChatsFacts DEF MoveInv, MoveTyped, MoveSet
<1> QED
  BY <1>1, <1>2 DEF MoveInv

LEMMA RecordStep ==
  ASSUME MoveInv, NEW doc \in OldDocs, NEW works \in BOOLEAN, Record(doc, works)
  PROVE  MoveInv'
<1>1. /\ UNCHANGED <<version, chats, legacy, at, inset, shown, deleted, unread>>
      /\ at = "recording" /\ todo' = todo \ {doc} /\ always' \subseteq always
  BY DEF Record
<1>2. CASE works
  <2>1. /\ DOMAIN records' = DOMAIN records \cup {doc} /\ records'[doc] = LegacyHarness(doc)
        /\ \A d \in DOMAIN records : d # doc => records'[d] = records[d]
        /\ missed' = missed \ {doc} /\ (doc \in always' => doc \in loaded)
    <3>1. /\ records' = With(records, doc, LegacyHarness(doc)) /\ missed' = missed \ {doc}
          /\ doc \in always' => doc \in loaded
      BY <1>2 DEF Record
    <3> QED
      BY <3>1 DEF With
  <2>2. MoveShows'
    BY <1>1, <2>1 DEF MoveInv, MoveShows, LegacyHarness
  <2>3. MoveRecords' /\ MoveChats'
    <3>1. (OldDocs \ (todo' \cup missed')) \subseteq DOMAIN records'
      BY <1>1, <2>1 DEF MoveInv, MoveRecords
    <3>2. version = SchemaVersion => (OldDocs \ missed') \subseteq DOMAIN records'
      BY <1>1, <2>1 DEF MoveInv, MoveRecords
    <3>3. version = SchemaVersion \/ legacy = "renamed"
            => unread \/ (OldChats \ (deleted \cup missed')) \subseteq DOMAIN chats
      BY <1>1, <2>1, KindsApart DEF MoveInv, MoveChats
    <3> QED
      BY <1>1, <3>1, <3>2, <3>3 DEF MoveRecords, MoveChats
  <2> QED
    BY <1>1, <2>2, <2>3 DEF MoveInv, MoveTyped, MoveSet
<1>3. CASE ~works
  <2>1. UNCHANGED records /\ missed' = missed \cup {doc} /\ always' = always \ {doc}
    BY <1>3 DEF Record
  <2> QED
    BY <1>1, <2>1 DEF MoveInv, MoveTyped, MoveRecords, MoveChats, MoveSet, MoveShows
<1> QED
  BY <1>2, <1>3

LEMMA ReadLegacyFileStep ==
  ASSUME MoveInv, NEW works \in BOOLEAN, ReadLegacyFile(works)
  PROVE  MoveInv'
<1>1. /\ UNCHANGED <<version, records, chats, legacy, inset, always, shown, deleted, missed>>
      /\ at = "reading" /\ at' = IF works THEN "importing" ELSE "versioning"
      /\ works => todo' = OldChats
      /\ unread' = (unread \/ (~works /\ legacy = "there"))
  BY DEF ReadLegacyFile
<1>2. MoveTyped' /\ MoveRecords' /\ MoveShows' /\ MoveSet'
  BY <1>1 DEF MoveInv, MoveTyped, MoveRecords, MoveShows, MoveSet
<1>3. MoveChats'
  BY <1>1 DEF MoveInv, MoveTyped, MoveChats
<1> QED
  BY <1>2, <1>3 DEF MoveInv

\* What a put of a chat leaves, whether it works or not.
LEMMA PersistFacts ==
  ASSUME MoveInv, NEW chat \in OldChats, NEW words \in Nat, NEW works \in BOOLEAN, Persist(chat, words, works),
         chat \in DOMAIN chats => chats[chat] <= words
  PROVE  /\ chats' \in [DOMAIN chats' -> Nat] /\ inset' \in [DOMAIN inset' -> Nat]
         /\ DOMAIN inset' = DOMAIN inset \cup {chat} /\ DOMAIN chats \subseteq DOMAIN chats'
         /\ DOMAIN chats' \subseteq DOMAIN chats \cup {chat}
         /\ chat \in DOMAIN chats' \cup missed'
         /\ (missed \ DOMAIN chats') \ {chat} \subseteq missed' /\ missed' \subseteq missed \cup {chat}
         /\ missed \subseteq missed' \cup DOMAIN chats'
         /\ \A c \in DOMAIN chats' : c \in DOMAIN inset' => chats'[c] <= inset'[c]
         /\ \A c \in DOMAIN chats : chats[c] <= chats'[c]
<1>1. /\ inset' = With(inset, chat, words)
      /\ chats' = IF works THEN With(chats, chat, words) ELSE chats
      /\ missed' = IF works THEN missed \ {chat}
                   ELSE IF chat \in DOMAIN chats THEN missed ELSE missed \cup {chat}
  BY DEF Persist
<1>2. chats \in [DOMAIN chats -> Nat] /\ inset \in [DOMAIN inset -> Nat]
  BY DEF MoveInv, MoveTyped
<1>3. \A c \in DOMAIN chats : c \in DOMAIN inset => chats[c] <= inset[c]
  BY DEF MoveInv, MoveSet
<1>4. /\ inset' \in [DOMAIN inset' -> Nat] /\ DOMAIN inset' = DOMAIN inset \cup {chat}
      /\ \A c \in DOMAIN inset' : inset'[c] = IF c = chat THEN words ELSE inset[c]
  <2>1. inset' \in [DOMAIN inset' -> Nat]
    BY <1>1, <1>2, WithTyped, Zenon
  <2>2. /\ DOMAIN inset' = DOMAIN inset \cup {chat}
        /\ \A c \in DOMAIN inset \cup {chat} : inset'[c] = IF c = chat THEN words ELSE inset[c]
    BY <1>1 DEF With
  <2> QED
    BY <2>1, <2>2
<1>5. CASE works
  <2>1. /\ chats' \in [DOMAIN chats' -> Nat] /\ DOMAIN chats' = DOMAIN chats \cup {chat}
        /\ \A c \in DOMAIN chats' : chats'[c] = IF c = chat THEN words ELSE chats[c]
    <3>1. chats' = With(chats, chat, words)
      BY <1>1, <1>5
    <3>2. chats' \in [DOMAIN chats' -> Nat]
      BY <1>2, <3>1, WithTyped, Zenon
    <3>3. /\ DOMAIN chats' = DOMAIN chats \cup {chat}
          /\ \A c \in DOMAIN chats \cup {chat} : chats'[c] = IF c = chat THEN words ELSE chats[c]
      BY <3>1 DEF With
    <3> QED
      BY <3>2, <3>3
  <2>2. \A c \in DOMAIN chats : chats[c] <= chats'[c]
    BY <1>2, <2>1
  <2>3. \A c \in DOMAIN chats' : c \in DOMAIN inset' => chats'[c] <= inset'[c]
    BY <1>3, <1>4, <2>1
  <2> QED
    BY <1>1, <1>4, <1>5, <2>1, <2>2, <2>3
<1>6. CASE ~works
  <2>1. chats' = chats /\ missed \subseteq missed' /\ missed' \subseteq missed \cup {chat}
        /\ chat \in DOMAIN chats' \cup missed'
    BY <1>1, <1>6
  <2>2. \A c \in DOMAIN chats' : c \in DOMAIN inset' => chats'[c] <= inset'[c]
    BY <1>3, <1>4, <2>1
  <2>3. \A c \in DOMAIN chats : chats[c] <= chats'[c]
    BY <1>2, <2>1
  <2> QED
    BY <1>2, <1>4, <2>1, <2>2, <2>3
<1> QED
  BY <1>5, <1>6

\* A put of a chat, while they are brought in and afterwards.
LEMMA PersistStep ==
  ASSUME MoveInv, NEW chat \in OldChats, NEW words \in Nat, NEW works \in BOOLEAN, Persist(chat, words, works),
         chat \in DOMAIN chats => chats[chat] <= words,
         UNCHANGED <<version, records, legacy, at, always, shown, deleted, unread>>,
         at = "up" \/ (at = "importing" /\ todo' = todo \ {chat})
  PROVE  MoveInv'
<1>1. MoveTyped'
  BY PersistFacts DEF MoveInv, MoveTyped
<1>2. MoveRecords' /\ MoveShows'
  <2>1. \A d \in OldDocs : d \in missed' <=> d \in missed
    BY KindsApart DEF Persist
  <2> QED
    BY <2>1 DEF MoveInv, MoveTyped, MoveRecords, MoveShows
<1>3. MoveChats'
  <2>1. \A c \in OldChats : c \in DOMAIN chats \cup missed => c \in DOMAIN chats' \cup missed'
    BY PersistFacts
  <2>2. chat \in DOMAIN chats' \cup missed'
    BY DEF Persist, With
  <2> QED
    BY <2>1, <2>2 DEF MoveInv, MoveChats
<1>4. MoveSet'
  <2>1. \A c \in DOMAIN chats' : c \in DOMAIN inset' => chats'[c] <= inset'[c]
    BY PersistFacts, Zenon
  <2>2. /\ DOMAIN inset' = DOMAIN inset \cup {chat} /\ DOMAIN chats \subseteq DOMAIN chats'
        /\ DOMAIN chats' \subseteq DOMAIN chats \cup {chat}
    BY DEF Persist, With
  <2> QED
    BY <2>1, <2>2 DEF MoveInv, MoveSet
<1> QED
  BY <1>1, <1>2, <1>3, <1>4 DEF MoveInv

LEMMA ImportStep ==
  ASSUME MoveInv, NEW chat \in OldChats, NEW works \in BOOLEAN, Import(chat, works)
  PROVE  MoveInv'
<1>1. /\ UNCHANGED <<version, records, legacy, at, always, shown, deleted, unread>>
      /\ at = "importing" /\ chat \in todo /\ todo' = todo \ {chat}
  BY DEF Import
<1>2. CASE Have(chat)
  <2>1. UNCHANGED <<inset, chats, missed>> /\ chat \in DOMAIN chats
    BY <1>1, <1>2 DEF Import, Have, MoveInv, MoveSet
  <2> QED
    BY <1>1, <2>1 DEF MoveInv, MoveTyped, MoveRecords, MoveChats, MoveSet, MoveShows
<1>3. CASE ~Have(chat)
  <2>1. Persist(chat, 1, works) /\ chat \notin DOMAIN chats
    BY <1>1, <1>3 DEF Import, Have, MoveInv, MoveSet
  <2> QED
    BY <1>1, <2>1, PersistStep
<1> QED
  BY <1>2, <1>3

\* A word more is no fewer than what was saved.
LEMMA WriteFacts ==
  ASSUME MoveInv, NEW chat \in OldChats, NEW works \in BOOLEAN, Write(chat, works)
  PROVE  /\ Persist(chat, inset[chat] + 1, works) /\ inset[chat] + 1 \in Nat
         /\ chat \in DOMAIN chats => chats[chat] <= inset[chat] + 1
<1>1. Persist(chat, inset[chat] + 1, works) /\ chat \in DOMAIN inset
  BY DEF Write
<1>2. inset[chat] \in Nat /\ (chat \in DOMAIN chats => chats[chat] \in Nat /\ chats[chat] <= inset[chat])
  BY <1>1 DEF MoveInv, MoveTyped, MoveSet
<1> QED
  BY <1>1, <1>2

LEMMA WriteStep ==
  ASSUME MoveInv, NEW chat \in OldChats, NEW works \in BOOLEAN, Write(chat, works)
  PROVE  MoveInv'
<1>1. UNCHANGED <<version, records, legacy, at, always, shown, deleted, unread>> /\ at = "up"
  BY DEF Write
<1> DEFINE words == inset[chat] + 1
<1>2. Persist(chat, words, works) /\ words \in Nat /\ (chat \in DOMAIN chats => chats[chat] <= words)
  BY WriteFacts
<1> HIDE DEF words
<1> QED
  BY <1>1, <1>2, PersistStep

LEMMA DeleteStep ==
  ASSUME MoveInv, NEW chat \in OldChats, NEW works \in BOOLEAN, Delete(chat, works)
  PROVE  MoveInv'
<1>1. /\ UNCHANGED <<version, records, legacy, at, always, shown, unread, missed>>
      /\ at = "up" /\ deleted' = deleted \cup {chat}
      /\ inset' = [c \in DOMAIN inset \ {chat} |-> inset[c]]
      /\ chats' = chats \/ chats' = [c \in DOMAIN chats \ {chat} |-> chats[c]]
  BY DEF Delete
<1>2. chats \in [DOMAIN chats -> Nat] /\ inset \in [DOMAIN inset -> Nat]
  BY DEF MoveInv, MoveTyped
<1>3. /\ chats' \in [DOMAIN chats' -> Nat] /\ inset' \in [DOMAIN inset' -> Nat]
      /\ DOMAIN chats \ {chat} \subseteq DOMAIN chats' /\ DOMAIN chats' \subseteq DOMAIN chats
      /\ DOMAIN inset' = DOMAIN inset \ {chat}
      /\ \A c \in DOMAIN chats' : chats'[c] = chats[c]
      /\ \A c \in DOMAIN inset' : inset'[c] = inset[c]
  BY <1>1, <1>2
<1>4. MoveTyped' /\ MoveRecords' /\ MoveShows'
  BY <1>1, <1>3 DEF MoveInv, MoveTyped, MoveRecords, MoveShows
<1>5. MoveChats'
  BY <1>1, <1>3 DEF MoveInv, MoveChats
<1>6. MoveSet'
  BY <1>1, <1>3 DEF MoveInv, MoveSet
<1> QED
  BY <1>4, <1>5, <1>6 DEF MoveInv

LEMMA RenameStep ==
  ASSUME MoveInv, NEW works \in BOOLEAN, Rename(works)
  PROVE  MoveInv'
<1>1. /\ UNCHANGED <<version, records, chats, inset, always, shown, deleted, unread, missed>>
      /\ at = "renaming" /\ at' = "versioning" /\ legacy' \in {"renamed", legacy}
  BY DEF Rename
<1>2. MoveTyped' /\ MoveRecords' /\ MoveChats' /\ MoveSet' /\ MoveShows'
  BY <1>1 DEF MoveInv, MoveTyped, MoveRecords, MoveChats, MoveSet, MoveShows
<1> QED
  BY <1>2 DEF MoveInv

LEMMA SetVersionStep ==
  ASSUME MoveInv, NEW works \in BOOLEAN, SetVersion(works)
  PROVE  MoveInv'
<1>1. /\ UNCHANGED <<records, chats, legacy, inset, always, shown, deleted, unread, missed>>
      /\ at = "versioning" /\ at' = "up" /\ version' \in {SchemaVersion, version}
  BY DEF SetVersion
<1>2. MoveTyped' /\ MoveRecords' /\ MoveChats' /\ MoveSet' /\ MoveShows'
  BY <1>1 DEF MoveInv, MoveTyped, MoveRecords, MoveChats, MoveSet, MoveShows
<1> QED
  BY <1>2 DEF MoveInv

\* A harness that was there for its document finds one recorded for it.
LEMMA UseStep ==
  ASSUME MoveInv, NEW harness \in OldDocs, Use(harness)
  PROVE  MoveInv'
<1>1. /\ UNCHANGED <<version, records, chats, legacy, at, inset, todo, always, deleted, unread, missed>>
      /\ at = "up"
      /\ shown' = [shown EXCEPT ![harness] =
           IF {d \in DOMAIN records : records[d] = harness} = {} THEN "a_new_document" ELSE "its_own"]
  BY DEF Use
<1>2. /\ shown \in [OldDocs -> {"nothing_yet", "its_own", "a_new_document"}]
      /\ shown' \in [OldDocs -> {"nothing_yet", "its_own", "a_new_document"}]
  BY <1>1 DEF MoveInv, MoveTyped
<1>3. ASSUME NEW h \in always PROVE shown'[h] # "a_new_document"
  <2>1. CASE h = harness
    <3>1. h \in {d \in DOMAIN records : records[d] = harness}
      BY <1>1, <2>1 DEF MoveInv, MoveRecords, MoveShows
    <3> QED
      BY <1>1, <1>2, <2>1, <3>1
  <2>2. CASE h # harness
    BY <1>1, <1>2, <2>2 DEF MoveInv, MoveTyped, MoveShows
  <2> QED
    BY <2>1, <2>2
<1>4. MoveTyped' /\ MoveRecords' /\ MoveChats' /\ MoveSet'
  BY <1>1, <1>2 DEF MoveInv, MoveTyped, MoveRecords, MoveChats, MoveSet
<1>5. MoveShows'
  BY <1>1, <1>3 DEF MoveInv, MoveShows
<1> QED
  BY <1>4, <1>5 DEF MoveInv

LEMMA MoveInvNext == MoveInv /\ [MigrationNext]_migrationVars => MoveInv'
<1> SUFFICES ASSUME MoveInv, [MigrationNext]_migrationVars PROVE MoveInv'
  OBVIOUS
<1>1. CASE UNCHANGED migrationVars
  BY <1>1 DEF migrationVars, MoveInv, MoveTyped, MoveRecords, MoveChats, MoveSet, MoveShows
<1>2. ASSUME NEW there \in SUBSET OldDocs, Start(there) PROVE MoveInv'
  BY <1>2, PlaceStep DEF Start
<1>3. CASE Copied
  BY <1>3, PlaceStep DEF Copied
<1>4. CASE OpenFile
  <2>1. version >= SchemaVersion => version = SchemaVersion
    <3>1. version \in {1, SchemaVersion}
      BY Zenon DEF MoveInv, MoveTyped
    <3> QED
      BY <3>1 DEF SchemaVersion
  <2>2. /\ UNCHANGED <<version, records, chats, legacy, always, shown, deleted, unread, missed>>
        /\ inset' \in {inset, chats}
        /\ \/ at' = "down"
           \/ at' = "recording" /\ inset' = chats /\ todo' = OldDocs \ DOMAIN records
           \/ at' = "up" /\ version = SchemaVersion
    BY <1>4, <2>1 DEF OpenFile
  <2> QED
    BY <2>2, PlaceStep
<1>5. ASSUME NEW doc \in OldDocs, NEW works \in BOOLEAN, Record(doc, works) PROVE MoveInv'
  BY <1>5, RecordStep
<1>6. CASE Recorded
  BY <1>6, PlaceStep DEF Recorded
<1>7. ASSUME NEW works \in BOOLEAN, ReadLegacyFile(works) PROVE MoveInv'
  BY <1>7, ReadLegacyFileStep
<1>8. ASSUME NEW chat \in OldChats, NEW works \in BOOLEAN, Import(chat, works) PROVE MoveInv'
  BY <1>8, ImportStep
<1>9. CASE ImportDone
  BY <1>9, PlaceStep DEF ImportDone
<1>10. ASSUME NEW works \in BOOLEAN, Rename(works) PROVE MoveInv'
  BY <1>10, RenameStep
<1>11. ASSUME NEW works \in BOOLEAN, SetVersion(works) PROVE MoveInv'
  BY <1>11, SetVersionStep
<1>12. CASE Kill
  BY <1>12, PlaceStep DEF Kill
<1>13. ASSUME NEW harness \in OldDocs, Use(harness) PROVE MoveInv'
  BY <1>13, UseStep
<1>14. ASSUME NEW chat \in OldChats, NEW works \in BOOLEAN, Write(chat, works) PROVE MoveInv'
  BY <1>14, WriteStep
<1>15. ASSUME NEW chat \in OldChats, NEW works \in BOOLEAN, Delete(chat, works) PROVE MoveInv'
  BY <1>15, DeleteStep
<1> QED
  BY <1>1, <1>2, <1>3, <1>4, <1>5, <1>6, <1>7, <1>8, <1>9, <1>10, <1>11, <1>12, <1>13, <1>14,
     <1>15 DEF MigrationNext

LEMMA MoveInvWhole == MoveInv => MigratedIsWhole
BY DEF MoveInv, MoveRecords, MoveChats, MoveShows, MigratedIsWhole

\* Whatever a step does to the chats, those that stay lose no word.
LEMMA WordsStep == MoveInv /\ [MigrationNext]_migrationVars => WordsAreKept
<1> SUFFICES ASSUME MoveInv, [MigrationNext]_migrationVars,
                    NEW c \in DOMAIN chats, c \in DOMAIN chats'
             PROVE  chats'[c] >= chats[c]
  BY DEF WordsAreKept
<1>1. chats[c] \in Nat
  BY DEF MoveInv, MoveTyped
<1>2. CASE UNCHANGED chats
  BY <1>1, <1>2
<1>3. ASSUME NEW chat \in OldChats, NEW works \in BOOLEAN,
             Import(chat, works) \/ Write(chat, works) \/ Delete(chat, works)
      PROVE  chats'[c] >= chats[c]
  <2>1. ASSUME NEW words \in Nat, Persist(chat, words, works), chat \in DOMAIN chats => chats[chat] <= words
        PROVE  chats'[c] >= chats[c]
    <3>1. chats' \in [DOMAIN chats' -> Nat] /\ chats[c] <= chats'[c]
      BY <2>1, PersistFacts
    <3> QED
      BY <1>1, <3>1
  <2>2. CASE Import(chat, works) /\ ~Have(chat)
    <3>1. Persist(chat, 1, works) /\ chat \notin DOMAIN chats
      BY <2>2 DEF Import, Have, MoveInv, MoveSet
    <3> QED
      BY <2>1, <3>1
  <2>3. CASE Import(chat, works) /\ Have(chat)
    BY <1>2, <2>3 DEF Import
  <2>4. CASE Write(chat, works)
    <3> DEFINE words == inset[chat] + 1
    <3>1. Persist(chat, words, works) /\ words \in Nat /\ (chat \in DOMAIN chats => chats[chat] <= words)
      BY <2>4, WriteFacts
    <3> HIDE DEF words
    <3> QED
      BY <2>1, <3>1
  <2>5. CASE Delete(chat, works)
    BY <1>1, <2>5 DEF Delete
  <2> QED
    BY <1>3, <2>2, <2>3, <2>4, <2>5
<1>4. CASE \E chat \in OldChats, works \in BOOLEAN : Import(chat, works) \/ Write(chat, works) \/ Delete(chat, works)
  BY <1>3, <1>4
<1>5. CASE Copied \/ OpenFile \/ Recorded \/ ImportDone \/ Kill \/ UNCHANGED migrationVars
  BY <1>2, <1>5 DEF Copied, OpenFile, Recorded, ImportDone, Kill, migrationVars
<1>6. CASE \/ \E there \in SUBSET OldDocs : Start(there)
           \/ \E doc \in OldDocs : Use(doc) \/ \E works \in BOOLEAN : Record(doc, works)
           \/ \E works \in BOOLEAN : ReadLegacyFile(works) \/ Rename(works) \/ SetVersion(works)
  BY <1>2, <1>6 DEF Start, Record, Use, ReadLegacyFile, Rename, SetVersion
<1> QED
  BY <1>4, <1>5, <1>6, Zenon DEF MigrationNext

(* However often a start on an older folder is killed or a write of it fails, *)
(* what it had comes over whole but for what no put has worked for, and no    *)
(* chat in the database loses words, for every number of documents, chats and *)
(* starts (lib.rs migrate_if_needed, conversations.rs import and persist).    *)
THEOREM MigrationAlwaysKeeps == MigrationSpec => MigrationKeeps
<1>1. MoveInv /\ [MigrationNext]_migrationVars => MigratedIsWhole' /\ WordsAreKept
  <2>1. MoveInv' => MigratedIsWhole'
    BY DEF MoveInv, MoveRecords, MoveChats, MoveShows, MigratedIsWhole
  <2> QED
    BY <2>1, MoveInvNext, WordsStep
<1> QED
  BY <1>1, MoveInvInit, MoveInvNext, PTL DEF MigrationSpec, MigrationKeeps

-----------------------------------------------------------------------------
(* What is on offer.  A round of the budget loop takes whole harnesses of  *)
(* the lowest rank first and then the focused one's tools, and it takes    *)
(* something unless it is done: so after as many rounds as there are       *)
(* candidates it is, and the same holds of what is left at every one.      *)

LEMMA NumbersInduct ==
  ASSUME NEW S \in SUBSET Nat, 0 \in S, \A n \in S : n + 1 \in S
  PROVE  S = Nat
<1> SUFFICES ASSUME Nat \ S # {} PROVE FALSE
  OBVIOUS
<1>1. IsWellFoundedOn(OpToRel(<, Nat), Nat)
  BY NatLessThanWellFounded
<1>2. PICK n \in Nat \ S : \A m \in Nat \ S : ~(<<m, n>> \in OpToRel(<, Nat))
  BY <1>1, WFMin
<1>3. n # 0 /\ n - 1 \in Nat /\ n - 1 < n /\ (n - 1) + 1 = n
  <2>1. n \in Nat /\ n \notin S
    BY Zenon
  <2>2. n # 0
    BY <2>1, Zenon
  <2> QED BY <2>1, <2>2
<1>4. <<n - 1, n>> \in OpToRel(<, Nat)
  BY <1>3 DEF OpToRel
<1>5. n - 1 \in S
  BY <1>2, <1>3, <1>4
<1> QED BY <1>2, <1>3, <1>5

LEMMA ImageFinite ==
  ASSUME NEW S, IsFiniteSet(S), NEW f
  PROVE  IsFiniteSet({f[x] : x \in S})
<1> DEFINE T == {f[x] : x \in S}
           e == [x \in S |-> f[x]]
<1>1. e \in [S -> T] /\ \A t \in T : \E x \in S : e[x] = t
  OBVIOUS
<1>2. e \in Surjection(S, T)
  <2> HIDE DEF e, T
  <2> QED BY <1>1 DEF Surjection
<1> HIDE DEF e, T
<1>3. IsFiniteSet(T)
  BY <1>2, FS_Surjection
<1> QED BY <1>3 DEF T

\* A finite set has a last element of any total order on it.
TotalOn(U, R) ==
  /\ \A x \in U, y \in U : <<x, y>> \in R \/ <<y, x>> \in R
  /\ \A x \in U, y \in U, z \in U : (<<x, y>> \in R /\ <<y, z>> \in R) => <<x, z>> \in R
LastOf(T, R) == \E m \in T : \A y \in T : <<y, m>> \in R

LEMMA FiniteHasLast ==
  ASSUME NEW U, NEW R, TotalOn(U, R), NEW S \in SUBSET U, IsFiniteSet(S), S # {}
  PROVE  LastOf(S, R)
<1> DEFINE P == {n \in Nat : \A T \in SUBSET U : (IsFiniteSet(T) /\ T # {} /\ Cardinality(T) = n) => LastOf(T, R)}
<1>1. 0 \in P
  BY FS_EmptySet
<1>2. ASSUME NEW n \in P PROVE n + 1 \in P
  <2>1. SUFFICES ASSUME NEW T \in SUBSET U, IsFiniteSet(T), T # {}, Cardinality(T) = n + 1 PROVE LastOf(T, R)
    OBVIOUS
  <2>2. PICK x \in T : TRUE
    BY <2>1
  <2>3. IsFiniteSet(T \ {x}) /\ Cardinality(T \ {x}) = n
    <3>1. n \in Nat
      OBVIOUS
    <3>2. IsFiniteSet(T \ {x}) /\ Cardinality(T \ {x}) = Cardinality(T) - 1
      BY <2>1, <2>2, FS_RemoveElement
    <3> QED BY <2>1, <3>1, <3>2
  <2>4. <<x, x>> \in R /\ x \in U
    BY <2>2 DEF TotalOn
  <2>5. CASE T \ {x} = {}
    <3>1. T = {x}
      BY <2>2, <2>5
    <3> QED BY <2>4, <3>1 DEF LastOf
  <2>6. CASE T \ {x} # {}
    <3>1. LastOf(T \ {x}, R)
      <4>1. T \ {x} \in SUBSET U
        OBVIOUS
      <4> QED BY <2>3, <2>6, <4>1
    <3>2. PICK m \in T \ {x} : \A y \in T \ {x} : <<y, m>> \in R
      BY <3>1 DEF LastOf
    <3>3. m \in U /\ m \in T
      BY <3>2
    <3>4. CASE <<x, m>> \in R
      <4>1. \A y \in T : <<y, m>> \in R
        BY <3>2, <3>4
      <4> QED BY <3>3, <4>1 DEF LastOf
    <3>5. CASE <<m, x>> \in R
      <4>1. ASSUME NEW y \in T PROVE <<y, x>> \in R
        <5>1. y \in U
          OBVIOUS
        <5>2. CASE y = x
          BY <2>4, <5>2
        <5>3. CASE y # x
          BY <2>4, <3>2, <3>3, <3>5, <5>1, <5>3 DEF TotalOn
        <5> QED BY <5>2, <5>3
      <4> QED BY <2>2, <4>1 DEF LastOf
    <3> QED BY <2>4, <3>3, <3>4, <3>5 DEF TotalOn
  <2> QED BY <2>5, <2>6
<1>3. P \in SUBSET Nat
  OBVIOUS
<1> HIDE DEF P
<1>4. P = Nat
  BY <1>1, <1>2, <1>3, NumbersInduct
<1>5. Cardinality(S) \in P
  BY <1>4, FS_CardinalityType
<1> QED BY <1>5 DEF P

\* A step repeated from a place in a set, as far as n, ...
Repeats(g, S, c, f, n) ==
  g \in [0..n -> S] /\ g[0] = c /\ \A k \in 1..n : g[k] = f[g[k - 1]]

LEMMA RepeatsExist ==
  ASSUME NEW S, NEW c \in S, NEW f \in [S -> S]
  PROVE  \A n \in Nat : \E g : Repeats(g, S, c, f, n)
<1> DEFINE P == {n \in Nat : \E g : Repeats(g, S, c, f, n)}
<1>1. 0 \in P
  <2>1. Repeats([k \in 0..0 |-> c], S, c, f, 0)
    BY DEF Repeats
  <2> QED BY <2>1
<1>2. ASSUME NEW n \in P PROVE n + 1 \in P
  <2>1. PICK g : Repeats(g, S, c, f, n)
    OBVIOUS
  <2>2. PICK h : h = [k \in 0..(n + 1) |-> IF k = n + 1 THEN f[g[n]] ELSE g[k]]
    OBVIOUS
  <2>3. n \in Nat /\ g[n] \in S /\ f[g[n]] \in S
    BY <2>1 DEF Repeats
  <2>4. h \in [0..(n + 1) -> S] /\ h[0] = c
    BY <2>1, <2>2, <2>3 DEF Repeats
  <2>5. ASSUME NEW k \in 1..(n + 1) PROVE h[k] = f[h[k - 1]]
    <3>1. CASE k = n + 1
      BY <2>2, <2>3, <3>1
    <3>2. CASE k # n + 1
      BY <2>1, <2>2, <2>3, <3>2 DEF Repeats
    <3> QED BY <3>1, <3>2
  <2>6. Repeats(h, S, c, f, n + 1)
    BY <2>4, <2>5 DEF Repeats
  <2> QED BY <2>3, <2>6
<1>3. P \in SUBSET Nat
  OBVIOUS
<1> HIDE DEF P
<1>4. P = Nat
  BY <1>1, <1>2, <1>3, NumbersInduct
<1> QED BY <1>4 DEF P

\* ... comes to the same places as far as further.
LEMMA RepeatsAgree ==
  ASSUME NEW S, NEW c \in S, NEW f \in [S -> S], NEW m \in Nat, NEW n \in Nat, m <= n,
         NEW d, NEW e, Repeats(d, S, c, f, m), Repeats(e, S, c, f, n)
  PROVE  \A k \in 0..m : d[k] = e[k]
<1> DEFINE P == {k \in Nat : k <= m => d[k] = e[k]}
<1>1. 0 \in P
  BY DEF Repeats
<1>2. ASSUME NEW k \in P PROVE k + 1 \in P
  <2>1. CASE k + 1 <= m
    <3>1. k \in Nat /\ k + 1 \in 1..m /\ k + 1 \in 1..n /\ (k + 1) - 1 = k /\ k <= m
      BY <2>1
    <3>2. d[k + 1] = f[d[k]] /\ e[k + 1] = f[e[k]]
      BY <3>1 DEF Repeats
    <3> QED BY <3>1, <3>2
  <2>2. CASE ~(k + 1 <= m)
    BY <2>2
  <2> QED BY <2>1, <2>2
<1>3. P \in SUBSET Nat
  OBVIOUS
<1> HIDE DEF P
<1>4. P = Nat
  BY <1>1, <1>2, <1>3, NumbersInduct
<1> QED BY <1>4 DEF P

LEMMA RepeatsForever ==
  ASSUME NEW S, NEW c \in S, NEW f \in [S -> S]
  PROVE  \E g \in [Nat -> S] : g[0] = c /\ \A n \in Nat : g[n + 1] = f[g[n]]
<1> DEFINE Part(n) == CHOOSE g : Repeats(g, S, c, f, n)
           F == [k \in Nat |-> Part(k)[k]]
<1>1. \A n \in Nat : Repeats(Part(n), S, c, f, n)
  BY RepeatsExist
<1> HIDE DEF Part
<1>2. F \in [Nat -> S] /\ F[0] = c
  BY <1>1 DEF Repeats
<1>3. ASSUME NEW k \in Nat PROVE F[k + 1] = f[F[k]]
  <2>1. Repeats(Part(k), S, c, f, k) /\ Repeats(Part(k + 1), S, c, f, k + 1)
    BY <1>1
  <2>2. Part(k)[k] = Part(k + 1)[k]
    BY <2>1, RepeatsAgree
  <2>3. Part(k + 1)[k + 1] = f[Part(k + 1)[k]]
    BY <2>1 DEF Repeats
  <2> QED BY <2>2, <2>3
<1> HIDE DEF F
<1> QED BY <1>2, <1>3

\* What a candidate is: its rank is its harness's, 0 for Core's own tools.
Offerable(x) ==
  /\ x.rank \in 0..3 /\ x.tool.cost \in Nat /\ x.line \in Nat /\ x.at \in Nat
  /\ x.tool.kind \in {"read", "write", "compute"} /\ x.tool.front \in BOOLEAN
  /\ \/ x.harness = "core" /\ x.rank = 0
     \/ /\ x.harness \in Ids /\ x.rank = RankOf(x.harness) /\ x.rank > 0
        /\ ShowsTool(x.harness, x.tool.kind)

LEMMA DeclFacts ==
  ASSUME NEW t \in Seq(Decls), NEW i \in DOMAIN t
  PROVE  /\ i \in Nat /\ DOMAIN t = 1..Len(t) /\ Len(t) \in Nat
         /\ t[i].cost \in Nat /\ t[i].front \in BOOLEAN
         /\ t[i].kind \in {"read", "write", "compute"}
<1>1. DOMAIN t = 1..Len(t) /\ Len(t) \in Nat
  BY LenProperties
<1>2. i \in 1..Len(t)
  BY <1>1
<1>3. t[i] \in Decls
  BY <1>2, ElementOfSeq
<1> QED BY <1>1, <1>2, <1>3 DEF Decls

LEMMA OrderFacts ==
  /\ DOMAIN Order = 1..Len(Order) /\ Len(Order) \in Nat
  /\ \A k \in DOMAIN Order : k \in Nat /\ Order[k] \in Ids /\ Tools(Order[k]) \in Seq(Decls)
  /\ "core" \notin Ids /\ CoreTools \in Seq(Decls)
<1>1. Order \in Seq(DOMAIN Packages) /\ "core" \notin DOMAIN Packages /\ Builtins \in Seq(Decls)
  BY PackagesAreSound
<1>2. DOMAIN Order = 1..Len(Order) /\ Len(Order) \in Nat
  BY <1>1, LenProperties
<1>3. \A k \in DOMAIN Order : Order[k] \in DOMAIN Packages
  BY <1>1, <1>2, ElementOfSeq
<1>4. Ids = {Order[k] : k \in DOMAIN Order}
  BY DEF Ids, ToSet
<1>5. \A k \in DOMAIN Order : k \in Nat /\ Order[k] \in Ids /\ Tools(Order[k]) \in Seq(Decls)
  BY <1>2, <1>3, <1>4, PackagesAreSound DEF Tools
<1>6. "core" \notin Ids
  BY <1>1, <1>3, <1>4
<1>7. CoreTools \in Seq(Decls)
  BY <1>1, EmptySeq DEF CoreTools
<1> QED BY <1>2, <1>5, <1>6, <1>7

LEMMA CandidateFacts ==
  ASSUME NEW x \in Candidates
  PROVE  Offerable(x)
<1> DEFINE OwnTools == {i \in DOMAIN CoreTools : ~ me.viewer \/ CoreTools[i].kind = "read"}
<1>1. CASE \E i \in OwnTools : x = CoreCandidate(i)
  <2>1. PICK i \in DOMAIN CoreTools : x = CoreCandidate(i)
    BY <1>1
  <2>2. CoreTools \in Seq(Decls)
    BY OrderFacts
  <2>3. /\ i \in Nat /\ CoreTools[i].cost \in Nat /\ CoreTools[i].front \in BOOLEAN
        /\ CoreTools[i].kind \in {"read", "write", "compute"}
    BY <2>1, <2>2, DeclFacts
  <2>4. /\ x.rank = 0 /\ x.harness = "core" /\ x.line = 0 /\ x.at = i /\ x.tool = CoreTools[i]
    BY <2>1 DEF CoreCandidate
  <2> QED BY <2>3, <2>4 DEF Offerable
<1>2. CASE \E s \in Slots : /\ x = Candidate(s[1], s[2]) /\ x.rank > 0 /\ ShowsTool(x.harness, x.tool.kind)
  <2>1. PICK s \in Slots : /\ x = Candidate(s[1], s[2]) /\ x.rank > 0 /\ ShowsTool(x.harness, x.tool.kind)
    BY <1>2
  <2>2. PICK k \in DOMAIN Order : \E i \in DOMAIN Tools(Order[k]) : s = <<k, i>>
    BY <2>1 DEF Slots
  <2>3. PICK i \in DOMAIN Tools(Order[k]) : s = <<k, i>>
    BY <2>2
  <2>4. x = Candidate(k, i)
    BY <2>1, <2>3
  <2>5. PICK t : t = Tools(Order[k])
    OBVIOUS
  <2>6. k \in Nat /\ Order[k] \in Ids /\ t \in Seq(Decls) /\ i \in DOMAIN t
    BY <2>2, <2>3, <2>5, OrderFacts
  <2>7. /\ i \in Nat /\ t[i].cost \in Nat /\ t[i].front \in BOOLEAN
        /\ t[i].kind \in {"read", "write", "compute"}
    BY <2>6, DeclFacts
  <2>8. x.rank = RankOf(Order[k]) /\ x.harness = Order[k] /\ x.line = k /\ x.at = i /\ x.tool = t[i]
    BY <2>4, <2>5 DEF Candidate
  <2>9. RankOf(Order[k]) \in 0..3
    BY DEF RankOf
  <2> QED BY <2>1, <2>6, <2>7, <2>8, <2>9 DEF Offerable
<1>3. x \in {CoreCandidate(i) : i \in OwnTools} \/ x \in {c \in {Candidate(s[1], s[2]) : s \in Slots} :
            /\ c.rank > 0 /\ (c.rank = 1 \/ c.tool.front) /\ ShowsTool(c.harness, c.tool.kind)}
  BY Zenon DEF Candidates
<1> HIDE DEF OwnTools
<1> QED BY <1>1, <1>2, <1>3

LEMMA CandidatesFinite == IsFiniteSet(Candidates)
<1> DEFINE C == {i \in DOMAIN CoreTools : ~ me.viewer \/ CoreTools[i].kind = "read"}
           f == [i \in DOMAIN CoreTools |-> CoreCandidate(i)]
           F == [k \in DOMAIN Order |-> {<<k, i>> : i \in DOMAIN Tools(Order[k])}]
           e == [s \in Slots |-> Candidate(s[1], s[2])]
<1>1. \A t \in Seq(Decls) : IsFiniteSet(DOMAIN t)
  <2>1. ASSUME NEW t \in Seq(Decls) PROVE IsFiniteSet(DOMAIN t)
    <3>1. DOMAIN t = 1..Len(t) /\ Len(t) \in Nat
      BY LenProperties
    <3> QED BY <3>1, FS_Interval
  <2> QED BY <2>1
<1>2. IsFiniteSet({f[i] : i \in C})
  <2>1. IsFiniteSet(DOMAIN CoreTools)
    BY <1>1, OrderFacts
  <2>2. C \in SUBSET DOMAIN CoreTools
    OBVIOUS
  <2> HIDE DEF C, f
  <2>3. IsFiniteSet(C)
    BY <2>1, <2>2, FS_Subset
  <2> QED BY <2>3, ImageFinite
<1>3. {f[i] : i \in C} = {CoreCandidate(i) : i \in C}
  OBVIOUS
<1>4. ASSUME NEW k \in DOMAIN Order PROVE IsFiniteSet(F[k])
  <2>1. PICK D : D = DOMAIN Tools(Order[k])
    OBVIOUS
  <2>2. IsFiniteSet(D)
    BY <1>1, <2>1, OrderFacts
  <2>3. PICK p : p = [i \in D |-> <<k, i>>]
    OBVIOUS
  <2>4. IsFiniteSet({p[i] : i \in D})
    BY <2>2, ImageFinite
  <2>5. {p[i] : i \in D} = {<<k, i>> : i \in D}
    BY <2>3
  <2> QED BY <2>1, <2>4, <2>5
<1>5. IsFiniteSet(Slots)
  <2>1. IsFiniteSet(DOMAIN Order)
    <3>1. Len(Order) \in Nat /\ DOMAIN Order = 1..Len(Order)
      BY OrderFacts
    <3> QED BY <3>1, FS_Interval
  <2>2. Slots = UNION {F[k] : k \in DOMAIN Order}
    BY DEF Slots
  <2> HIDE DEF F
  <2>3. IsFiniteSet({F[k] : k \in DOMAIN Order})
    BY <2>1, ImageFinite
  <2>4. \A T \in {F[k] : k \in DOMAIN Order} : IsFiniteSet(T)
    BY <1>4
  <2> QED BY <2>2, <2>3, <2>4, FS_UNION
<1>6. IsFiniteSet({e[s] : s \in Slots})
  <2> HIDE DEF e
  <2> QED BY <1>5, ImageFinite
<1>7. {e[s] : s \in Slots} = {Candidate(s[1], s[2]) : s \in Slots}
  OBVIOUS
<1>8. Candidates \in SUBSET ({f[i] : i \in C} \cup {e[s] : s \in Slots})
  <2>1. Candidates \in SUBSET ({CoreCandidate(i) : i \in C} \cup {Candidate(s[1], s[2]) : s \in Slots})
    BY Zenon DEF Candidates
  <2> QED BY <1>3, <1>7, <2>1
<1> HIDE DEF f, e, C
<1>9. IsFiniteSet({f[i] : i \in C} \cup {e[s] : s \in Slots})
  BY <1>2, <1>6, FS_Union
<1> QED BY <1>8, <1>9, FS_Subset

LEMMA SameHarnessSameRank ==
  ASSUME NEW x \in Candidates, NEW y \in Candidates, x.harness = y.harness
  PROVE  x.rank = y.rank
BY CandidateFacts, OrderFacts DEF Offerable

LEMMA MostFacts ==
  ASSUME NEW c \in SUBSET Candidates, c # {}
  PROVE  Most(c) \in c /\ \A y \in c : y.rank <= Most(c).rank
<1> DEFINE R == {p \in Candidates \X Candidates : NotAbove(p[1], p[2])}
<1>1. \A x \in Candidates, y \in Candidates : <<x, y>> \in R <=> NotAbove(x, y)
  OBVIOUS
<1>2. \A x \in Candidates : x.rank \in Int /\ x.tool.cost \in Int /\ x.line \in Int /\ x.at \in Int
  BY CandidateFacts DEF Offerable
<1>3. \A x \in Candidates, y \in Candidates : NotAbove(x, y) \/ NotAbove(y, x)
  BY <1>2 DEF NotAbove
<1>4. \A x \in Candidates, y \in Candidates, z \in Candidates :
        (NotAbove(x, y) /\ NotAbove(y, z)) => NotAbove(x, z)
  BY <1>2 DEF NotAbove
<1> HIDE DEF R
<1>5. TotalOn(Candidates, R)
  BY <1>1, <1>3, <1>4 DEF TotalOn
<1>6. IsFiniteSet(c)
  BY CandidatesFinite, FS_Subset
<1>7. \E x \in c : \A y \in c : NotAbove(y, x)
  <2>1. LastOf(c, R)
    BY <1>5, <1>6, FiniteHasLast
  <2> QED BY <1>1, <2>1 DEF LastOf
<1>8. Most(c) \in c /\ \A y \in c : NotAbove(y, Most(c))
  BY <1>7 DEF Most
<1>9. ASSUME NEW y \in c PROVE y.rank <= Most(c).rank
  <2>1. PICK m \in Candidates : m = Most(c)
    BY <1>8
  <2>2. NotAbove(y, m) /\ y.rank \in Int /\ m.rank \in Int
    BY <1>2, <1>8, <2>1
  <2>3. y.rank <= m.rank
    BY <2>2 DEF NotAbove
  <2> QED BY <2>1, <2>3
<1> QED BY <1>8, <1>9

\* What holds of what is left after any number of rounds.
FairlyCut(c) ==
  \A x \in c, y \in Candidates \ c :
    /\ x.rank <= y.rank
    /\ x.harness = y.harness => x.rank = 1
    /\ (x.rank = 1 /\ ~ x.tool.front) => ~ (y.rank = 1 /\ y.tool.front)
Fits(c) == Total(c) <= ToolBudget
DoneWith(c) == Fits(c) \/ \A x \in c : x.rank = 0

LEMMA ShrunkFairly ==
  ASSUME NEW c \in SUBSET Candidates, FairlyCut(c)
  PROVE  /\ Shrunk(c) \in SUBSET c /\ FairlyCut(Shrunk(c))
         /\ DoneWith(c) => Shrunk(c) = c
         /\ ~ DoneWith(c) => Shrunk(c) # c
<1>1. \A x \in Candidates : x.rank \in 0..3
  BY CandidateFacts DEF Offerable
<1>2. Low(c) \in SUBSET c /\ Own(c) \in SUBSET c /\ Trim(c) \in SUBSET Own(c)
  BY DEF Low, Own, Trim, BehindDoor
<1>3. CASE Fits(c)
  BY <1>3 DEF Shrunk, Fits, DoneWith
<1>4. CASE ~ Fits(c) /\ Low(c) # {}
  <2>1. PICK m : m = Most(Low(c))
    OBVIOUS
  <2>2. m \in Low(c) /\ \A y \in Low(c) : y.rank <= m.rank
    BY <1>2, <1>4, <2>1, MostFacts
  <2>3. m \in c /\ m.rank >= 2 /\ m.rank \in 0..3
    BY <1>1, <1>2, <2>2 DEF Low
  <2>4. PICK d : d = {x \in c : x.harness # m.harness}
    OBVIOUS
  <2>5. Shrunk(c) = d /\ d \in SUBSET c /\ d # c
    BY <1>4, <2>1, <2>3, <2>4 DEF Shrunk, Fits
  <2>6. ~ DoneWith(c)
    BY <1>4, <2>3 DEF DoneWith
  <2>7. ASSUME NEW x \in d, NEW y \in Candidates \ d
        PROVE  /\ x.rank <= y.rank
               /\ x.harness = y.harness => x.rank = 1
               /\ (x.rank = 1 /\ ~ x.tool.front) => ~ (y.rank = 1 /\ y.tool.front)
    <3>1. CASE y \notin c
      BY <2>5, <3>1 DEF FairlyCut
    <3>2. CASE y \in c
      <4>1. y.harness = m.harness /\ x.harness # m.harness
        BY <2>4, <3>2
      <4>2. y.rank = m.rank
        BY <2>3, <4>1, SameHarnessSameRank
      <4>3. x.rank <= m.rank
        <5>1. x.rank \in 0..3 /\ x \in c
          BY <1>1, <2>5
        <5> QED BY <2>2, <2>3, <5>1 DEF Low
      <4> QED BY <2>3, <4>1, <4>2, <4>3
    <3> QED BY <3>1, <3>2
  <2> QED BY <2>5, <2>6, <2>7 DEF FairlyCut
<1>5. CASE ~ Fits(c) /\ Low(c) = {} /\ Own(c) # {}
  <2>1. PICK m : m = Most(Trim(c))
    OBVIOUS
  <2>2. Trim(c) # {}
    BY <1>5 DEF Trim
  <2>3. m \in Trim(c)
    BY <1>2, <2>1, <2>2, MostFacts
  <2>4. m \in c /\ m.rank = 1
    BY <1>2, <2>3 DEF Own
  <2>5. PICK d : d = c \ {m}
    OBVIOUS
  <2>6. Shrunk(c) = d /\ d \in SUBSET c /\ d # c
    BY <1>5, <2>1, <2>4, <2>5 DEF Shrunk, Fits
  <2>7. ~ DoneWith(c)
    BY <1>5, <2>4 DEF DoneWith
  <2>8. ASSUME NEW x \in d, NEW y \in Candidates \ d
        PROVE  /\ x.rank <= y.rank
               /\ x.harness = y.harness => x.rank = 1
               /\ (x.rank = 1 /\ ~ x.tool.front) => ~ (y.rank = 1 /\ y.tool.front)
    <3>1. CASE y \notin c
      BY <2>6, <3>1 DEF FairlyCut
    <3>2. CASE y \in c
      <4>1. y = m /\ x \in c
        BY <2>5, <3>2
      <4>2. x.rank \in 0..3 /\ ~ (x.rank >= 2)
        BY <1>1, <1>5, <4>1 DEF Low
      <4>3. x.harness = y.harness => x.rank = 1
        BY <2>4, <4>1, SameHarnessSameRank
      <4>4. (x.rank = 1 /\ ~ x.tool.front) => ~ m.tool.front
        BY <2>3, <4>1 DEF Trim, BehindDoor
      <4> QED BY <2>4, <4>1, <4>2, <4>3, <4>4
    <3> QED BY <3>1, <3>2
  <2> QED BY <2>6, <2>7, <2>8 DEF FairlyCut
<1>6. CASE ~ Fits(c) /\ Low(c) = {} /\ Own(c) = {}
  <2>1. \A x \in c : x.rank = 0
    <3>1. ASSUME NEW x \in c PROVE x.rank = 0
      <4>1. x.rank \in 0..3 /\ ~ (x.rank >= 2) /\ x.rank # 1
        BY <1>1, <1>6 DEF Low, Own
      <4> QED BY <4>1
    <3> QED BY <3>1
  <2>2. Shrunk(c) = c
    BY <1>6 DEF Shrunk, Fits
  <2> QED BY <2>1, <2>2 DEF DoneWith
<1> QED BY <1>3, <1>4, <1>5, <1>6

\* The recursive definition of the rounds defines what it says.
LEMMA RoundsFacts ==
  Rounds[0] = Candidates /\ \A n \in Nat : Rounds[n + 1] = Shrunk(Rounds[n])
<1> DEFINE S == SUBSET Candidates
           f == [c \in S |-> Shrunk(c)]
           After(g, n) == IF n = 0 THEN Candidates ELSE Shrunk(g[n - 1])
<1>1. ASSUME NEW c \in S PROVE Shrunk(c) \in S
  BY DEF Shrunk
<1>2. f \in [S -> S] /\ Candidates \in S /\ \A c \in S : f[c] = Shrunk(c)
  BY <1>1
<1> HIDE DEF f, S
<1>3. PICK g \in [Nat -> S] : g[0] = Candidates /\ \A n \in Nat : g[n + 1] = f[g[n]]
  <2>1. PICK S0, c0, f0 : S0 = S /\ c0 = Candidates /\ f0 = f
    OBVIOUS
  <2>2. c0 \in S0 /\ f0 \in [S0 -> S0]
    BY <1>2, <2>1
  <2>3. \E g \in [Nat -> S0] : g[0] = c0 /\ \A n \in Nat : g[n + 1] = f0[g[n]]
    BY <2>2, RepeatsForever
  <2> QED BY <2>1, <2>3
<1>4. g = [n \in Nat |-> After(g, n)]
  <2>1. ASSUME NEW n \in Nat PROVE g[n] = After(g, n)
    <3>1. CASE n = 0
      BY <1>3, <3>1
    <3>2. CASE n # 0
      <4>1. n - 1 \in Nat /\ (n - 1) + 1 = n
        BY <3>2
      <4>2. g[n] = f[g[n - 1]] /\ g[n - 1] \in S
        BY <1>3, <4>1
      <4> QED BY <1>2, <3>2, <4>2
    <3> QED BY <3>1, <3>2
  <2> QED BY <1>3, <2>1
<1>5. Rounds = [n \in Nat |-> After(Rounds, n)]
  <2>1. Rounds = CHOOSE h : h = [n \in Nat |-> After(h, n)]
    BY DEF Rounds
  <2> HIDE DEF After
  <2> QED BY <1>4, <2>1
<1>6. Rounds[0] = Candidates
  <2>1. Rounds[0] = After(Rounds, 0)
    <3> HIDE DEF After
    <3> QED BY <1>5
  <2> QED BY <2>1
<1>7. ASSUME NEW n \in Nat PROVE Rounds[n + 1] = Shrunk(Rounds[n])
  <2>1. Rounds[n + 1] = After(Rounds, n + 1)
    <3> HIDE DEF After
    <3> QED BY <1>5
  <2>2. n + 1 # 0 /\ (n + 1) - 1 = n
    OBVIOUS
  <2> QED BY <2>1, <2>2
<1> QED BY <1>6, <1>7

LEMMA RoundsAreFair ==
  ASSUME NEW n \in Nat
  PROVE  /\ Rounds[n] \in SUBSET Candidates /\ FairlyCut(Rounds[n])
         /\ DoneWith(Rounds[n]) \/ Cardinality(Rounds[n]) <= Cardinality(Candidates) - n
<1> DEFINE Good(k) == /\ Rounds[k] \in SUBSET Candidates /\ FairlyCut(Rounds[k])
                      /\ DoneWith(Rounds[k]) \/ Cardinality(Rounds[k]) <= Cardinality(Candidates) - k
           P == {k \in Nat : Good(k)}
<1>1. IsFiniteSet(Candidates) /\ Cardinality(Candidates) \in Nat
  BY CandidatesFinite, FS_CardinalityType
<1>2. 0 \in P
  <2>1. Rounds[0] = Candidates
    BY RoundsFacts
  <2>2. FairlyCut(Candidates)
    BY DEF FairlyCut
  <2> QED BY <1>1, <2>1, <2>2
<1>3. ASSUME NEW k \in P PROVE k + 1 \in P
  <2>1. PICK c, d : c = Rounds[k] /\ d = Rounds[k + 1]
    OBVIOUS
  <2>2. k \in Nat /\ c \in SUBSET Candidates /\ FairlyCut(c)
    BY <2>1
  <2>3. DoneWith(c) \/ Cardinality(c) <= Cardinality(Candidates) - k
    BY <2>1
  <2>4. d = Shrunk(c)
    BY <2>1, <2>2, RoundsFacts
  <2>5. d \in SUBSET c /\ FairlyCut(d) /\ (DoneWith(c) => d = c) /\ (~ DoneWith(c) => d # c)
    BY <2>2, <2>4, ShrunkFairly
  <2>6. DoneWith(d) \/ Cardinality(d) <= Cardinality(Candidates) - (k + 1)
    <3>1. CASE DoneWith(c)
      BY <2>5, <3>1
    <3>2. CASE ~ DoneWith(c)
      <4>1. IsFiniteSet(c)
        BY <1>1, <2>2, FS_Subset
      <4>2. Cardinality(d) <= Cardinality(c) /\ Cardinality(c) # Cardinality(d) /\ IsFiniteSet(d)
        BY <2>5, <3>2, <4>1, FS_Subset
      <4>3. Cardinality(c) \in Nat /\ Cardinality(d) \in Nat
        BY <4>1, <4>2, FS_CardinalityType
      <4> QED BY <1>1, <2>2, <2>3, <3>2, <4>2, <4>3
    <3> QED BY <3>1, <3>2
  <2> QED BY <2>1, <2>2, <2>5, <2>6
<1>4. P \in SUBSET Nat
  OBVIOUS
<1> HIDE DEF P
<1>5. P = Nat
  BY <1>2, <1>3, <1>4, NumbersInduct
<1>6. n \in P
  BY <1>5
<1> QED BY <1>6 DEF P

\* So what is on offer is honest in every state, reachable or not: it is a
\* fact about the loop.
LEMMA OffersHonest == OffersAreHonest
<1>1. PICK N : N = Cardinality(Candidates)
  OBVIOUS
<1>2. IsFiniteSet(Candidates) /\ N \in Nat
  BY <1>1, CandidatesFinite, FS_CardinalityType
<1>3. PICK c : c = ActiveSet
  OBVIOUS
<1>4. c = Rounds[N]
  BY <1>1, <1>3 DEF ActiveSet
<1>5. /\ c \in SUBSET Candidates /\ FairlyCut(c)
      /\ DoneWith(c) \/ Cardinality(c) <= N - N
  BY <1>1, <1>2, <1>4, RoundsAreFair
<1>6. DoneWith(c)
  <2>1. CASE Cardinality(c) <= N - N
    <3>1. IsFiniteSet(c)
      BY <1>2, <1>5, FS_Subset
    <3>2. Cardinality(c) \in Nat
      BY <3>1, FS_CardinalityType
    <3>3. Cardinality(c) = 0
      BY <1>2, <2>1, <3>2
    <3>4. c = {}
      BY <3>1, <3>3, FS_EmptySet
    <3> QED BY <3>4 DEF DoneWith
  <2> QED BY <1>5, <2>1
<1>7. ASSUME NEW x \in c, x.rank > 0 PROVE ~ Refuses(x.harness, x.tool) \/ x.harness \notin me.views
  <2>1. Offerable(x)
    BY <1>5, CandidateFacts
  <2>2. x.harness \in Ids /\ x.rank = RankOf(x.harness) /\ ShowsTool(x.harness, x.tool.kind)
    BY <1>7, <2>1 DEF Offerable
  <2>3. x.harness \in on
    BY <1>7, <2>2 DEF RankOf
  <2> QED BY <2>2, <2>3 DEF Refuses, MayCall, ShowsTool, MayEdit
<1> QED BY <1>3, <1>5, <1>6, <1>7 DEF OffersAreHonest, DoneWith, Fits, FairlyCut

-----------------------------------------------------------------------------
(* Harnesses.  An instance holds an artifact only within a call, and puts  *)
(* what it put only where the call that ran it looks.                      *)

Fields == {"is", "out", "over", "artifacts", "vouched"}
Instance(i, handed) == i = [f \in Fields |-> i[f]] /\ i.artifacts = handed
Resting(i) == i = NoInstance \/ Instance(i, {})

InstancesRest == inst = [h \in Ids |-> inst[h]] /\ \A h \in Ids : Resting(inst[h])
DocsOwned == docs = [h \in Ids |-> docs[h]] /\ \A h \in Ids : docs[h].by \in {"call", "event"}
ReadsOwned == \A r \in artifactRead : r.run = "call"
Scoped == InstancesRest /\ DocsOwned /\ ReadsOwned

LEMMA StartedFacts ==
  ASSUME InstancesRest, NEW h \in Ids, NEW vouched
  PROVE  Instance(Started(h, vouched), {})
<1>1. Instance(Fresh(vouched), {})
  BY DEF Instance, Fresh, Fields
<1> QED BY <1>1 DEF InstancesRest, Resting, Started

LEMMA RanFacts ==
  ASSUME NEW i, NEW handed, Instance(i, handed), NEW g, NEW by
  PROVE  /\ Instance(Ran(i, g, by), handed)
         /\ Ran(i, g, by).out = IF g.put THEN by ELSE Without
<1>1. PICK b : b = BeginCall(i)
  OBVIOUS
<1>2. Instance(b, handed) /\ b.out = Without
  BY <1>1 DEF BeginCall, Instance, Fields
<1>3. PICK out, over : out = (IF g.put THEN by ELSE b.out) /\ over = (b.over \/ g.over)
  OBVIOUS
<1>4. Ran(i, g, by) = [b EXCEPT !.out = out, !.over = over]
  BY <1>1, <1>3 DEF Ran
<1>5. PICK r : r = [b EXCEPT !.out = out, !.over = over]
  OBVIOUS
<1>6. Instance(r, handed) /\ r.out = out
  BY <1>2, <1>5 DEF Instance, Fields
<1> QED BY <1>2, <1>3, <1>4, <1>5, <1>6

LEMMA FinishedFacts ==
  ASSUME NEW i, NEW handed, Instance(i, handed), NEW g
  PROVE  Instance(Finished(i, g), handed)
<1>1. PICK r : r = [i EXCEPT !.out = Without]
  OBVIOUS
<1>2. Instance(r, handed)
  BY <1>1 DEF Instance, Fields
<1> QED BY <1>1, <1>2 DEF Finished

LEMMA HandedFacts ==
  ASSUME NEW i, NEW old, Instance(i, old), NEW handed
  PROVE  Instance([i EXCEPT !.artifacts = handed], handed)
<1>1. PICK r : r = [i EXCEPT !.artifacts = handed]
  OBVIOUS
<1>2. Instance(r, handed)
  BY <1>1 DEF Instance, Fields
<1> QED BY <1>1, <1>2

LEMMA NothingRead ==
  ASSUME NEW i, Instance(i, {}), NEW g, NEW by
  PROVE  ReadArtifact(i, g, by) = {}
BY DEF ReadArtifact, Instance

\* An instance that rests in its place, and a document put by a call or an event.
LEMMA InstancePlaced ==
  ASSUME InstancesRest, NEW h, NEW i, Resting(i), inst' = [inst EXCEPT ![h] = i]
  PROVE  InstancesRest'
<1>1. DOMAIN inst = Ids
  BY DEF InstancesRest
<1>2. inst' = [k \in Ids |-> IF k = h THEN i ELSE inst[k]]
  BY <1>1
<1>3. Ids' = Ids /\ \A k \in Ids : inst'[k] = IF k = h THEN i ELSE inst[k]
  BY <1>2 DEF Ids
<1> QED BY <1>2, <1>3 DEF InstancesRest, Resting

LEMMA DocPut ==
  ASSUME DocsOwned, NEW h, NEW by \in {"call", "event"}, PutDoc(h, by)
  PROVE  DocsOwned'
<1>1. DOMAIN docs = Ids
  BY DEF DocsOwned
<1>2. PICK d : d = [version |-> docs[h].version + 1, by |-> by]
  OBVIOUS
<1>3. d.by = by
  BY <1>2
<1>4. docs' = [k \in Ids |-> IF k = h THEN d ELSE docs[k]]
  BY <1>1, <1>2 DEF PutDoc
<1>5. \A k \in Ids : docs'[k] = IF k = h THEN d ELSE docs[k]
  BY <1>4
<1> QED BY <1>3, <1>4, <1>5 DEF DocsOwned

LEMMA ExecuteKeeps ==
  ASSUME Scoped, NEW h \in Ids, NEW name, NEW artifact, NEW g, NEW vouched,
         Execute(h, name, "call", artifact, g, vouched)
  PROVE  Scoped'
<1>1. PICK handed, begun, run, after, failed :
        /\ handed = HandedTo(h, artifact)
        /\ begun = [Started(h, vouched) EXCEPT !.artifacts = handed]
        /\ run = Ran(begun, g, "call")
        /\ after = [Finished(run, g) EXCEPT !.artifacts = {}]
        /\ failed = (g.traps \/ ~ g.ok)
  OBVIOUS
<1>2. InstancesRest /\ DocsOwned /\ ReadsOwned
  BY DEF Scoped
<1>3. Instance(Started(h, vouched), {})
  BY <1>2, StartedFacts
<1>4. Instance(begun, handed)
  BY <1>1, <1>3, HandedFacts
<1>5. Instance(run, handed) /\ run.out \in {"call", Without}
  BY <1>1, <1>4, RanFacts
<1>6. Instance(Finished(run, g), handed)
  BY <1>5, FinishedFacts
<1>7. Instance(after, {})
  BY <1>1, <1>6, HandedFacts
<1>8. Resting(KeptInstance(after))
  BY <1>7 DEF KeptInstance, Resting
<1>9. \/ UNCHANGED <<inst, docs, artifactRead>>
      \/ inst' = [inst EXCEPT ![h] = Fresh(FALSE)] /\ UNCHANGED <<docs, artifactRead>>
      \/ /\ inst' = [inst EXCEPT ![h] = KeptInstance(after)]
         /\ artifactRead' = ReadArtifact(begun, g, "call")
         /\ UNCHANGED docs \/ (run.out # Without /\ PutDoc(h, run.out))
  BY <1>1, Zenon DEF Execute
<1>10. CASE UNCHANGED <<inst, docs, artifactRead>>
  BY <1>2, <1>10 DEF Scoped, InstancesRest, DocsOwned, ReadsOwned, Ids
<1>11. CASE inst' = [inst EXCEPT ![h] = Fresh(FALSE)] /\ UNCHANGED <<docs, artifactRead>>
  <2>1. Resting(Fresh(FALSE))
    BY DEF Resting, Instance, Fresh, Fields
  <2>2. InstancesRest'
    BY <1>2, <1>11, <2>1, InstancePlaced
  <2> QED BY <1>2, <1>11, <2>2 DEF Scoped, DocsOwned, ReadsOwned, Ids
<1>12. CASE /\ inst' = [inst EXCEPT ![h] = KeptInstance(after)]
            /\ artifactRead' = ReadArtifact(begun, g, "call")
            /\ UNCHANGED docs \/ (run.out # Without /\ PutDoc(h, run.out))
  <2>1. InstancesRest'
    BY <1>2, <1>8, <1>12, InstancePlaced
  <2>2. ReadsOwned'
    BY <1>12 DEF ReadsOwned, ReadArtifact
  <2>3. DocsOwned'
    <3>1. CASE UNCHANGED docs
      BY <1>2, <3>1 DEF DocsOwned, Ids
    <3>2. CASE run.out # Without /\ PutDoc(h, run.out)
      BY <1>2, <1>5, <3>2, DocPut
    <3> QED BY <1>12, <3>1, <3>2
  <2> QED BY <2>1, <2>2, <2>3 DEF Scoped
<1> QED BY <1>9, <1>10, <1>11, <1>12

Awaited == \A p \in confirming : p.harness \in Ids
CallsInv == Scoped /\ Awaited

LEMMA CallsInvInit == HarInit => CallsInv
BY DEF HarInit, CallsInv, Scoped, InstancesRest, DocsOwned, ReadsOwned, Awaited, Resting

LEMMA CallToolKeeps ==
  ASSUME CallsInv, NEW h \in Ids, NEW name, NEW author, NEW artifact, NEW g, NEW vouched,
         CallTool(h, name, author, artifact, g, vouched)
  PROVE  CallsInv'
<1>1. Scoped /\ Awaited
  BY DEF CallsInv
<1>2. PICK decision : decision = Decision(h, name, author)
  OBVIOUS
<1>3. decision \in {"denied", "confirm", "run"}
  BY <1>2 DEF Decision
<1>4. CASE decision = "denied"
  <2>1. UNCHANGED <<inst, docs, artifactRead, confirming>>
    BY <1>2, <1>4 DEF CallTool
  <2> QED BY <1>1, <2>1 DEF CallsInv, Scoped, InstancesRest, DocsOwned, ReadsOwned, Awaited, Ids
<1>5. CASE decision = "confirm"
  <2>1. UNCHANGED <<inst, docs, artifactRead>> /\ confirming' = confirming \cup {[harness |-> h, tool |-> name]}
    BY <1>2, <1>5 DEF CallTool
  <2>2. Awaited'
    BY <1>1, <2>1 DEF Awaited, Ids
  <2> QED BY <1>1, <2>1, <2>2 DEF CallsInv, Scoped, InstancesRest, DocsOwned, ReadsOwned, Ids
<1>6. CASE decision = "run"
  <2>1. Execute(h, name, "call", artifact, g, vouched) /\ UNCHANGED confirming
    BY <1>2, <1>6 DEF CallTool
  <2>2. Scoped'
    BY <1>1, <2>1, ExecuteKeeps
  <2> QED BY <1>1, <2>1, <2>2 DEF CallsInv, Awaited, Ids
<1> QED BY <1>3, <1>4, <1>5, <1>6

LEMMA ApproveCallKeeps ==
  ASSUME CallsInv, NEW p, NEW granted, NEW g, ApproveCall(p, granted, g)
  PROVE  CallsInv'
<1>1. Scoped /\ Awaited /\ p.harness \in Ids
  BY DEF CallsInv, ApproveCall, Awaited
<1>2. Awaited'
  BY <1>1 DEF ApproveCall, Awaited, Ids
<1>3. \/ Execute(p.harness, p.tool, "call", 0, g, TRUE)
      \/ UNCHANGED <<inst, docs, artifactRead>>
  BY DEF ApproveCall
<1>4. CASE Execute(p.harness, p.tool, "call", 0, g, TRUE)
  BY <1>1, <1>2, <1>4, ExecuteKeeps DEF CallsInv
<1>5. CASE UNCHANGED <<inst, docs, artifactRead>>
  BY <1>1, <1>2, <1>5 DEF CallsInv, Scoped, InstancesRest, DocsOwned, ReadsOwned, Ids
<1> QED BY <1>3, <1>4, <1>5

LEMMA GetWidgetViewKeeps ==
  ASSUME CallsInv, NEW h \in Ids, NEW g, GetWidgetView(h, g)
  PROVE  CallsInv'
<1>1. Scoped /\ Awaited /\ InstancesRest /\ DocsOwned
  BY DEF CallsInv, Scoped
<1>2. PICK begun : begun = Started(h, TRUE)
  OBVIOUS
<1>3. Instance(begun, {})
  BY <1>1, <1>2, StartedFacts
<1>4. /\ inst' = [inst EXCEPT ![h] = Ran(begun, g, "view")] /\ artifactRead' = ReadArtifact(begun, g, "view")
      /\ UNCHANGED <<docs, confirming>>
  BY <1>2 DEF GetWidgetView
<1>5. Resting(Ran(begun, g, "view"))
  BY <1>3, RanFacts DEF Resting
<1>6. InstancesRest'
  BY <1>1, <1>4, <1>5, InstancePlaced
<1>7. ReadsOwned'
  BY <1>3, <1>4, NothingRead DEF ReadsOwned
<1> QED BY <1>1, <1>4, <1>6, <1>7 DEF CallsInv, Scoped, DocsOwned, Awaited, Ids

LEMMA HarnessEventKeeps ==
  ASSUME CallsInv, NEW h \in Ids, NEW g, HarnessEvent(h, g)
  PROVE  CallsInv'
<1>1. Scoped /\ Awaited /\ InstancesRest /\ DocsOwned
  BY DEF CallsInv, Scoped
<1>2. PICK begun, run : begun = Started(h, TRUE) /\ run = Ran(begun, g, "event")
  OBVIOUS
<1>3. Instance(begun, {})
  BY <1>1, <1>2, StartedFacts
<1>4. /\ inst' = [inst EXCEPT ![h] = KeptInstance(Finished(run, g))]
      /\ artifactRead' = ReadArtifact(begun, g, "event")
      /\ UNCHANGED docs \/ (run.out # Without /\ PutDoc(h, run.out))
      /\ UNCHANGED confirming
  BY <1>2, Zenon DEF HarnessEvent
<1>5. Instance(run, {}) /\ run.out \in {"event", Without}
  BY <1>2, <1>3, RanFacts
<1>6. Resting(KeptInstance(Finished(run, g)))
  BY <1>5, FinishedFacts DEF KeptInstance, Resting
<1>7. InstancesRest'
  BY <1>1, <1>4, <1>6, InstancePlaced
<1>8. ReadsOwned'
  BY <1>3, <1>4, NothingRead DEF ReadsOwned
<1>9. DocsOwned'
  <2>1. CASE UNCHANGED docs
    BY <1>1, <2>1 DEF DocsOwned, Ids
  <2>2. CASE run.out # Without /\ PutDoc(h, run.out)
    BY <1>1, <1>5, <2>2, DocPut
  <2> QED BY <1>4, <2>1, <2>2
<1> QED BY <1>1, <1>4, <1>7, <1>8, <1>9 DEF CallsInv, Scoped, Awaited, Ids

LEMMA ContextBlocksKeeps ==
  ASSUME CallsInv, NEW g, ContextBlocks(g)
  PROVE  CallsInv'
<1>1. Scoped /\ Awaited /\ InstancesRest /\ DocsOwned
  BY DEF CallsInv, Scoped
<1> DEFINE online == {h \in on : Packages[h].provider /\ \E i \in DOMAIN Wanted : Wanted[i].harness = h}
           ready == [h \in Ids |-> IF h \in online THEN Started(h, TRUE) ELSE inst[h]]
           ran == Blocks.ran
<1>2. /\ inst' = [h \in Ids |-> IF h \in ran /\ ready[h] # NoInstance
                                THEN Ran(ready[h], g, "context") ELSE ready[h]]
      /\ artifactRead' = {} /\ UNCHANGED <<docs, confirming>>
  BY DEF ContextBlocks
<1>3. \A h \in Ids : ready[h] = IF h \in online THEN Started(h, TRUE) ELSE inst[h]
  <2> HIDE DEF online
  <2> QED OBVIOUS
<1> HIDE DEF online, ready, ran
<1>4. ASSUME NEW h \in Ids PROVE Resting(inst'[h])
  <2>1. Resting(ready[h])
    BY <1>1, <1>3, StartedFacts DEF InstancesRest, Resting
  <2>2. CASE ready[h] = NoInstance
    BY <1>2, <2>2 DEF Resting
  <2>3. CASE ready[h] # NoInstance
    BY <1>2, <2>1, <2>3, RanFacts DEF Resting
  <2> QED BY <2>2, <2>3
<1> QED BY <1>1, <1>2, <1>4 DEF CallsInv, Scoped, InstancesRest, DocsOwned, ReadsOwned, Awaited, Ids

LEMMA CallsInvStep ==
  ASSUME CallsInv, [HarNext]_harVars
  PROVE  CallsInv'
<1> DEFINE Rest == UNCHANGED <<docs, artifactRead, confirming>>
<1>1. ASSUME Rest, InstancesRest' PROVE CallsInv'
  BY <1>1 DEF CallsInv, Scoped, DocsOwned, ReadsOwned, Awaited, Ids
<1>2. ASSUME Rest, UNCHANGED inst PROVE CallsInv'
  BY <1>1, <1>2 DEF CallsInv, Scoped, InstancesRest, Ids
<1>3. ASSUME NEW h, SetFocus(h) PROVE CallsInv'
  BY <1>2, <1>3 DEF SetFocus
<1>4. ASSUME NEW h, NEW yes, SetPinned(h, yes) PROVE CallsInv'
  BY <1>2, <1>4 DEF SetPinned
<1>5. ASSUME NEW h, NEW yes, SetHarnessEnabled(h, yes) PROVE CallsInv'
  BY <1>2, <1>5 DEF SetHarnessEnabled
<1>6. ASSUME NEW h, FindCapability(h) PROVE CallsInv'
  BY <1>2, <1>6 DEF FindCapability
<1>7. ASSUME NEW h, TaskPlan(h) PROVE CallsInv'
  BY <1>2, <1>7 DEF TaskPlan
<1>8. ASSUME NEW h, UnloadIdle(h) PROVE CallsInv'
  <2>1. inst' = [inst EXCEPT ![h] = NoInstance] /\ Rest
    BY <1>8 DEF UnloadIdle
  <2>2. InstancesRest /\ Resting(NoInstance)
    BY DEF CallsInv, Scoped, Resting
  <2>3. InstancesRest'
    BY <2>1, <2>2, InstancePlaced
  <2> QED BY <1>1, <2>1, <2>3
<1>9. CASE UNCHANGED harVars
  BY <1>2, <1>9 DEF harVars
<1>10. CASE \E h \in Ids, author \in {"agent", "user"}, a \in 0..Len(artifacts), g \in Guests, v \in BOOLEAN :
              \E i \in DOMAIN Tools(h) : CallTool(h, Tools(h)[i].name, author, a, g, v)
  BY <1>10, CallToolKeeps
<1>11. CASE \E p \in confirming, granted \in BOOLEAN, g \in Guests : ApproveCall(p, granted, g)
  BY <1>11, ApproveCallKeeps
<1>12. CASE \E h \in Ids, g \in Guests : GetWidgetView(h, g) \/ HarnessEvent(h, g)
  BY <1>12, GetWidgetViewKeeps, HarnessEventKeeps
<1>13. CASE \E g \in Guests : ContextBlocks(g)
  BY <1>13, ContextBlocksKeeps
<1> HIDE DEF Rest
<1> QED BY <1>3, <1>4, <1>5, <1>6, <1>7, <1>8, <1>9, <1>10, <1>11, <1>12, <1>13 DEF HarNext

-----------------------------------------------------------------------------
(* The pipe of a native harness.                                           *)

PipeLines == [id : Nat, says : Says]
PipeTyped == nextCall \in Nat /\ owed \subseteq Nat /\ lines \in Seq(PipeLines)
PipeInv == PipeTyped /\ OwnAnswersOnly

LEMMA PipeInvInit == NativeInit => PipeInv
BY EmptySeq DEF NativeInit, PipeInv, PipeTyped, OwnAnswersOnly

LEMMA PipeInvStep ==
  ASSUME PipeInv, [NativeNext]_nativeVars
  PROVE  PipeInv'
<1> USE DEF PipeInv
<1>1. ASSUME NEW method, Ask(method) PROVE PipeInv'
  <2>1. PipeTyped'
    <3>1. nextCall' = nextCall + 1 /\ (owed' = owed \/ owed' = owed \cup {nextCall}) /\ UNCHANGED lines
      BY <1>1 DEF Ask
    <3>2. PipeTyped
      OBVIOUS
    <3>3. nextCall' \in Nat /\ lines' \in Seq(PipeLines)
      BY <3>1, <3>2 DEF PipeTyped
    <3>4. owed' \subseteq Nat
      BY <3>1, <3>2 DEF PipeTyped
    <3> QED BY <3>3, <3>4 DEF PipeTyped
  <2>2. CASE method = "harness/context" /\ ~extensions
    <3>1. answered' = [id |-> nextCall, as |-> "generic", of |-> nextCall] /\ UNCHANGED extensions
      BY <1>1, <2>2 DEF Ask
    <3> QED BY <2>1, <2>2, <3>1 DEF OwnAnswersOnly
  <2>3. CASE ~ (method = "harness/context" /\ ~extensions)
    <3>1. UNCHANGED <<answered, extensions>>
      BY <1>1, <2>3 DEF Ask
    <3> QED BY <2>1, <3>1 DEF OwnAnswersOnly
  <2> QED BY <2>2, <2>3
<1>2. CASE ReadLine
  <2>1. PICK line : line = Head(lines)
    OBVIOUS
  <2>2. line \in PipeLines /\ Tail(lines) \in Seq(PipeLines)
    BY <1>2, <2>1, HeadTailProperties DEF ReadLine, PipeTyped
  <2>3. PipeTyped'
    BY <1>2, <2>2 DEF ReadLine, PipeTyped
  <2>4. CASE IsTheAnswer(line)
    <3> DEFINE as == IF extensions' # extensions THEN "generic" ELSE line.says
    <3>1. /\ extensions' = (extensions /\ ~ (line.says = "no method" /\ calling.method = "harness/context"))
          /\ answered' = [id |-> calling.id, as |-> as, of |-> line.id]
      BY <1>2, <2>1, <2>4, Zenon DEF ReadLine, CallEnds
    <3>2. line.id = calling.id /\ line.says \in Says
      BY <2>2, <2>4 DEF IsTheAnswer, PipeLines
    <3>3. answered'.of = answered'.id /\ answered'.as = as
      BY <3>1, <3>2
    <3>4. as = "generic" => ~extensions'
      BY <3>1, <3>2 DEF Says
    <3> QED BY <2>3, <3>3, <3>4 DEF OwnAnswersOnly
  <2>5. CASE ~IsTheAnswer(line)
    <3>1. \/ answered' = [id |-> calling.id, as |-> "no response", of |-> calling.id]
          \/ UNCHANGED answered
      BY <1>2, <2>1, <2>5, Zenon DEF ReadLine, CallEnds
    <3>2. UNCHANGED extensions
      BY <1>2, <2>1, <2>5, Zenon DEF ReadLine
    <3>3. CASE UNCHANGED answered
      BY <2>3, <3>2, <3>3 DEF OwnAnswersOnly
    <3>4. CASE answered' = [id |-> calling.id, as |-> "no response", of |-> calling.id]
      BY <2>3, <3>4 DEF OwnAnswersOnly
    <3> QED BY <3>1, <3>3, <3>4
  <2> QED BY <2>4, <2>5
<1>3. CASE ReadEnd
  <2>1. answered' = [id |-> calling.id, as |-> "closed", of |-> calling.id] /\ UNCHANGED <<nextCall, owed, lines, extensions>>
    BY <1>3 DEF ReadEnd, CallEnds
  <2> QED BY <2>1 DEF PipeTyped, OwnAnswersOnly
<1>4. ASSUME NEW id \in owed, NEW says \in Says, ChildAnswers(id, says) PROVE PipeInv'
  <2>1. [id |-> id, says |-> says] \in PipeLines
    BY DEF PipeLines, PipeTyped
  <2>2. lines' \in Seq(PipeLines)
    BY <1>4, <2>1, AppendProperties DEF ChildAnswers, PipeTyped
  <2> QED BY <1>4, <2>2 DEF ChildAnswers, PipeTyped, OwnAnswersOnly
<1>5. CASE ChildNotes
  <2>1. [id |-> 0, says |-> "result"] \in PipeLines
    BY DEF PipeLines, Says
  <2>2. lines' \in Seq(PipeLines)
    BY <1>5, <2>1, AppendProperties DEF ChildNotes, PipeTyped
  <2> QED BY <1>5, <2>2 DEF ChildNotes, PipeTyped, OwnAnswersOnly
<1>6. CASE ChildGoes
  BY <1>6 DEF ChildGoes, PipeTyped, OwnAnswersOnly
<1>7. CASE UNCHANGED nativeVars
  BY <1>7 DEF nativeVars, PipeTyped, OwnAnswersOnly
<1> QED BY <1>1, <1>2, <1>3, <1>4, <1>5, <1>6, <1>7 DEF NativeNext

\* What the model is offered is what its caller may use and fits the budget,
\* lowest ranks cut first; what a harness put or was handed ends with its call,
\* whatever it does, traps in or asks for; and a native one's answer is the one
\* to the call that waits (exposure.rs, lib.rs execute, runtime/).
THEOREM HarnessesAlwaysHeld == HarSpec /\ NativeSpec => []HarnessesAreHeld
<1>1. CallsInv => CallsAreScoped
  BY DEF CallsInv, Scoped, DocsOwned, ReadsOwned, CallsAreScoped
<1>2. HarSpec => []CallsInv
  BY CallsInvInit, CallsInvStep, PTL DEF HarSpec
<1>3. NativeSpec => []PipeInv
  BY PipeInvInit, PipeInvStep, PTL DEF NativeSpec
<1>4. CallsInv /\ PipeInv => HarnessesAreHeld
  BY <1>1, OffersHonest DEF PipeInv, HarnessesAreHeld
<1> QED BY <1>2, <1>3, <1>4, PTL
=============================================================================
