------------------------------ MODULE Presence ------------------------------
(* Who has which board open (presence.rs, Core's R::Presence): windows that *)
(* announce the board they show, again every so often, and are forgotten    *)
(* when they fall silent; and what the people at a board are told of each   *)
(* other.                                                                   *)
(*                                                                          *)
(* A window belongs to its person: Core names it by both. A place is a      *)
(* board in a workspace, but the event that tells of it names the board     *)
(* alone. Time is a count of announcements' instants.                       *)
EXTENDS Naturals, Sequences, SequencesExt, FiniteSets, FiniteSetsExt

CONSTANTS Windows,     \* the windows there are
          UserOf,       \* window -> its person
          Teams,        \* the places: workspaces the board is in
          Ttl,          \* presence_ttl_ms
          MaxNow        \* bound of the instance: instants

VARIABLES now,      \* the clock
          entries,  \* Table::entries: window -> [place, since, at]
          company   \* person -> place -> the people last told of

presenceVars == <<now, entries, company>>

People == {UserOf[w] : w \in Windows}
Nothing == "nothing"

\* The value for a board that is in no workspace is no place.
PlacesAreReal == Nothing \notin Teams
ASSUME PresenceAssumption == PlacesAreReal

\* sweep: whoever has not announced within the time-to-live.
Silent(t) == {w \in DOMAIN entries : t - entries[w].at > Ttl}

\* A plausible slip: the windows swept meanwhile are nobody's news.
ChangedByAnnouncement(w, place, t) ==
    LET was == IF w \in DOMAIN entries THEN {entries[w].place} ELSE {}
    IN  IF was = {place} THEN {} ELSE was \cup ({place} \ {Nothing})

\* announce: the places whose company is not what it was.
Changed(w, place, t) ==
    LET known == DOMAIN entries \ Silent(t)
        was == IF w \in known THEN {entries[w].place} ELSE {}
    IN  {entries[s].place : s \in Silent(t)}
          \cup (IF was = {place} THEN {} ELSE was \cup ({place} \ {Nothing}))

\* A window that announces the same board again keeps its arrival.
Announced(w, place, t) ==
    LET known == DOMAIN entries \ Silent(t)
        stays == w \in known /\ entries[w].place = place
        kept == [x \in known \ {w} |-> entries[x]]
    IN  IF place = Nothing THEN kept
        ELSE [x \in DOMAIN kept \cup {w} |->
                IF x # w THEN kept[x]
                ELSE [place |-> place, at |-> t,
                      since |-> IF stays THEN entries[w].since ELSE t]]

\* users_at: each once, in the order they arrived. No two windows arrive at
\* the same instant.
Arrivals(table, place) ==
    LET here == {w \in DOMAIN table : table[w].place = place}
    IN  [u \in {UserOf[w] : w \in here} |->
            Min({table[w].since : w \in {x \in here : UserOf[x] = u}})]

InOrder(first) == SetToSortSeq(DOMAIN first, LAMBDA a, b : first[a] < first[b])

UsersAt(table, place) == InOrder(Arrivals(table, place))

\* R::Presence: everyone who is at a place that changed is told who is there.
Announce(w, place) ==
    /\ now < MaxNow
    /\ now' = now + 1
    /\ entries' = Announced(w, place, now')
    /\ company' = [u \in People |-> [p \in Teams |->
                     IF p \in Changed(w, place, now') /\ u \in DOMAIN Arrivals(entries', p)
                     THEN UsersAt(entries', p) ELSE company[u][p]]]

\* Time goes by with nobody announcing; nothing else sweeps.
Wait ==
    /\ now < MaxNow
    /\ now' = now + 1
    /\ UNCHANGED <<entries, company>>

PresenceInit ==
    /\ now = 0
    /\ entries = [w \in {} |-> Nothing]
    /\ company = [u \in People |-> [p \in Teams |-> <<>>]]

PresenceNext ==
    \/ \E w \in Windows, place \in Teams \cup {Nothing} : Announce(w, place)
    \/ Wait

PresenceSpec == PresenceInit /\ [][PresenceNext]_presenceVars

(* Whoever is at a board was last told exactly who is there, in the order   *)
(* they came: no window that left or fell silent is still shown once any    *)
(* window has announced since, whichever of a person's windows it was       *)
(* (presence.rs announce and sweep, lib.rs R::Presence).                    *)
CompanyIsCurrent ==
    \A w \in DOMAIN entries :
        company[UserOf[w]][entries[w].place] = UsersAt(entries, entries[w].place)
============================================================================
