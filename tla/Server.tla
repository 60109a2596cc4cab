------------------------------- MODULE Server -------------------------------
(* localspace-server around the one Core: the Core made on first use        *)
(* (lib.rs), every request sent to it as its caller and its answer routed   *)
(* back by id (session.rs, transport.rs Hub, api.rs), the event streams of  *)
(* the sockets (ws.rs), and harness surfaces on their own origins           *)
(* (surfaces.rs).                                                           *)
(*                                                                          *)
(* What Core answers is not this module's: an answer carries what it was    *)
(* asked, and for a view's file whether there is one. Who may ask is        *)
(* Identity's: the calls here are those that authenticate let in, or that   *)
(* need no one signed in.                                                   *)
EXTENDS Naturals, Sequences, SequencesExt, FiniteSets

CONSTANTS Users,        \* people of the organisation
          Slug,          \* harness -> the label of its origin (surfaces.rs slug)
          MaxGrants,     \* MAX_GRANTS
          EventsPerUser, \* EVENTS_PER_USER
          Askers, Openers, \* who sends requests; who opens which view: [user, harness]
          MaxWork        \* bound of the instance: calls, events and sockets

Surfaces == DOMAIN Slug
All == "everyone"
NoCall == 0

\* Only people ask and open views; limits are numbers, and at least one grant
\* may stand.
ServerIsSet ==
    /\ Askers \subseteq Users
    /\ Openers \subseteq [user : Users, harness : Surfaces]
    /\ EventsPerUser \in Nat
    /\ MaxGrants \in Nat \ {0}
ASSUME ServerAssumption == ServerIsSet

VARIABLES
         \* users whose session the directory knows
    core,      \* Server::core: whether the one Core is there
    made,      \* Cores created so far
    creating,  \* the call that holds Server::creating, or NoCall
    calls,     \* every request under way or over, in order of arrival
    toCore,    \* Hub's queue into Core: [id, asked]
    fromCore,  \* Hub's queue out of Core: answers and events, in order
    nextId,    \* Hub::next_id
    waitingFor,\* Session::pending: Hub's id -> the call that waits for it
    events,    \* events Core has sent so far
    streams,   \* Session::users: user -> what its broadcast channel carried
    sockets,   \* sockets ever opened
    grants     \* Server::grants, oldest first

serverVars == <<core, made, creating, calls, toCore, fromCore, nextId,
                waitingFor, events, streams, sockets, grants>>

(* A call: what is asked as whom, the socket it came on, or the token and   *)
(* origin of a surface's frame, how far it is, its id, and what came back.  *)
Call(asked) ==
    [asked |-> asked, on |-> NoCall, token |-> NoCall, origin |-> "none",
     phase |-> "arrived", id |-> 0, answer |-> {}]

Phases == {"arrived", "locked", "sent", "answered", "shown", "late", "gone",
           "refused"}

\* The bound: a call takes more steps than an event or a socket, and counts
\* for two.
Room(cost) == 2 * Len(calls) + events + Len(sockets) + cost <= MaxWork

\* HashMap::insert
Put(map, key, value) ==
    [k \in DOMAIN map \cup {key} |-> IF k = key THEN value ELSE map[k]]

Move(c, phase) == calls' = [calls EXCEPT ![c].phase = phase]

ServerInit ==
    /\ core = FALSE /\ made = 0 /\ creating = NoCall
    /\ calls = <<>> /\ toCore = <<>> /\ fromCore = <<>> /\ nextId = 1
    /\ waitingFor = <<>> /\ events = 0
    /\ streams = [u \in {} |-> <<>>]
    /\ sockets = <<>> /\ grants = <<>>

-----------------------------------------------------------------------------
\* A plausible slip: ids that count the calls under way instead of all ever
\* made.
CallAsReusing(c, asking) ==
    LET id == 1 + Cardinality(DOMAIN waitingFor)
    IN  /\ calls' = [asking EXCEPT ![c].phase = "sent", ![c].id = id]
        /\ toCore' = Append(toCore, [id |-> id, asked |-> asking[c].asked])
        /\ waitingFor' = Put(waitingFor, id, c)
        /\ nextId' = nextId + 1

(* Requests. Hub::request_as is called under the lock of `pending`, where   *)
(* the pump looks too: numbering, queueing and registering are one step.    *)
CallAs(c, asking) ==
    /\ calls' = [asking EXCEPT ![c].phase = "sent", ![c].id = nextId]
    /\ toCore' = Append(toCore, [id |-> nextId, asked |-> asking[c].asked])
    /\ waitingFor' = Put(waitingFor, nextId, c)
    /\ nextId' = nextId + 1

\* A new call that finds the Core there is sent at once.
Begin(call) ==
    /\ Room(2)
    /\ IF core THEN CallAs(Len(calls) + 1, Append(calls, call))
       ELSE /\ calls' = Append(calls, call)
            /\ UNCHANGED <<toCore, waitingFor, nextId>>

\* What an HTTP handler asks Core for, and waits.
Arrive(asked) ==
    /\ Begin(Call(asked))
    /\ UNCHANGED <<core, made, creating, fromCore, events, streams, sockets, grants>>

\* api.rs: any request of the caller's, by one of its routes.
ApiRequest(u) == Arrive([user |-> u, kind |-> "request", harness |-> "none"])

\* auth.rs as_system: signing in and out, a one-time link, the first
\* administrator's. Nobody is signed in yet, so Core is asked as itself.
AsSystem == Arrive([user |-> "system", kind |-> "request", harness |-> "none"])

\* surfaces::open, its first half: whether the view's entry file is there.
OpenSurface(o) == Arrive([user |-> o.user, kind |-> "open", harness |-> o.harness])

\* Server::core found none at the first look and waits for the lock.
LockCore(c) ==
    /\ calls[c].phase = "arrived" /\ creating = NoCall
    /\ creating' = c
    /\ Move(c, "locked")
    /\ UNCHANGED <<core, made, toCore, fromCore, nextId, waitingFor, events,
                   streams, sockets, grants>>

\* Server::core with the lock: a second look, else the Core is made, or
\* cannot be, which is this caller's error alone.
Made(c) ==
    \/ core /\ CallAs(c, calls) /\ UNCHANGED <<core, made>>
    \/ ~core /\ core' = TRUE /\ made' = made + 1 /\ CallAs(c, calls)
    \/ ~core /\ Move(c, "refused") /\ UNCHANGED <<core, made, toCore, waitingFor, nextId>>

MakeCore(c) ==
    /\ calls[c].phase = "locked"
    /\ Made(c)
    /\ creating' = NoCall
    /\ UNCHANGED <<fromCore, events, streams, sockets, grants>>

\* Core's thread takes the oldest request and answers it (handle_as).
CoreAnswers ==
    /\ toCore # <<>>
    /\ toCore' = Tail(toCore)
    /\ \E ok \in IF Head(toCore).asked.kind \in {"open", "file"} THEN BOOLEAN ELSE {TRUE} :
          fromCore' = Append(fromCore,
                             [is |-> "answer", id |-> Head(toCore).id,
                              asked |-> Head(toCore).asked, ok |-> ok])
    /\ UNCHANGED <<core, made, creating, calls, nextId, waitingFor,
                   events, streams, sockets, grants>>

\* Core's event sink: an event for one user, or for everyone.
CoreSays(to) ==
    /\ core /\ Room(1)
    /\ events' = events + 1
    /\ fromCore' = Append(fromCore, [is |-> "event", to |-> to, n |-> events + 1])
    /\ UNCHANGED <<core, made, creating, calls, toCore, nextId,
                   waitingFor, streams, sockets, grants>>

\* pump, one message: an answer to whoever still waits for its id, an event
\* to the channel of its user or to every channel there is.
PumpAnswer(m) ==
    LET c == waitingFor[m.id]
    IN  /\ IF m.id \in DOMAIN waitingFor
           THEN /\ waitingFor' = [i \in DOMAIN waitingFor \ {m.id} |-> waitingFor[i]]
                /\ calls' = IF calls[c].phase # "sent" THEN calls
                            ELSE [calls EXCEPT ![c].phase = "answered", ![c].answer = {m}]
           ELSE UNCHANGED <<waitingFor, calls>>
        /\ UNCHANGED streams

\* Broadcast channels keep nothing for nobody: with no socket of the user's
\* open the send fails, and that is no error.
Listening(u) == \E s \in DOMAIN sockets : sockets[s].user = u /\ sockets[s].open

PumpEvent(m) ==
    /\ streams' = [u \in DOMAIN streams |->
                      IF m.to \in {u, All} /\ Listening(u)
                      THEN Append(streams[u], m) ELSE streams[u]]
    /\ UNCHANGED <<waitingFor, calls>>

Pump ==
    /\ fromCore # <<>>
    /\ fromCore' = Tail(fromCore)
    /\ IF Head(fromCore).is = "answer" THEN PumpAnswer(Head(fromCore))
       ELSE PumpEvent(Head(fromCore))
    /\ UNCHANGED <<core, made, creating, toCore, nextId, events,
                   sockets, grants>>

\* CALL_TIMEOUT: the caller is told, and the id forgotten.
TimeOut(c) ==
    /\ calls[c].phase = "sent"
    /\ waitingFor' = [i \in DOMAIN waitingFor \ {calls[c].id} |-> waitingFor[i]]
    /\ Move(c, "late")
    /\ UNCHANGED <<core, made, creating, toCore, fromCore, nextId,
                   events, streams, sockets, grants>>

\* The client hangs up, or readyz's own ten seconds run out: nobody waits,
\* and the id stays until Core answers it.
Abandon(c) ==
    /\ calls[c].phase = "sent" /\ calls[c].on = NoCall
    /\ Move(c, "gone")
    /\ UNCHANGED <<core, made, creating, toCore, fromCore, nextId,
                   waitingFor, events, streams, sockets, grants>>

-----------------------------------------------------------------------------
(* Sockets.                                                                 *)

\* upgrade and the head of serve: the session is checked, then the user's
\* channel is subscribed to, made if it is the user's first.
Connect(u) ==
    /\ core /\ Room(1)
    /\ streams' = IF u \in DOMAIN streams THEN streams ELSE Put(streams, u, <<>>)
    /\ sockets' = Append(sockets,
                         [user |-> u, open |-> TRUE, seen |-> <<>>,
                          from |-> Len(streams'[u]), at |-> Len(streams'[u])])
    /\ UNCHANGED <<core, made, creating, calls, toCore, fromCore,
                   nextId, waitingFor, events, grants>>

\* A request frame: its own task calls Core as the socket's caller.
Frame(s) ==
    /\ sockets[s].open
    /\ Begin([Call([user |-> sockets[s].user, kind |-> "request", harness |-> "none"])
              EXCEPT !.on = s])
    /\ UNCHANGED <<core, made, creating, fromCore, events, streams, sockets, grants>>

Behind(s) == Len(streams[sockets[s].user]) - sockets[s].at

\* A plausible slip: a reader that goes on after falling behind, as the
\* tests' drain does.
ReadOn(s) ==
    LET stream == streams[sockets[s].user]
        at == IF Behind(s) > EventsPerUser THEN Len(stream) - EventsPerUser
              ELSE sockets[s].at
    IN  [sockets[s] EXCEPT !.at = at + 1, !.seen = Append(@, stream[at + 1])]

\* events.recv: the next event, or how many were missed when the channel has
\* already dropped it.
Read(s) ==
    LET stream == streams[sockets[s].user]
    IN  IF Behind(s) > EventsPerUser
        THEN [sockets[s] EXCEPT !.at = Len(stream) - EventsPerUser,
                                !.seen = Append(@, [is |-> "missed"])]
        ELSE [sockets[s] EXCEPT !.at = @ + 1,
                                !.seen = Append(@, stream[sockets[s].at + 1])]

Deliver(s) ==
    /\ sockets[s].open /\ Behind(s) > 0
    /\ sockets' = [sockets EXCEPT ![s] = Read(s)]
    /\ UNCHANGED <<core, made, creating, calls, toCore, fromCore,
                   nextId, waitingFor, events, streams, grants>>

\* The client closes, the send fails, or the session is found ended.
Close(s) ==
    /\ sockets[s].open
    /\ sockets' = [sockets EXCEPT ![s].open = FALSE]
    /\ UNCHANGED <<core, made, creating, calls, toCore, fromCore,
                   nextId, waitingFor, events, streams, grants>>

-----------------------------------------------------------------------------
(* Surfaces.                                                                *)

\* surfaces::open after Core's answer: the view is there, so a grant is
\* minted; the oldest goes when there are MAX_GRANTS.
Granted(c) ==
    LET asked == calls[c].asked
        kept == IF Len(grants) >= MaxGrants THEN Tail(grants) ELSE grants
    IN  Append(kept, [token |-> c, user |-> asked.user, harness |-> asked.harness,
                      slug |-> Slug[asked.harness]])

MintGrant(c) ==
    /\ calls[c].phase = "answered" /\ calls[c].asked.kind = "open"
    /\ grants' = IF \A m \in calls[c].answer : m.ok THEN Granted(c) ELSE grants
    /\ Move(c, "shown")
    /\ UNCHANGED <<core, made, creating, toCore, fromCore, nextId,
                   waitingFor, events, streams, sockets>>

\* A plausible slip: the token alone decides.
GrantForAnyOrigin(token, slug) == {g \in ToSet(grants) : g.token = token}

\* surfaces::route and serve: a request on the origin of `slug` with a
\* token in its path. Only a grant for that origin counts; the file is asked
\* for as the grant's user, for the grant's own view.
GrantFor(token, slug) ==
    {g \in ToSet(grants) : g.token = token /\ g.slug = slug}

Load(token, slug) ==
    /\ \E g \in GrantFor(token, slug) :
          Begin([Call([user |-> g.user, kind |-> "file", harness |-> g.harness])
                 EXCEPT !.token = token, !.origin = slug])
    /\ UNCHANGED <<core, made, creating, fromCore, events, streams, sockets, grants>>

ServerNext ==
    \/ \E u \in Askers : ApiRequest(u)
    \/ AsSystem
    \/ \E o \in Openers : OpenSurface(o)
    \/ \E c \in DOMAIN calls : LockCore(c)
    \/ \E c \in DOMAIN calls : MakeCore(c)
    \/ CoreAnswers
    \/ \E to \in Users \cup {All} : CoreSays(to)
    \/ Pump
    \/ \E c \in DOMAIN calls : TimeOut(c)
    \/ \E c \in DOMAIN calls : Abandon(c)
    \/ \E u \in Users : Connect(u)
    \/ \E s \in DOMAIN sockets : Frame(s)
    \/ \E s \in DOMAIN sockets : Deliver(s)
    \/ \E s \in DOMAIN sockets : Close(s)
    \/ \E c \in DOMAIN calls : MintGrant(c)
    \/ \E g \in ToSet(grants), slug \in {Slug[h] : h \in Surfaces} : Load(g.token, slug)

ServerSpec == ServerInit /\ [][ServerNext]_serverVars

-----------------------------------------------------------------------------
(* Every caller gets the answer to its own request, and only that: an       *)
(* answered call holds what it asked for as whom it asked; a call that      *)
(* still waits is the one its id will be given to, and that id is still on  *)
(* its way to Core or back, whatever timed out, hung up or came late        *)
(* (session.rs call_as and pump). One Core is behind them all, however many *)
(* first requests raced to make it (lib.rs core).                           *)
OnTheWay == {m.id : m \in ToSet(toCore)}
              \cup {m.id : m \in {a \in ToSet(fromCore) : a.is = "answer"}}

AnswersFindTheirCaller ==
    /\ \A c \in DOMAIN calls :
          /\ \A m \in calls[c].answer : m.asked = calls[c].asked
          /\ calls[c].phase = "sent" =>
                /\ calls[c].id \in DOMAIN waitingFor \cap OnTheWay
                /\ waitingFor[calls[c].id] = c
    /\ made <= 1

(* A socket shows its user's events and everyone's, each once and in Core's *)
(* order, and never leaves one out unsaid: what it has shown since it       *)
(* opened, or since it last said that events were missed, is exactly what   *)
(* its user's channel carried up to where it stands (session.rs subscribe   *)
(* and pump, ws.rs serve).                                                  *)
SinceMissed(seen) ==
    LET cuts == {i \in DOMAIN seen : seen[i].is = "missed"}
        after == CHOOSE i \in cuts \cup {0} : \A j \in cuts : j <= i
    IN  SubSeq(seen, after + 1, Len(seen))

StreamsAreWhole ==
    \A s \in DOMAIN sockets :
        LET stream == streams[sockets[s].user]
            shown == SinceMissed(sockets[s].seen)
        IN  /\ shown = SubSeq(stream, sockets[s].at - Len(shown) + 1, sockets[s].at)
            /\ shown = sockets[s].seen => Len(shown) = sockets[s].at - sockets[s].from
            /\ \A i \in DOMAIN stream :
                  /\ stream[i].to \in {sockets[s].user, All}
                  /\ \A j \in 1..(i - 1) : stream[j].n < stream[i].n

(* A frame loads what the shell opened it for and nothing else: a file that *)
(* is served on a harness's origin is that harness's own, asked for as a    *)
(* person whose own request for that view Core had answered (surfaces.rs    *)
(* open and serve). No more views stay open than MAX_GRANTS.                *)
FramesKeepApart ==
    /\ \A c \in DOMAIN calls : calls[c].asked.kind = "file" =>
          /\ Slug[calls[c].asked.harness] = calls[c].origin
          /\ calls[c].token < c
          /\ LET opened == calls[calls[c].token]
             IN  /\ opened.phase = "shown" /\ \A m \in opened.answer : m.ok
                 /\ opened.asked = [calls[c].asked EXCEPT !.kind = "open"]
    /\ Len(grants) <= MaxGrants

(* Nobody gets what is another's: the answer, the stream or the grant       *)
(* (session.rs, ws.rs, surfaces.rs), the three above together.              *)
ServerKeepsApart == AnswersFindTheirCaller /\ StreamsAreWhole /\ FramesKeepApart
============================================================================
