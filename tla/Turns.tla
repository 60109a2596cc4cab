-------------------------------- MODULE Turns --------------------------------
(***************************************************************************)
(* The answers ("turns") of localspace-core: crates/localspace-core/src/   *)
(* agent.rs and turns.rs, with the requests of lib.rs that begin, stop and *)
(* resume them.                                                            *)
(*                                                                         *)
(* Core does everything on one thread, one message of its queue at a time. *)
(* A message is a person's request, or the work of a turn come back        *)
(* ("Replied", "GoOn").  The model is read on a thread of its own for      *)
(* every step of a turn; that thread ends by posting a Replied.  One       *)
(* message is handled here by several steps of Core's thread, told apart   *)
(* by pc, with no other message between them: only the reading threads     *)
(* move meanwhile, as they do in the program.                              *)
(*                                                                         *)
(* A person's requests come at any moment Core is idle (the queue holds    *)
(* them in whatever order they were sent); the work of the turns keeps the *)
(* order in which it was posted, which is the variable inbox.              *)
(***************************************************************************)
EXTENDS Integers, Sequences, FiniteSets

CONSTANTS
  Users,          \* the people of a deployment
  Workspaces,     \* where they work
  MayEnter,       \* the workspaces each person may select: a member's, an administrator's
  Chats,          \* records [user, workspace, no]: a chat belongs to a person in a workspace
  Slots,          \* cfg.slots: how many answers the engine writes at once
  MaxAgentSteps,  \* MAX_AGENT_STEPS: tool rounds one answer may take
  MaxTurns,       \* bound: how many answers are ever asked for
  MaxCalls        \* bound: tool calls in one reply of the model

ASSUME ChatsAssumption ==
  Chats # {} /\ Chats \subseteq [user: Users, workspace: Workspaces, no: Nat]
ASSUME EntryAssumption == MayEnter \in [Users -> SUBSET Workspaces]
ASSUME SlotsAssumption == Slots \in Nat
ASSUME StepsAssumption == MaxAgentSteps \in Nat \ {0}
ASSUME BoundsAssumption == MaxTurns \in Nat /\ MaxCalls \in Nat \ {0}

VARIABLES
  turn,       \* core.turns: the answers being written or waiting, by id
  nextTurn,   \* core.next_turn
  active,     \* core.active: whose per-user state Core's fields hold
  workspace,  \* the workspace each person is in
  listed,     \* the chats that exist
  lastWord,   \* how each chat ends: with a stopped answer, or with anything else
  pending,    \* the turns whose proposed call waits at each person's confirmation gate
  run,        \* core.run of each person: the turn whose run is open, or NoTurn
  readers,    \* how many threads read the model for each turn
  inbox,      \* Core's queue, the work of the turns in it
  pc,         \* what Core's thread is about to do
  at,         \* ... and to which turn
  back,       \* where Core's thread goes on once the model is asked
  job         \* the request whose handler has more to do

core == <<pc, at, back, job>>
vars == <<turn, nextTurn, active, workspace, listed, lastWord, pending, run,
          readers, inbox, core>>

-----------------------------------------------------------------------------
TurnIds == 1..MaxTurns
NoTurn == 0

Waiting == {"waitsForAnotherChat", "waitsForTheModel"}
Live == {"writing", "awaitsApproval"}

\* One answer (struct Turn). A turn that was removed, or not made yet, is "none".
Turn == [chat: Chats, state: Waiting \cup Live \cup {"none"}, begun: BOOLEAN,
         steps: Nat, stop: BOOLEAN, calls: 0..MaxCalls, continuing: BOOLEAN,
         refused: BOOLEAN]

Vacant == [chat |-> CHOOSE c \in Chats : TRUE, state |-> "none", begun |-> FALSE,
           steps |-> 0, stop |-> FALSE, calls |-> 0, continuing |-> FALSE,
           refused |-> FALSE]

Known == {t \in TurnIds : turn[t].state # "none"}
UserOf(t) == turn[t].chat.user
PlaceOf(t) == turn[t].chat.workspace

\* What a model step ends with (struct StepEnd), as far as `replied` keeps it
\* apart. "cutShort" is any end before the model finished: stopped, silent too
\* long, at its longest, without room, failed; `words`: with some to keep.
StepEnd == [how: {"whole", "repeated", "cutShort", "calls", "written"},
            words: BOOLEAN, calls: 0..MaxCalls]

Message == [kind: {"replied"}, turn: TurnIds, step: StepEnd]
             \cup [kind: {"goOn"}, turn: TurnIds]

Replied(t, step) == [kind |-> "replied", turn |-> t, step |-> step]
GoOnMessage(t) == [kind |-> "goOn", turn |-> t]

NoJob == [op |-> "none"]
Job == [op: {"none"}]
         \cup [op: {"leave"}, by: Users, ids: SUBSET TurnIds, to: Workspaces]
         \cup [op: {"delete"}, by: Users, chat: Chats]

-----------------------------------------------------------------------------
(* Helpers the handlers share.                                             *)

\* The caller's answer in a chat, being written or waiting, if any.
TurnIn(c) == {t \in Known : turn[t].chat = c}

Writing == {t \in Known : turn[t].state = "writing"}

\* Mutant of WhereItGoes: whoever was asked for first is forgotten.
WhereItGoesAnyOrder(t, user) ==
  IF Cardinality(Writing) >= (IF Slots = 0 THEN 1 ELSE Slots)
  THEN "waitsForTheModel" ELSE "writing"

\* Behind an older answer of its person's, behind the answers that fill the
\* engine's slots, or written now.
WhereItGoes(t, user) ==
  IF \E o \in Known : o < t /\ UserOf(o) = user THEN "waitsForAnotherChat"
  ELSE IF Cardinality(Writing) >= (IF Slots = 0 THEN 1 ELSE Slots)
       THEN "waitsForTheModel"
       ELSE "writing"

\* How the chat of t ends once an answer is kept in it: carried on, its words
\* join the answer that stopped, which need not be the last message any more.
Kept(t, stopped, words) ==
  LET was == lastWord[turn[t].chat] IN
  IF ~stopped \/ (turn[t].continuing /\ was = "other") THEN "other"
  ELSE IF words \/ (turn[t].continuing /\ was = "part") THEN "part"
  ELSE "empty"

Keep(t, stopped, words) ==
  lastWord' = [lastWord EXCEPT ![turn[t].chat] = Kept(t, stopped, words)]

RecordCall(t) == lastWord' = [lastWord EXCEPT ![turn[t].chat] = "other"]

Become(step, t) == pc' = step /\ at' = t

\* The handler ends here, and Core takes the next message of its queue.
Return == Become("idle", NoTurn) /\ UNCHANGED <<back, job>>

\* The handler goes on by ending turn t: `end`, then what it calls.
ThenEnd(t) == Become("end", t) /\ UNCHANGED <<back, job>>

\* The handler goes on by asking the model for turn t.
ThenAsk(t) == Become("ask", t) /\ back' = "idle" /\ UNCHANGED job

-----------------------------------------------------------------------------
Init ==
  /\ turn = [t \in TurnIds |-> Vacant]
  /\ nextTurn = 1
  /\ active \in Users
  /\ workspace \in [Users -> Workspaces] /\ \A u \in Users : workspace[u] \in MayEnter[u]
  /\ listed = Chats
  /\ lastWord = [c \in Chats |-> "other"]
  /\ pending = [u \in Users |-> {}]
  /\ run = [u \in Users |-> NoTurn]
  /\ readers = [t \in TurnIds |-> 0]
  /\ inbox = <<>>
  /\ pc = "idle" /\ at = NoTurn /\ back = "idle" /\ job = NoJob

-----------------------------------------------------------------------------
(* Requests of a person. Each is taken when Core is idle, as `handle_as`   *)
(* does: the per-user state becomes the caller's first.                    *)

\* queue: a new answer for chat c, begun now or waiting.
Queue(c, continuing) ==
  LET state == WhereItGoes(nextTurn, c.user) IN
  /\ nextTurn \in TurnIds
  /\ nextTurn' = nextTurn + 1
  /\ turn' = [turn EXCEPT ![nextTurn] =
                [chat |-> c, state |-> state, begun |-> FALSE, steps |-> 0,
                 stop |-> FALSE, calls |-> 0, continuing |-> continuing,
                 refused |-> FALSE]]
  /\ IF state = "writing"
     THEN Become("begin", nextTurn) /\ back' = "idle" /\ UNCHANGED job
     ELSE Return

\* send: a message in one of the caller's chats, refused while that chat's
\* answer is written or waits.
Send(u, c) ==
  /\ pc = "idle"
  /\ c.user = u /\ c \in listed /\ workspace[u] = c.workspace
  /\ TurnIn(c) = {}
  /\ active' = u
  /\ lastWord' = [lastWord EXCEPT ![c] = "other"]
  /\ Queue(c, FALSE)
  /\ UNCHANGED <<workspace, listed, pending, run, readers, inbox>>

\* continue_answer: only a chat that ends with a stopped answer is carried on.
ContinueAnswer(u, c) ==
  /\ pc = "idle"
  /\ c.user = u /\ c \in listed /\ workspace[u] = c.workspace
  /\ TurnIn(c) = {}
  /\ lastWord[c] \in {"part", "empty"}
  /\ active' = u
  /\ Queue(c, TRUE)
  /\ UNCHANGED <<workspace, listed, lastWord, pending, run, readers, inbox>>

\* Mutant of Cancel: the flag alone, also for a turn that nobody works on.
CancelByFlag(u, c) ==
  /\ pc = "idle"
  /\ c.user = u
  /\ active' = u
  /\ \E t \in TurnIn(c) : turn' = [turn EXCEPT ![t].stop = TRUE]
  /\ Return
  /\ UNCHANGED <<nextTurn, workspace, listed, lastWord, pending, run, readers, inbox>>

\* cancel: asked to stop; one being written ends at its own safe point.
Cancel(u, c) ==
  /\ pc = "idle"
  /\ c.user = u
  /\ active' = u
  /\ \E t \in TurnIn(c) :
       /\ turn' = [turn EXCEPT ![t].stop = TRUE]
       /\ IF turn[t].state = "writing" THEN Return ELSE ThenEnd(t)
  /\ UNCHANGED <<nextTurn, workspace, listed, lastWord, pending, run, readers, inbox>>

\* DeleteConversation, up to `forget`: the chat's answer ends first, in
\* whatever workspace its person is.
DeleteConversation(u, c) ==
  /\ pc = "idle"
  /\ c.user = u /\ c \in listed
  /\ active' = u
  /\ job' = [op |-> "delete", by |-> u, chat |-> c]
  /\ IF TurnIn(c) = {}
     THEN Become("resume", NoTurn) /\ UNCHANGED <<turn, back>>
     ELSE \E t \in TurnIn(c) :
            /\ turn' = [turn EXCEPT ![t].stop = TRUE]
            /\ Become("end", t) /\ UNCHANGED back
  /\ UNCHANGED <<nextTurn, workspace, listed, lastWord, pending, run, readers, inbox>>

\* Mutant of SelectWorkspace: only the turns in line are ended, and one that
\* waits for an approval is left behind.
SelectWorkspaceEndsQueued(u, to) ==
  LET leaving == {t \in Known : UserOf(t) = u /\ PlaceOf(t) = workspace[u]} IN
  /\ pc = "idle"
  /\ to \in MayEnter[u] /\ workspace[u] # to
  /\ active' = u
  /\ turn' = [t \in TurnIds |->
                IF t \in leaving THEN [turn[t] EXCEPT !.stop = TRUE] ELSE turn[t]]
  /\ job' = [op |-> "leave", by |-> u,
             ids |-> {t \in leaving : turn[t].state \in Waiting}, to |-> to]
  /\ Become("resume", NoTurn)
  /\ UNCHANGED <<nextTurn, workspace, listed, lastWord, pending, run, readers,
                 inbox, back>>

\* select_workspace, up to `stop_on_leaving`: every answer of the caller's
\* in the workspace they leave is asked to stop; the ones not being written
\* are then ended one by one (LeaveEndsNext).
SelectWorkspace(u, to) ==
  LET leaving == {t \in Known : UserOf(t) = u /\ PlaceOf(t) = workspace[u]} IN
  /\ pc = "idle"
  /\ to \in MayEnter[u] /\ workspace[u] # to
  /\ active' = u
  /\ turn' = [t \in TurnIds |->
                IF t \in leaving THEN [turn[t] EXCEPT !.stop = TRUE] ELSE turn[t]]
  /\ job' = [op |-> "leave", by |-> u,
             ids |-> {t \in leaving : turn[t].state # "writing"}, to |-> to]
  /\ Become("resume", NoTurn)
  /\ UNCHANGED <<nextTurn, workspace, listed, lastWord, pending, run, readers,
                 inbox, back>>

\* Approve, granted: the call is made as the person, and the turn goes on.
ApproveGranted(u, t) ==
  /\ pc = "idle"
  /\ t \in pending[u]
  /\ active' = u
  /\ pending' = [pending EXCEPT ![u] = @ \ {t}]
  /\ IF t \in Known
     THEN /\ RecordCall(t)
          /\ turn' = [turn EXCEPT ![t].state = "writing"]
          /\ inbox' = Append(inbox, GoOnMessage(t))
     ELSE UNCHANGED <<turn, lastWord, inbox>>
  /\ Return
  /\ UNCHANGED <<nextTurn, workspace, listed, run, readers>>

\* Approve, declined: the call is not made, and the answer stops there.
ApproveDeclined(u, t) ==
  /\ pc = "idle"
  /\ t \in pending[u]
  /\ active' = u
  /\ pending' = [pending EXCEPT ![u] = @ \ {t}]
  /\ IF t \in Known THEN ThenEnd(t) ELSE Return
  /\ UNCHANGED <<turn, nextTurn, workspace, listed, lastWord, run, readers, inbox>>

-----------------------------------------------------------------------------
(* The work of a turn, come back through Core's queue.                     *)

\* replied, for a step that ends the answer: what came is kept, and it ends.
RepliedEnds(t, step) ==
  /\ step.how \in {"whole", "repeated", "cutShort"}
  /\ Keep(t, step.how = "cutShort", step.words)
  /\ ThenEnd(t)
  /\ UNCHANGED turn
  /\ inbox' = Tail(inbox)

\* Mutant of RepliedCalls: nothing is posted to make the calls.
RepliedCallsUnposted(t, step) ==
  /\ step.how = "calls"
  /\ turn' = [turn EXCEPT ![t].calls = step.calls]
  /\ inbox' = Tail(inbox)
  /\ Return
  /\ UNCHANGED lastWord

\* replied, for a step that proposes tool calls, or is nothing but one call.
RepliedCalls(t, step) ==
  /\ step.how = "calls"
  /\ turn' = [turn EXCEPT ![t].calls = step.calls]
  /\ inbox' = Append(Tail(inbox), GoOnMessage(t))
  /\ Return
  /\ UNCHANGED lastWord

\* attempted: a call written into the answer and not to be made. The model is
\* told once; the second time its words end the answer.
RepliedWritten(t, step) ==
  /\ step.how = "written"
  /\ IF turn[t].refused
     THEN /\ Keep(t, FALSE, TRUE) /\ UNCHANGED turn
          /\ ThenEnd(t)
     ELSE /\ turn' = [turn EXCEPT ![t].refused = TRUE] /\ UNCHANGED lastWord
          /\ ThenAsk(t)
  /\ inbox' = Tail(inbox)

TakeReplied ==
  /\ pc = "idle" /\ inbox # <<>> /\ Head(inbox).kind = "replied"
  /\ LET t == Head(inbox).turn
         step == Head(inbox).step
     IN IF t \notin Known
        THEN inbox' = Tail(inbox) /\ UNCHANGED <<turn, lastWord, active, core>>
        ELSE /\ active' = UserOf(t)
             /\ \/ RepliedEnds(t, step)
                \/ RepliedCalls(t, step)
                \/ RepliedWritten(t, step)
  /\ UNCHANGED <<nextTurn, workspace, listed, pending, run, readers>>

\* go_on at its safe point: asked to stop, or its person is elsewhere.
GoOnStops(t) ==
  /\ turn[t].stop \/ workspace[UserOf(t)] # PlaceOf(t)
  /\ ThenEnd(t)
  /\ inbox' = Tail(inbox)
  /\ UNCHANGED <<turn, lastWord, pending>>

\* go_on with no call left: the next model step.
GoOnAsks(t) ==
  /\ ~turn[t].stop /\ workspace[UserOf(t)] = PlaceOf(t)
  /\ turn[t].calls = 0
  /\ turn' = [turn EXCEPT ![t].steps = @ + 1]
  /\ ThenAsk(t)
  /\ inbox' = Tail(inbox)
  /\ UNCHANGED <<lastWord, pending>>

\* Mutant of GoOnCalls: the next call is taken without asking if there is one.
GoOnCallsUnchecked(t) ==
  /\ ~turn[t].stop /\ workspace[UserOf(t)] = PlaceOf(t)
  /\ RecordCall(t)
  /\ turn' = [turn EXCEPT ![t].calls = @ - 1]
  /\ inbox' = Append(Tail(inbox), GoOnMessage(t))
  /\ UNCHANGED pending
  /\ Return

\* go_on with a call: made, or held at the confirmation gate of call_tool.
GoOnCalls(t) ==
  /\ ~turn[t].stop /\ workspace[UserOf(t)] = PlaceOf(t)
  /\ turn[t].calls > 0
  /\ RecordCall(t)
  /\ \/ /\ turn' = [turn EXCEPT ![t].calls = @ - 1]
        /\ inbox' = Append(Tail(inbox), GoOnMessage(t))
        /\ UNCHANGED pending
     \/ /\ turn' = [turn EXCEPT ![t].calls = @ - 1, ![t].state = "awaitsApproval"]
        /\ pending' = [pending EXCEPT ![UserOf(t)] = @ \cup {t}]
        /\ inbox' = Tail(inbox)
  /\ Return

TakeGoOn ==
  /\ pc = "idle" /\ inbox # <<>> /\ Head(inbox).kind = "goOn"
  /\ LET t == Head(inbox).turn
     IN IF t \notin Known
        THEN inbox' = Tail(inbox) /\ UNCHANGED <<turn, lastWord, pending, active, core>>
        ELSE /\ active' = UserOf(t)
             /\ (GoOnStops(t) \/ GoOnAsks(t) \/ GoOnCalls(t))
  /\ UNCHANGED <<nextTurn, workspace, listed, run, readers>>

-----------------------------------------------------------------------------
(* What the handlers call.                                                 *)

\* begin: the turn leaves the queue, and its run is made.
Begin ==
  /\ pc = "begin"
  /\ active' = UserOf(at)
  /\ turn' = [turn EXCEPT ![at].begun = TRUE]
  /\ run' = [run EXCEPT ![UserOf(at)] = at]
  /\ pc' = "ask"
  /\ UNCHANGED <<nextTurn, workspace, listed, lastWord, pending, readers, inbox,
                 at, back, job>>

\* ask_the_model: not when asked to stop, elsewhere, or out of steps.
MayAsk(t) ==
  /\ ~turn[t].stop
  /\ workspace[UserOf(t)] = PlaceOf(t)
  /\ turn[t].steps < MaxAgentSteps

AskEnds ==
  /\ pc = "ask" /\ ~MayAsk(at)
  /\ ThenEnd(at)
  /\ UNCHANGED <<turn, nextTurn, active, workspace, listed, lastWord, pending, run,
                 readers, inbox>>

\* Carried on, an answer that stopped before its first word leaves the chat.
Afresh(t) == turn[t].continuing /\ turn[t].steps = 0 /\ lastWord[turn[t].chat] # "part"

AskTheModel ==
  /\ pc = "ask" /\ MayAsk(at)
  /\ readers' = [readers EXCEPT ![at] = @ + 1]
  /\ IF Afresh(at)
     THEN /\ turn' = [turn EXCEPT ![at].continuing = FALSE]
          /\ lastWord' = [lastWord EXCEPT ![turn[at].chat] = "other"]
     ELSE UNCHANGED <<turn, lastWord>>
  /\ Become(back, NoTurn) /\ back' = "idle" /\ UNCHANGED job
  /\ UNCHANGED <<nextTurn, active, workspace, listed, pending, run, inbox>>

\* Mutant of End: the run of the answer stays open.
EndWithRunOpen ==
  /\ pc = "end"
  /\ active' = UserOf(at)
  /\ turn' = [turn EXCEPT ![at] = Vacant]
  /\ pending' = [pending EXCEPT ![UserOf(at)] = @ \ {at}]
  /\ Become("schedule", NoTurn)
  /\ UNCHANGED <<nextTurn, workspace, listed, lastWord, run, readers, inbox, back, job>>

\* Mutant of End: whoever waited is not looked at again.
EndWithoutSchedule ==
  /\ pc = "end"
  /\ active' = UserOf(at)
  /\ turn' = [turn EXCEPT ![at] = Vacant]
  /\ pending' = [pending EXCEPT ![UserOf(at)] = @ \ {at}]
  /\ run' = [run EXCEPT ![UserOf(at)] = IF turn[at].begun THEN NoTurn ELSE @]
  /\ Become(IF job.op = "none" THEN "idle" ELSE "resume", NoTurn)
  /\ UNCHANGED <<nextTurn, workspace, listed, lastWord, readers, inbox, back, job>>

\* end: the turn is removed, as its person; its approval is withdrawn, its run
\* closed, and whoever waited on it may start.
End ==
  LET u == UserOf(at) IN
  /\ pc = "end"
  /\ active' = u
  /\ turn' = [turn EXCEPT ![at] = Vacant]
  /\ pending' = [pending EXCEPT ![u] = @ \ {at}]
  /\ run' = [run EXCEPT ![u] = IF turn[at].begun THEN NoTurn ELSE @]
  /\ Become("schedule", NoTurn)
  /\ UNCHANGED <<nextTurn, workspace, listed, lastWord, readers, inbox, back, job>>

\* The turns `schedule` moves: they wait, and no longer where they stood.
Movable == {t \in Known : /\ turn[t].state \in Waiting
                          /\ WhereItGoes(t, UserOf(t)) # turn[t].state}

\* schedule, one turn of its loop: the first that moves, as its person.
ScheduleNext ==
  /\ pc = "schedule"
  /\ \E t \in Movable :
       /\ \A o \in Movable : t <= o
       /\ LET state == WhereItGoes(t, UserOf(t)) IN
          /\ active' = UserOf(t)
          /\ turn' = [turn EXCEPT ![t].state = state]
          /\ IF state = "writing"
             THEN Become("begin", t) /\ back' = "schedule"
             ELSE UNCHANGED <<pc, at, back>>
  /\ UNCHANGED <<nextTurn, workspace, listed, lastWord, pending, run, readers,
                 inbox, job>>

ScheduleDone ==
  /\ pc = "schedule" /\ Movable = {}
  /\ pc' = IF job.op = "none" THEN "idle" ELSE "resume"
  /\ UNCHANGED <<turn, nextTurn, active, workspace, listed, lastWord, pending, run,
                 readers, inbox, at, back, job>>

\* stop_on_leaving, one turn of its loop: the oldest left to end, if it has not
\* ended meanwhile.
LeaveEndsNext ==
  /\ pc = "resume" /\ job.op = "leave"
  /\ \E t \in job.ids :
       /\ \A o \in job.ids : t <= o
       /\ job' = [job EXCEPT !.ids = @ \ {t}]
       /\ IF t \in Known THEN Become("end", t) ELSE UNCHANGED <<pc, at>>
  /\ UNCHANGED <<turn, nextTurn, active, workspace, listed, lastWord, pending, run,
                 readers, inbox, back>>

\* select_workspace after stop_on_leaving: Core's workspace field, which is that
\* of whoever is active by now.
LeaveTail ==
  /\ pc = "resume" /\ job.op = "leave" /\ job.ids = {}
  /\ workspace' = [workspace EXCEPT ![active] = job.to]
  /\ Become("idle", NoTurn) /\ job' = NoJob
  /\ UNCHANGED <<turn, nextTurn, active, listed, lastWord, pending, run, readers,
                 inbox, back>>

\* DeleteConversation after forget: from the working set of whoever is active.
DeleteTail ==
  /\ pc = "resume" /\ job.op = "delete"
  /\ listed' = IF job.chat.user = active /\ job.chat.workspace = workspace[active]
               THEN listed \ {job.chat} ELSE listed
  /\ Become("idle", NoTurn) /\ job' = NoJob
  /\ UNCHANGED <<turn, nextTurn, active, workspace, lastWord, pending, run, readers,
                 inbox, back>>

-----------------------------------------------------------------------------
(* A thread that reads the model, beside Core's.                           *)

\* The ways a step can end. That of a turn removed meanwhile was asked to stop,
\* and is read by nobody.
StepEnds(t) ==
  {s \in StepEnd :
     /\ s.how = "calls" <=> s.calls > 0
     /\ s.how # "cutShort" => ~s.words
     /\ t \notin Known => s.how = "cutShort" /\ ~s.words}

ReaderEnds(t) ==
  /\ readers[t] > 0
  /\ readers' = [readers EXCEPT ![t] = @ - 1]
  /\ \E s \in StepEnds(t) :
       /\ inbox' = Append(inbox, Replied(t, s))
       \* An answer that repeats itself is stopped by its own reader.
       /\ turn' = IF s.how = "repeated" THEN [turn EXCEPT ![t].stop = TRUE] ELSE turn
  /\ UNCHANGED <<nextTurn, active, workspace, listed, lastWord, pending, run, core>>

-----------------------------------------------------------------------------
Request ==
  \E u \in Users :
    \/ \E c \in Chats : Send(u, c) \/ ContinueAnswer(u, c) \/ Cancel(u, c)
                          \/ DeleteConversation(u, c)
    \/ \E w \in Workspaces : SelectWorkspace(u, w)
    \/ \E t \in TurnIds : ApproveGranted(u, t) \/ ApproveDeclined(u, t)

TakeInbox == TakeReplied \/ TakeGoOn

Handling == Begin \/ AskEnds \/ AskTheModel \/ End \/ ScheduleNext \/ ScheduleDone
              \/ LeaveEndsNext \/ LeaveTail \/ DeleteTail

Next == Request \/ TakeInbox \/ Handling \/ \E t \in TurnIds : ReaderEnds(t)

Spec == Init /\ [][Next]_vars

\* Core's thread runs; a model step ends (the engine answers, or one of the
\* silences of stream.rs does); and the queue is first in, first out, so that
\* the people's requests do not keep the work of the turns waiting for ever.
\* Nothing is assumed of the people.
Fairness ==
  /\ WF_vars(Handling)
  /\ SF_vars(TakeInbox)
  /\ \A t \in TurnIds : WF_vars(ReaderEnds(t))

FairSpec == Spec /\ Fairness

-----------------------------------------------------------------------------
\* The fields of Core and of its turns keep their types.
TypeOK ==
  /\ turn \in [TurnIds -> Turn]
  /\ nextTurn \in 1..(MaxTurns + 1)
  /\ active \in Users
  /\ workspace \in [Users -> Workspaces]
  /\ listed \subseteq Chats
  /\ lastWord \in [Chats -> {"other", "part", "empty"}]
  /\ pending \in [Users -> SUBSET TurnIds]
  /\ run \in [Users -> TurnIds \cup {NoTurn}]
  /\ readers \in [TurnIds -> Nat]
  /\ inbox \in Seq(Message)
  /\ pc \in {"idle", "begin", "ask", "end", "schedule", "resume"}
  /\ at \in TurnIds \cup {NoTurn}
  /\ back \in {"idle", "schedule"}
  /\ job \in Job

Queued(q, t) == \E i \in DOMAIN q : q[i].turn = t
QueuedOnce(q, t) == \E i \in DOMAIN q : \A j \in DOMAIN q : (q[j].turn = t) <=> (j = i)

InOneHand(t) == \/ readers[t] = 1 /\ ~Queued(inbox, t)
                \/ readers[t] = 0 /\ QueuedOnce(inbox, t)
InNoHand(t) == readers[t] = 0 /\ ~Queued(inbox, t)

\* An answer being written is in exactly one pair of hands: one thread reads the
\* model for it, or one message about it is in Core's queue; an answer that
\* waits, for its turn or for its person, is in none. No step of agent.rs loses
\* an answer (nothing would ever end it) or works on it twice.
WorkConserved ==
  \A t \in Known \ {at} :
    IF turn[t].state = "writing" THEN InOneHand(t) ELSE InNoHand(t)

\* One answer at a time for a person (where_it_goes): whatever they asked for
\* later waits behind it, and waits for nothing else; no chat has two answers.
OneAnswerAtATime ==
  \A t \in Known :
    /\ (\E o \in Known : o < t /\ UserOf(o) = UserOf(t))
         => turn[t].state = "waitsForAnotherChat"
    /\ pc = "idle" /\ turn[t].state = "waitsForAnotherChat"
         => \E o \in Known : o < t /\ UserOf(o) = UserOf(t)
    /\ \A o \in Known : turn[o].chat = turn[t].chat => o = t

\* Whenever a person may answer an approval, the call it would make is still
\* wanted: its turn waits for that answer, is theirs, was not asked to stop, and
\* answers in the workspace they are in, which is where the call would act. And
\* every turn that waits for an approval has one to be answered.
ApprovalsAreLive ==
  pc = "idle" =>
    \A u \in Users, t \in TurnIds :
      t \in pending[u] <=>
        /\ t \in Known /\ turn[t].state = "awaitsApproval" /\ UserOf(t) = u
        /\ ~turn[t].stop /\ PlaceOf(t) = workspace[u]

\* A person's open run is that of their one begun answer, and is closed when it
\* ends: a change made later is never counted to an answer that is over.
RunIsTheAnswers ==
  \A u \in Users, t \in TurnIds :
    run[u] = t <=> t \in Known /\ UserOf(t) = u /\ turn[t].begun /\ ~(pc = "begin" /\ at = t)

\* An answer asked to stop ends, whatever the people do next: its model step is
\* read to an end, its queue place or its approval is given up.
StopIsHeeded ==
  \A t \in TurnIds : (t \in Known /\ turn[t].stop) ~> (t \notin Known)

\* Every answer ends, unless somebody is asked for an approval and does not
\* answer: none is forgotten in the queue when the one before it ends.
EveryAnswerEnds ==
  \A t \in TurnIds :
    (t \in Known) ~> \/ t \notin Known
                     \/ \E o \in Known : turn[o].state = "awaitsApproval"

\* Every answer comes to an end, by itself or because it was asked to (agent.rs),
\* the two above together.
AnswersEnd == StopIsHeeded /\ EveryAnswerEnds

-----------------------------------------------------------------------------
(* What the program says of itself, and does not always do.                *)

\* "A request from `caller`: the per-user state becomes theirs, every check is
\* made as them, and every event of the handling goes to them" (lib.rs,
\* handle_as): the rest of a request is handled as whoever made it.
ActsAsCaller == pc = "resume" => active = job.by

\* "At most one answer a person at a time; as many people at once as the engine
\* has slots" (turns.rs).
SlotsRespected == Cardinality(Writing) <= (IF Slots = 0 THEN 1 ELSE Slots)

\* "Waits for the model to be free: every answer it can write at once is taken,
\* by other people" (localspace-proto, TurnState::WaitsForTheModel).
ModelIsTaken ==
  pc = "idle" /\ (\E t \in Known : turn[t].state = "waitsForTheModel")
    => Cardinality(Writing) >= (IF Slots = 0 THEN 1 ELSE Slots)

=============================================================================
