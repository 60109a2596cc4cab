----------------------------- MODULE TurnsProof -----------------------------
(***************************************************************************)
(* Proofs about Turns, for any number of people, chats, slots and turns.   *)
(*                                                                         *)
(* The inductive invariant is the conjunction of TypeOK and five parts:    *)
(* where Core's thread is (Control), who stands in line behind whom        *)
(* (Line), whose hands an answer is in (Hands), whose run is open (Runs)   *)
(* and which approvals can be answered (Approvals).                        *)
(***************************************************************************)
EXTENDS Turns, TLAPS

\* Where Core's thread can be, and with which turn in hand.
Control ==
  /\ pc \in {"begin", "ask", "end"} <=> at # NoTurn
  /\ at # NoTurn => at \in Known
  /\ pc \in {"begin", "ask"} => turn[at].state = "writing"
  /\ pc = "idle" => job = NoJob
  /\ pc = "resume" => job # NoJob
  /\ pc \in {"begin", "ask"} /\ back = "idle" => job = NoJob
  /\ \A t \in TurnIds : t >= nextTurn => t \notin Known

\* A person's answers stand in line, one to a chat; between two loops of
\* schedule nobody waits for nothing.
Line ==
  /\ \A t, o \in Known : o < t /\ UserOf(o) = UserOf(t)
                           => turn[t].state = "waitsForAnotherChat"
  /\ \A t, o \in Known : turn[o].chat = turn[t].chat => o = t
  /\ pc \in {"idle", "resume"} \/ (pc \in {"begin", "ask"} /\ back = "idle")
       => \A t \in Known : turn[t].state = "waitsForAnotherChat"
                             => \E o \in Known : o < t /\ UserOf(o) = UserOf(t)

\* WorkConserved, with the turn Core's thread holds itself.
Hands ==
  /\ \A t \in Known : turn[t].state # "writing" => InNoHand(t)
  /\ \A t \in Known \ {at} : turn[t].state = "writing" => InOneHand(t)
  /\ \A t \in TurnIds : pc \in {"begin", "ask"} /\ at = t => InNoHand(t)
  /\ \A t \in TurnIds : t >= nextTurn => InNoHand(t)

\* A turn is begun exactly while it is live, and its run is open.
Runs ==
  /\ \A t \in Known : turn[t].begun <=> turn[t].state \in Live /\ ~(pc = "begin" /\ at = t)
  /\ RunIsTheAnswers

\* The approvals outstanding, at every step of Core's thread.
Approvals ==
  /\ \A u \in Users : \A t \in pending[u] :
       /\ t \in Known /\ turn[t].state = "awaitsApproval" /\ UserOf(t) = u
       /\ PlaceOf(t) = workspace[u]
       /\ turn[t].stop => \/ job.op = "leave" /\ t \in job.ids
                          \/ pc = "end" /\ at = t
  /\ \A t \in Known \ {at} : turn[t].state = "awaitsApproval" => t \in pending[UserOf(t)]
  /\ job.op = "leave" =>
       /\ \A t \in pending[job.by] : t \in job.ids \/ (pc = "end" /\ at = t)
       /\ active # job.by => pending[active] = {}
       /\ \A t \in job.ids \cap Known : UserOf(t) = job.by
       /\ pc = "end" /\ UserOf(at) # job.by => turn[at].state \in Live

IInv == TypeOK /\ Control /\ Line /\ Hands /\ Runs /\ Approvals

-----------------------------------------------------------------------------
(* Facts about Core's queue and about the line, cited by the steps below.  *)

\* Appending a message puts its turn in the queue, once if it was not there.
LEMMA QueueAppend ==
  ASSUME NEW q \in Seq(Message), NEW m \in Message, NEW t \in TurnIds
  PROVE  /\ Append(q, m) \in Seq(Message)
         /\ t # m.turn => /\ Queued(Append(q, m), t) <=> Queued(q, t)
                          /\ QueuedOnce(Append(q, m), t) <=> QueuedOnce(q, t)
         /\ t = m.turn /\ ~Queued(q, t) => QueuedOnce(Append(q, m), t)
  <1>1. Append(q, m) \in Seq(Message)
    OBVIOUS
  <1>2. /\ DOMAIN Append(q, m) = 1..(Len(q) + 1)
        /\ DOMAIN q = 1..Len(q) /\ Len(q) \in Nat
        /\ Append(q, m)[Len(q) + 1] = m
        /\ \A i \in 1..Len(q) : Append(q, m)[i] = q[i]
    OBVIOUS
  <1>3. ASSUME t # m.turn
        PROVE  Queued(Append(q, m), t) <=> Queued(q, t)
    BY <1>2, <1>3 DEF Queued
  <1>4. ASSUME t # m.turn
        PROVE  QueuedOnce(Append(q, m), t) <=> QueuedOnce(q, t)
    BY <1>2, <1>4, SMTT(40) DEF QueuedOnce
  <1>5. ASSUME t = m.turn, ~Queued(q, t)
        PROVE  QueuedOnce(Append(q, m), t)
    <2>1. \A j \in DOMAIN Append(q, m) : (Append(q, m)[j].turn = t) <=> (j = Len(q) + 1)
      BY <1>2, <1>5 DEF Queued
    <2> QED
      BY <1>2, <2>1 DEF QueuedOnce
  <1> QED
    BY <1>1, <1>3, <1>4, <1>5

\* Taking the first message of the queue removes its turn from it, if it was
\* there once, and leaves the others alone.
LEMMA QueueTail ==
  ASSUME NEW q \in Seq(Message), q # <<>>, NEW t \in TurnIds
  PROVE  /\ Tail(q) \in Seq(Message) /\ Head(q) \in Message
         /\ Queued(q, Head(q).turn)
         /\ t # Head(q).turn => /\ Queued(Tail(q), t) <=> Queued(q, t)
                                /\ QueuedOnce(Tail(q), t) <=> QueuedOnce(q, t)
         /\ t = Head(q).turn /\ QueuedOnce(q, t) => ~Queued(Tail(q), t)
  <1>1. Tail(q) \in Seq(Message) /\ Head(q) \in Message
    OBVIOUS
  <1>2. /\ DOMAIN Tail(q) = 1..(Len(q) - 1)
        /\ DOMAIN q = 1..Len(q) /\ Len(q) \in Nat /\ Len(q) > 0
        /\ Head(q) = q[1]
        /\ \A i \in 1..(Len(q) - 1) : Tail(q)[i] = q[i + 1]
    OBVIOUS
  <1>3. Queued(q, Head(q).turn)
    BY <1>2 DEF Queued
  <1>4. ASSUME t # Head(q).turn
        PROVE  Queued(Tail(q), t) <=> Queued(q, t)
    <2>1. ASSUME NEW i \in DOMAIN q, q[i].turn = t
          PROVE  i - 1 \in DOMAIN Tail(q) /\ Tail(q)[i - 1].turn = t
      BY <1>2, <1>4, <2>1
    <2>2. ASSUME NEW i \in DOMAIN Tail(q), Tail(q)[i].turn = t
          PROVE  i + 1 \in DOMAIN q /\ q[i + 1].turn = t
      BY <1>2, <2>2
    <2> QED
      BY <2>1, <2>2 DEF Queued
  <1>5. ASSUME t # Head(q).turn
        PROVE  QueuedOnce(Tail(q), t) <=> QueuedOnce(q, t)
    <2>1. ASSUME QueuedOnce(Tail(q), t)
          PROVE  QueuedOnce(q, t)
      <3>1. PICK i \in DOMAIN Tail(q) :
              \A j \in DOMAIN Tail(q) : (Tail(q)[j].turn = t) <=> (j = i)
        BY <2>1 DEF QueuedOnce
      <3>2. ASSUME NEW j \in DOMAIN q
            PROVE  (q[j].turn = t) <=> (j = i + 1)
        <4>1. CASE j = 1
          BY <4>1, <1>2, <1>5
        <4>2. CASE j # 1
          <5>1. j - 1 \in DOMAIN Tail(q) /\ Tail(q)[j - 1] = q[j]
            BY <4>2, <1>2
          <5> QED
            BY <5>1, <3>1, <1>2
        <4> QED
          BY <4>1, <4>2
      <3>3. i + 1 \in DOMAIN q
        BY <1>2
      <3> QED
        BY <3>2, <3>3 DEF QueuedOnce
    <2>2. ASSUME QueuedOnce(q, t)
          PROVE  QueuedOnce(Tail(q), t)
      <3>1. PICK i \in DOMAIN q : \A j \in DOMAIN q : (q[j].turn = t) <=> (j = i)
        BY <2>2 DEF QueuedOnce
      <3>2. i - 1 \in DOMAIN Tail(q)
        BY <3>1, <1>2, <1>5
      <3>3. \A j \in DOMAIN Tail(q) : (Tail(q)[j].turn = t) <=> (j = i - 1)
        BY <3>1, <1>2
      <3> QED
        BY <3>2, <3>3 DEF QueuedOnce
    <2> QED
      BY <2>1, <2>2
  <1>6. ASSUME t = Head(q).turn, QueuedOnce(q, t)
        PROVE  ~Queued(Tail(q), t)
    BY <1>2, <1>6 DEF QueuedOnce, Queued
  <1> QED
    BY <1>1, <1>3, <1>4, <1>5, <1>6

\* Where a turn goes: behind an older one of its person's exactly when there is one.
LEMMA WhereItGoesValues ==
  ASSUME NEW t, NEW u
  PROVE  /\ WhereItGoes(t, u) \in {"waitsForAnotherChat", "waitsForTheModel", "writing"}
         /\ WhereItGoes(t, u) = "waitsForAnotherChat"
              <=> \E o \in Known : o < t /\ UserOf(o) = u
  BY DEF WhereItGoes

\* A removed turn is of the type of turns, and is "none".
LEMMA VacantIsATurn == Vacant \in Turn /\ Vacant.state = "none"
  BY ChatsAssumption, BoundsAssumption DEF Vacant, Turn

\* What a change of one field of a turn leaves alone.
LEMMA SetStop ==
  ASSUME turn \in [TurnIds -> Turn], NEW t \in TurnIds,
         turn' = [turn EXCEPT ![t].stop = TRUE]
  PROVE  /\ turn' \in [TurnIds -> Turn]
         /\ \A o \in TurnIds : /\ turn'[o].chat = turn[o].chat
                               /\ turn'[o].state = turn[o].state
                               /\ turn'[o].begun = turn[o].begun
                               /\ o # t => turn'[o] = turn[o]
         /\ turn'[t].stop
  BY ZenonT(60) DEF Turn

\* The same, when the state of a turn becomes another.
LEMMA SetState ==
  ASSUME turn \in [TurnIds -> Turn], NEW t \in TurnIds, NEW s \in Waiting \cup Live,
         turn' = [turn EXCEPT ![t].state = s]
  PROVE  /\ turn' \in [TurnIds -> Turn]
         /\ \A o \in TurnIds : /\ turn'[o].chat = turn[o].chat
                               /\ turn'[o].begun = turn[o].begun
                               /\ turn'[o].stop = turn[o].stop
                               /\ o # t => turn'[o] = turn[o]
         /\ turn'[t].state = s
  BY SMTT(40) DEF Turn

\* The same, when a turn leaves the line.
LEMMA SetBegun ==
  ASSUME turn \in [TurnIds -> Turn], NEW t \in TurnIds,
         turn' = [turn EXCEPT ![t].begun = TRUE]
  PROVE  /\ turn' \in [TurnIds -> Turn]
         /\ \A o \in TurnIds : /\ turn'[o].chat = turn[o].chat
                               /\ turn'[o].state = turn[o].state
                               /\ turn'[o].stop = turn[o].stop
                               /\ o # t => turn'[o] = turn[o]
         /\ turn'[t].begun
  BY ZenonT(60) DEF Turn

\* The same, when a turn is counted another tool round.
LEMMA SetSteps ==
  ASSUME turn \in [TurnIds -> Turn], NEW t \in TurnIds,
         turn' = [turn EXCEPT ![t].steps = @ + 1]
  PROVE  /\ turn' \in [TurnIds -> Turn]
         /\ \A o \in TurnIds : /\ turn'[o].chat = turn[o].chat
                               /\ turn'[o].state = turn[o].state
                               /\ turn'[o].begun = turn[o].begun
                               /\ turn'[o].stop = turn[o].stop
                               /\ o # t => turn'[o] = turn[o]
  BY SMTT(40) DEF Turn

\* The same, when the model was told its written call is not made.
LEMMA SetRefused ==
  ASSUME turn \in [TurnIds -> Turn], NEW t \in TurnIds,
         turn' = [turn EXCEPT ![t].refused = TRUE]
  PROVE  /\ turn' \in [TurnIds -> Turn]
         /\ \A o \in TurnIds : /\ turn'[o].chat = turn[o].chat
                               /\ turn'[o].state = turn[o].state
                               /\ turn'[o].begun = turn[o].begun
                               /\ turn'[o].stop = turn[o].stop
                               /\ o # t => turn'[o] = turn[o]
  BY ZenonT(60) DEF Turn

\* The same, when an answer carried on is begun afresh.
LEMMA SetContinuing ==
  ASSUME turn \in [TurnIds -> Turn], NEW t \in TurnIds,
         turn' = [turn EXCEPT ![t].continuing = FALSE]
  PROVE  /\ turn' \in [TurnIds -> Turn]
         /\ \A o \in TurnIds : /\ turn'[o].chat = turn[o].chat
                               /\ turn'[o].state = turn[o].state
                               /\ turn'[o].begun = turn[o].begun
                               /\ turn'[o].stop = turn[o].stop
                               /\ o # t => turn'[o] = turn[o]
  BY ZenonT(60) DEF Turn

\* The same, when the calls a turn has left to make change.
LEMMA SetCalls ==
  ASSUME turn \in [TurnIds -> Turn], NEW t \in TurnIds, NEW n \in 0..MaxCalls,
         turn' = [turn EXCEPT ![t].calls = n]
  PROVE  /\ turn' \in [TurnIds -> Turn]
         /\ \A o \in TurnIds : /\ turn'[o].chat = turn[o].chat
                               /\ turn'[o].state = turn[o].state
                               /\ turn'[o].begun = turn[o].begun
                               /\ turn'[o].stop = turn[o].stop
                               /\ o # t => turn'[o] = turn[o]
  BY SMTT(40) DEF Turn

\* What every step needs of the types.
LEMMA Basics ==
  ASSUME TypeOK, Control
  PROVE  /\ Known \subseteq TurnIds /\ TurnIds \subseteq Nat \ {NoTurn}
         /\ \A t \in TurnIds : /\ turn[t] \in Turn /\ turn[t].chat \in Chats
                              /\ UserOf(t) \in Users /\ PlaceOf(t) \in Workspaces
         /\ \A t \in Known : t < nextTurn
         /\ \A u \in Users : pending[u] \subseteq TurnIds
         /\ pc = "idle" => at = NoTurn /\ job.op = "none"
  <1>1. Known \subseteq TurnIds /\ TurnIds \subseteq Nat \ {NoTurn}
    BY BoundsAssumption DEF Known, TurnIds, NoTurn
  <1>2. \A t \in TurnIds : /\ turn[t] \in Turn /\ turn[t].chat \in Chats
                          /\ UserOf(t) \in Users /\ PlaceOf(t) \in Workspaces
    BY ChatsAssumption DEF TypeOK, Turn, UserOf, PlaceOf
  <1>3. \A t \in Known : t < nextTurn
    BY <1>1 DEF TypeOK, Control
  <1>4. \A u \in Users : pending[u] \subseteq TurnIds
    BY DEF TypeOK
  <1>5. pc = "idle" => at = NoTurn /\ job.op = "none"
    BY DEF Control, NoJob
  <1> QED
    BY <1>1, <1>2, <1>3, <1>4, <1>5

\* Neither the readers nor the queue move: every answer is in the same hands.
LEMMA SameHands ==
  ASSUME UNCHANGED <<readers, inbox>>,
         \A t \in Known' : turn'[t].state # "writing" => InNoHand(t),
         \A t \in Known' \ {at'} : turn'[t].state = "writing" => InOneHand(t),
         \A t \in TurnIds : pc' \in {"begin", "ask"} /\ at' = t => InNoHand(t),
         \A t \in TurnIds : t >= nextTurn' => InNoHand(t)
  PROVE  Hands'
  <1>1. \A t : (InNoHand(t)' <=> InNoHand(t)) /\ (InOneHand(t)' <=> InOneHand(t))
    BY DEF InNoHand, InOneHand, Queued, QueuedOnce
  <1> QED
    BY <1>1 DEF Hands

\* Posting a message about a turn puts it in Core's hands, and moves no other.
LEMMA Posted ==
  ASSUME TypeOK, NEW t \in TurnIds, NEW m \in Message, m.turn = t,
         inbox' = Append(inbox, m), readers' \in [TurnIds -> Nat],
         \A o \in TurnIds \ {t} : readers'[o] = readers[o]
  PROVE  /\ inbox' \in Seq(Message)
         /\ \A o \in TurnIds \ {t} : /\ InNoHand(o)' <=> InNoHand(o)
                                     /\ InOneHand(o)' <=> InOneHand(o)
         /\ readers'[t] = 0 /\ ~Queued(inbox, t) => InOneHand(t)'
  <1>1. inbox \in Seq(Message)
    BY DEF TypeOK
  <1>2. \A o \in TurnIds \ {t} : /\ Queued(inbox, o)' <=> Queued(inbox, o)
                                 /\ QueuedOnce(inbox, o)' <=> QueuedOnce(inbox, o)
    <2> TAKE o \in TurnIds \ {t}
    <2>1. /\ Queued(Append(inbox, m), o) <=> Queued(inbox, o)
          /\ QueuedOnce(Append(inbox, m), o) <=> QueuedOnce(inbox, o)
      BY <1>1, QueueAppend
    <2> QED
      BY <2>1 DEF Queued, QueuedOnce
  <1>3. ~Queued(inbox, t) => QueuedOnce(inbox, t)'
    <2>1. ~Queued(inbox, t) => QueuedOnce(Append(inbox, m), t)
      BY <1>1, QueueAppend
    <2> QED
      BY <2>1 DEF QueuedOnce
  <1>4. inbox' \in Seq(Message)
    BY <1>1
  <1> QED
    BY <1>2, <1>3, <1>4 DEF InNoHand, InOneHand

\* Taking the first message of the queue takes its turn in hand, and moves no
\* other; what may be posted for it at once gives it back.
LEMMA Taken ==
  ASSUME TypeOK, inbox # <<>>, NEW t \in TurnIds, t = Head(inbox).turn, readers' = readers
  PROVE  /\ Queued(inbox, t)
         /\ inbox' = Tail(inbox) =>
              /\ inbox' \in Seq(Message)
              /\ \A o \in TurnIds \ {t} : /\ InNoHand(o)' <=> InNoHand(o)
                                          /\ InOneHand(o)' <=> InOneHand(o)
              /\ InOneHand(t) => InNoHand(t)'
         /\ inbox' = Append(Tail(inbox), GoOnMessage(t)) =>
              /\ inbox' \in Seq(Message)
              /\ \A o \in TurnIds \ {t} : /\ InNoHand(o)' <=> InNoHand(o)
                                          /\ InOneHand(o)' <=> InOneHand(o)
              /\ InOneHand(t) => InOneHand(t)'
  <1> DEFINE q == Tail(inbox)
             p == Append(Tail(inbox), GoOnMessage(t))
  <1>1. inbox \in Seq(Message) /\ GoOnMessage(t) \in Message /\ GoOnMessage(t).turn = t
    BY DEF TypeOK, Message, GoOnMessage
  <1>2. Queued(inbox, t) /\ q \in Seq(Message) /\ p \in Seq(Message)
    BY <1>1, QueueTail, QueueAppend
  <1>3. \A o \in TurnIds \ {t} : /\ Queued(q, o) <=> Queued(inbox, o)
                                 /\ QueuedOnce(q, o) <=> QueuedOnce(inbox, o)
    BY <1>1, QueueTail
  <1>4. \A o \in TurnIds \ {t} : /\ Queued(p, o) <=> Queued(inbox, o)
                                 /\ QueuedOnce(p, o) <=> QueuedOnce(inbox, o)
    BY <1>1, <1>2, <1>3, QueueAppend
  <1>5. InOneHand(t) => readers[t] = 0 /\ ~Queued(q, t) /\ QueuedOnce(p, t)
    <2>1. InOneHand(t) => readers[t] = 0 /\ QueuedOnce(inbox, t)
      BY <1>2 DEF InOneHand
    <2>2. QueuedOnce(inbox, t) => ~Queued(q, t)
      BY <1>1, QueueTail
    <2>3. ~Queued(q, t) => QueuedOnce(p, t)
      BY <1>1, <1>2, QueueAppend
    <2> QED
      BY <2>1, <2>2, <2>3
  <1>6. ASSUME inbox' = q
        PROVE  \A o \in TurnIds : /\ Queued(inbox, o)' <=> Queued(q, o)
                                  /\ QueuedOnce(inbox, o)' <=> QueuedOnce(q, o)
    BY <1>6 DEF Queued, QueuedOnce
  <1>7. ASSUME inbox' = p
        PROVE  \A o \in TurnIds : /\ Queued(inbox, o)' <=> Queued(p, o)
                                  /\ QueuedOnce(inbox, o)' <=> QueuedOnce(p, o)
    BY <1>7 DEF Queued, QueuedOnce
  <1>8. ASSUME inbox' = q
        PROVE  /\ inbox' \in Seq(Message)
               /\ \A o \in TurnIds \ {t} : /\ InNoHand(o)' <=> InNoHand(o)
                                           /\ InOneHand(o)' <=> InOneHand(o)
               /\ InOneHand(t) => InNoHand(t)'
    BY <1>2, <1>3, <1>5, <1>6, <1>8 DEF InNoHand, InOneHand
  <1>9. ASSUME inbox' = p
        PROVE  /\ inbox' \in Seq(Message)
               /\ \A o \in TurnIds \ {t} : /\ InNoHand(o)' <=> InNoHand(o)
                                           /\ InOneHand(o)' <=> InOneHand(o)
               /\ InOneHand(t) => InOneHand(t)'
    BY <1>2, <1>4, <1>5, <1>7, <1>9 DEF InNoHand, InOneHand
  <1> QED
    BY <1>2, <1>8, <1>9

-----------------------------------------------------------------------------
(* The steps. Each lemma says first what the action does to the turns, and  *)
(* then why every part of the invariant survives it.                        *)

\* A new answer joins the line: nobody is behind it.
LEMMA QueueStep ==
  ASSUME IInv, NEW c \in listed, NEW continuing \in BOOLEAN, pc = "idle",
         TurnIn(c) = {}, workspace[c.user] = c.workspace,
         active' = c.user, Queue(c, continuing),
         lastWord' \in [Chats -> {"other", "part", "empty"}],
         UNCHANGED <<workspace, listed, pending, run, readers, inbox>>
  PROVE  IInv'
  <1> DEFINE n == nextTurn
             state == WhereItGoes(n, c.user)
  <1> USE DEF IInv
  <1>1. /\ c \in Chats /\ c.user \in Users
        /\ n \in TurnIds /\ n \notin Known
        /\ \A t \in Known : turn[t].chat # c
    BY ChatsAssumption DEF TypeOK, Control, Queue, TurnIn
  <1>2. /\ state \in {"waitsForAnotherChat", "waitsForTheModel", "writing"}
        /\ state = "waitsForAnotherChat" <=> \E o \in Known : UserOf(o) = c.user
    BY <1>1, Basics, WhereItGoesValues
  <1>3. /\ turn' \in [TurnIds -> Turn]
        /\ \A t \in TurnIds \ {n} : turn'[t] = turn[t]
        /\ turn'[n].chat = c /\ turn'[n].state = state /\ ~turn'[n].begun
        /\ ~turn'[n].stop
    BY <1>1, <1>2, BoundsAssumption DEF TypeOK, Turn, Queue, Waiting, Live
  <1>4. Known' = Known \cup {n}
    BY <1>1, <1>2, <1>3 DEF Known
  <1>5. /\ nextTurn' = n + 1
        /\ \/ state = "writing" /\ pc' = "begin" /\ at' = n /\ back' = "idle" /\ job' = job
           \/ state # "writing" /\ pc' = "idle" /\ at' = NoTurn /\ back' = back /\ job' = job
    BY DEF Queue, Become, Return
  <1>6. TypeOK'
    BY <1>1, <1>2, <1>3, <1>5, BoundsAssumption DEF TypeOK, TurnIds
  <1>7. Control'
    BY <1>1, <1>2, <1>3, <1>4, <1>5, Basics DEF Control
  <1>8. Line'
    <2>1. \A t \in Known : turn'[t] = turn[t] /\ t < n /\ n \notin Known
      BY <1>1, <1>3, Basics
    <2> QED
      BY <1>1, <1>2, <1>3, <1>4, <1>5, <2>1, Basics DEF Line, UserOf
  <1>9. Hands'
    <2>1. InNoHand(n)
      BY <1>1, Basics DEF TypeOK, Hands
    <2>2. \A t \in TurnIds : t >= nextTurn' => InNoHand(t)
      BY <1>1, <1>5, Basics DEF TypeOK, Hands
    <2> QED
      BY <1>1, <1>2, <1>3, <1>4, <1>5, <2>1, <2>2, Basics, SameHands DEF Hands
  <1>10. Runs'
    BY <1>1, <1>2, <1>3, <1>4, <1>5, Basics DEF Runs, RunIsTheAnswers, UserOf, Live
  <1>11. Approvals'
    BY <1>1, <1>2, <1>3, <1>4, <1>5, Basics DEF Approvals, UserOf, PlaceOf
  <1> QED
    BY <1>6, <1>7, <1>8, <1>9, <1>10, <1>11

\* Cancel: the stop flag is set, and a turn nobody works on is to end.
LEMMA CancelStep ==
  ASSUME IInv, NEW u \in Users, NEW c \in Chats, Cancel(u, c)
  PROVE  IInv'
  <1> USE DEF IInv
  <1>1. PICK t \in Known : /\ turn[t].chat = c
                           /\ turn' = [turn EXCEPT ![t].stop = TRUE]
                           /\ IF turn[t].state = "writing" THEN Return ELSE ThenEnd(t)
    BY DEF Cancel, TurnIn
  <1>2. /\ pc = "idle" /\ c.user = u /\ active' = u
        /\ UNCHANGED <<nextTurn, workspace, listed, lastWord, pending, run, readers, inbox>>
    BY DEF Cancel
  <1>3. /\ turn' \in [TurnIds -> Turn]
        /\ \A o \in TurnIds : /\ turn'[o].chat = turn[o].chat
                              /\ turn'[o].state = turn[o].state
                              /\ turn'[o].begun = turn[o].begun
                              /\ o # t => turn'[o].stop = turn[o].stop
    BY <1>1, Basics, SetStop, ZenonT(60) DEF TypeOK
  <1>4. Known' = Known
    BY <1>3 DEF Known
  <1>5. /\ job' = job /\ back' = back
        /\ \/ turn[t].state = "writing" /\ pc' = "idle" /\ at' = NoTurn
           \/ turn[t].state # "writing" /\ pc' = "end" /\ at' = t
    BY <1>1 DEF Return, ThenEnd, Become
  <1>6. TypeOK'
    BY <1>2, <1>3, <1>5, Basics DEF TypeOK
  <1>7. Control'
    BY <1>1, <1>2, <1>3, <1>4, <1>5, Basics DEF Control
  <1>8. Line'
    BY <1>1, <1>2, <1>3, <1>4, <1>5, Basics DEF Line, UserOf
  <1>9. Hands'
    <2>1. NoTurn \notin Known /\ at = NoTurn /\ Known \subseteq TurnIds
      BY <1>2, Basics
    <2>2. \A o \in Known : turn'[o].state = turn[o].state
      BY <1>3, <2>1
    <2> QED
      BY <1>2, <1>4, <1>5, <2>1, <2>2, SameHands DEF Hands
  <1>10. Runs'
    BY <1>1, <1>2, <1>3, <1>4, <1>5, Basics DEF Runs, RunIsTheAnswers, UserOf
  <1>11. Approvals'
    BY <1>1, <1>2, <1>3, <1>4, <1>5, Basics DEF Approvals, UserOf, PlaceOf
  <1> QED
    BY <1>6, <1>7, <1>8, <1>9, <1>10, <1>11

\* DeleteConversation: the chat's answer, if any, is to end first.
LEMMA DeleteStep ==
  ASSUME IInv, NEW u \in Users, NEW c \in Chats, DeleteConversation(u, c)
  PROVE  IInv'
  <1> USE DEF IInv
  <1>1. /\ pc = "idle" /\ c.user = u /\ active' = u
        /\ job' = [op |-> "delete", by |-> u, chat |-> c] /\ back' = back
        /\ UNCHANGED <<nextTurn, workspace, listed, lastWord, pending, run, readers, inbox>>
    BY DEF DeleteConversation
  <1>2. \/ pc' = "resume" /\ at' = NoTurn /\ turn' = turn
        \/ \E t \in Known : /\ turn' = [turn EXCEPT ![t].stop = TRUE]
                             /\ pc' = "end" /\ at' = t
    BY DEF DeleteConversation, TurnIn, Become
  <1>3. /\ turn' \in [TurnIds -> Turn]
        /\ \A o \in TurnIds : /\ turn'[o].chat = turn[o].chat
                              /\ turn'[o].state = turn[o].state
                              /\ turn'[o].begun = turn[o].begun
                              /\ o # at' => turn'[o].stop = turn[o].stop
    <2>1. CASE turn' = turn
      BY <2>1 DEF TypeOK
    <2>2. ASSUME NEW t \in Known, turn' = [turn EXCEPT ![t].stop = TRUE], at' = t
          PROVE  <1>3!1 /\ <1>3!2
      BY <2>2, Basics, SetStop, ZenonT(60) DEF TypeOK
    <2> QED
      BY <1>2, <2>1, <2>2
  <1>4. Known' = Known
    BY <1>3 DEF Known
  <1>5. job' \in Job /\ job' # NoJob /\ job'.op = "delete"
    BY <1>1 DEF Job, NoJob
  <1>6. TypeOK'
    BY <1>1, <1>2, <1>3, <1>5, Basics DEF TypeOK
  <1>7. Control'
    BY <1>1, <1>2, <1>3, <1>4, <1>5, Basics DEF Control
  <1>8. Line'
    BY <1>1, <1>2, <1>3, <1>4, Basics DEF Line, UserOf
  <1>9. Hands'
    <2>1. NoTurn \notin Known /\ at = NoTurn /\ Known \subseteq TurnIds
      BY <1>1, Basics
    <2>2. \A o \in Known : turn'[o].state = turn[o].state
      BY <1>3, <2>1
    <2> QED
      BY <1>1, <1>2, <1>4, <2>1, <2>2, SameHands DEF Hands
  <1>10. Runs'
    BY <1>1, <1>2, <1>3, <1>4, Basics DEF Runs, RunIsTheAnswers, UserOf
  <1>11. Approvals'
    BY <1>1, <1>2, <1>3, <1>4, <1>5, Basics DEF Approvals, UserOf, PlaceOf
  <1> QED
    BY <1>6, <1>7, <1>8, <1>9, <1>10, <1>11

\* Every answer in the workspace left is asked to stop; the ones an approval
\* waits for are on the list of those to end.
LEMMA SelectStep ==
  ASSUME IInv, NEW u \in Users, NEW w \in Workspaces, SelectWorkspace(u, w)
  PROVE  IInv'
  <1> DEFINE leaving == {t \in Known : UserOf(t) = u /\ PlaceOf(t) = workspace[u]}
             ids == {t \in leaving : turn[t].state # "writing"}
  <1> USE DEF IInv
  <1>1. /\ pc = "idle" /\ active' = u /\ pc' = "resume" /\ at' = NoTurn /\ back' = back
        /\ job' = [op |-> "leave", by |-> u, ids |-> ids, to |-> w]
        /\ UNCHANGED <<nextTurn, workspace, listed, lastWord, pending, run, readers, inbox>>
        /\ turn' = [t \in TurnIds |->
                      IF t \in leaving THEN [turn[t] EXCEPT !.stop = TRUE] ELSE turn[t]]
    BY DEF SelectWorkspace, Become
  <1>2. /\ turn' \in [TurnIds -> Turn]
        /\ \A o \in TurnIds : /\ turn'[o].chat = turn[o].chat
                              /\ turn'[o].state = turn[o].state
                              /\ turn'[o].begun = turn[o].begun
                              /\ o \notin leaving => turn'[o] = turn[o]
    <2>1. \A r \in Turn : /\ [r EXCEPT !.stop = TRUE] \in Turn
                          /\ [r EXCEPT !.stop = TRUE].chat = r.chat
                          /\ [r EXCEPT !.stop = TRUE].state = r.state
                          /\ [r EXCEPT !.stop = TRUE].begun = r.begun
      BY DEF Turn
    <2> HIDE DEF leaving
    <2> QED
      BY <1>1, <2>1 DEF TypeOK
  <1>3. Known' = Known
    BY <1>2 DEF Known
  <1>4. job' \in Job /\ job' # NoJob /\ job'.op = "leave" /\ job'.by = u /\ job'.ids = ids
    BY <1>1, Basics DEF Job, NoJob
  <1>5. TypeOK'
    BY <1>1, <1>2, <1>4 DEF TypeOK
  <1>6. Control'
    BY <1>1, <1>2, <1>3, <1>4, Basics DEF Control
  <1>7. Line'
    BY <1>1, <1>2, <1>3, Basics DEF Line, UserOf
  <1>8. Hands'
    <2>1. NoTurn \notin Known /\ at = NoTurn /\ Known \subseteq TurnIds
      BY <1>1, Basics
    <2>2. \A o \in Known : turn'[o].state = turn[o].state
      BY <1>2, <2>1
    <2> QED
      BY <1>1, <1>3, <2>1, <2>2, SameHands DEF Hands
  <1>9. Runs'
    BY <1>1, <1>2, <1>3, Basics DEF Runs, RunIsTheAnswers, UserOf
  <1>10. Approvals'
    <2>1. \A v \in Users : \A t \in pending[v] :
            /\ t \in TurnIds /\ t \in Known /\ turn[t].state = "awaitsApproval"
            /\ UserOf(t) = v /\ PlaceOf(t) = workspace[v] /\ ~turn[t].stop
            /\ t \in leaving => t \in ids
      BY <1>1, Basics DEF Approvals
    <2>2. \A t \in pending[u] : t \in ids
      BY <2>1
    <2>3. \A v \in Users : \A t \in pending[v] : turn'[t].stop => t \in ids
      BY <1>2, <2>1
    <2>4. \A t \in TurnIds : UserOf(t)' = UserOf(t) /\ PlaceOf(t)' = PlaceOf(t)
      BY <1>2 DEF UserOf, PlaceOf
    <2>5. \A t \in ids : t \in TurnIds /\ UserOf(t) = u
      BY Basics
    <2>6. \A t \in Known \ {at} : turn[t].state = "awaitsApproval" => t \in pending[UserOf(t)]
      BY DEF Approvals
    <2> HIDE DEF ids, leaving
    <2> QED
      BY <1>1, <1>2, <1>3, <1>4, <2>1, <2>2, <2>3, <2>4, <2>5, <2>6, Basics
      DEF Approvals, UserOf, PlaceOf
  <1> QED
    BY <1>5, <1>6, <1>7, <1>8, <1>9, <1>10

\* The approval is answered once: its turn is back in Core's queue.
LEMMA GrantStep ==
  ASSUME IInv, NEW u \in Users, NEW t \in TurnIds, ApproveGranted(u, t)
  PROVE  IInv'
  <1> USE DEF IInv
  <1>1. /\ t \in Known /\ turn[t].state = "awaitsApproval" /\ UserOf(t) = u
        /\ PlaceOf(t) = workspace[u] /\ ~turn[t].stop /\ InNoHand(t) /\ at = NoTurn
    BY Basics DEF ApproveGranted, Approvals, Hands
  <1>2. /\ pc = "idle" /\ active' = u /\ pending' = [pending EXCEPT ![u] = @ \ {t}]
        /\ RecordCall(t) /\ inbox' = Append(inbox, GoOnMessage(t))
        /\ turn' = [turn EXCEPT ![t].state = "writing"]
        /\ pc' = "idle" /\ at' = NoTurn /\ back' = back /\ job' = job
        /\ UNCHANGED <<nextTurn, workspace, listed, run, readers>>
    BY <1>1 DEF ApproveGranted, Return, Become
  <1>3. /\ turn' \in [TurnIds -> Turn]
        /\ \A o \in TurnIds : /\ turn'[o].chat = turn[o].chat
                              /\ turn'[o].begun = turn[o].begun
                              /\ turn'[o].stop = turn[o].stop
                              /\ o # t => turn'[o] = turn[o]
        /\ turn'[t].state = "writing"
    BY <1>2, SetState DEF TypeOK, Live
  <1>4. Known' = Known
    BY <1>1, <1>3 DEF Known
  <1>5. GoOnMessage(t) \in Message /\ GoOnMessage(t).turn = t
    BY DEF Message, GoOnMessage
  <1>6. /\ inbox' \in Seq(Message) /\ InOneHand(t)'
        /\ \A o \in TurnIds \ {t} : /\ InNoHand(o)' <=> InNoHand(o)
                                    /\ InOneHand(o)' <=> InOneHand(o)
    BY <1>1, <1>2, <1>5, Posted DEF TypeOK, InNoHand
  <1>7. TypeOK'
    BY <1>2, <1>3, <1>6, Basics DEF TypeOK, RecordCall
  <1>8. Control'
    BY <1>1, <1>2, <1>3, <1>4, Basics DEF Control
  <1>9. Line'
    <2>1. \A o \in Known : turn'[o].chat = turn[o].chat
      BY <1>3, Basics
    <2>2. \A o \in Known : turn'[o].state = "waitsForAnotherChat"
                             <=> turn[o].state = "waitsForAnotherChat"
      BY <1>1, <1>3, Basics
    <2> QED
      BY <1>2, <1>4, <2>1, <2>2 DEF Line, UserOf
  <1>10. Hands'
    <2>1. t < nextTurn /\ Known \subseteq TurnIds /\ NoTurn \notin TurnIds
      BY <1>1, Basics
    <2> QED
      BY <1>1, <1>2, <1>3, <1>4, <1>6, <2>1, Basics DEF Hands, TypeOK
  <1>11. Runs'
    BY <1>1, <1>2, <1>3, <1>4, Basics DEF Runs, RunIsTheAnswers, UserOf, Live
  <1>12. Approvals'
    <2>1. /\ \A v \in Users : pending'[v] \subseteq pending[v] /\ t \notin pending'[v]
          /\ \A v \in Users : \A o \in pending[v] : o = t \/ o \in pending'[v]
      BY <1>1, <1>2 DEF TypeOK, Approvals
    <2> QED
      BY <1>1, <1>2, <1>3, <1>4, <2>1, Basics DEF Approvals, UserOf, PlaceOf
  <1> QED
    BY <1>7, <1>8, <1>9, <1>10, <1>11, <1>12

\* A declined approval: the turn, which nobody works on, is to end.
LEMMA DeclineStep ==
  ASSUME IInv, NEW u \in Users, NEW t \in TurnIds, ApproveDeclined(u, t)
  PROVE  IInv'
  <1> USE DEF IInv
  <1>1. /\ t \in Known /\ turn[t].state = "awaitsApproval" /\ UserOf(t) = u
        /\ at = NoTurn /\ NoTurn \notin Known /\ job.op = "none"
    BY Basics DEF ApproveDeclined, Approvals
  <1>2. /\ pc = "idle" /\ active' = u /\ pending' = [pending EXCEPT ![u] = @ \ {t}]
        /\ pc' = "end" /\ at' = t /\ back' = back /\ job' = job
        /\ UNCHANGED <<turn, nextTurn, workspace, listed, lastWord, run, readers, inbox>>
    BY <1>1 DEF ApproveDeclined, ThenEnd, Become
  <1>3. Known' = Known
    BY <1>2 DEF Known
  <1>4. TypeOK'
    BY <1>2, Basics DEF TypeOK
  <1>5. Control'
    BY <1>1, <1>2, <1>3, Basics DEF Control
  <1>6. Line'
    BY <1>2, <1>3 DEF Line, UserOf
  <1>7. Hands'
    BY <1>1, <1>2, <1>3, SameHands DEF Hands
  <1>8. Runs'
    BY <1>2, <1>3 DEF Runs, RunIsTheAnswers, UserOf
  <1>9. Approvals'
    BY <1>1, <1>2, <1>3, Basics DEF TypeOK, Approvals, UserOf, PlaceOf
  <1> QED
    BY <1>4, <1>5, <1>6, <1>7, <1>8, <1>9

\* A step that leaves the turns, the queue and the readers alone, and goes on
\* to end a turn that Core's thread holds, or has just taken in hand.
LEMMA ToEndKeeps ==
  ASSUME IInv, NEW t \in Known, turn' = turn, nextTurn' = nextTurn, run' = run,
         pc' = "end", at' = t, pc # "begin"
  PROVE  Known' = Known /\ Control' /\ Line' /\ Runs'
  <1> USE DEF IInv
  <1>1. Known' = Known
    BY DEF Known
  <1>2. Control'
    BY <1>1, Basics DEF Control
  <1>3. Line'
    BY <1>1 DEF Line, UserOf
  <1>4. Runs'
    BY <1>1 DEF Runs, RunIsTheAnswers, UserOf
  <1> QED
    BY <1>1, <1>2, <1>3, <1>4

\* A model step or a tool call of a turn comes back. The turn is in nobody
\* else's hands, unless it was removed meanwhile.
LEMMA TakeGoneStep ==
  ASSUME IInv, pc = "idle", inbox # <<>>, Head(inbox).turn \notin Known,
         inbox' = Tail(inbox),
         UNCHANGED <<turn, nextTurn, active, workspace, listed, lastWord, pending, run,
                     readers, core>>
  PROVE  IInv'
  <1> DEFINE t == Head(inbox).turn
  <1> USE DEF IInv
  <1>1. t \in TurnIds
    BY DEF TypeOK, Message
  <1> HIDE DEF t
  <1>2. /\ inbox' \in Seq(Message) /\ Queued(inbox, t)
        /\ \A o \in TurnIds \ {t} : /\ InNoHand(o)' <=> InNoHand(o)
                                    /\ InOneHand(o)' <=> InOneHand(o)
    BY <1>1, Taken DEF t
  <1>3. Known' = Known /\ t \notin Known
    BY DEF Known, t
  <1>4. t < nextTurn
    BY <1>1, <1>2, Basics DEF Hands, InNoHand, TypeOK
  <1>5. TypeOK'
    BY <1>2 DEF TypeOK, core
  <1>6. Control'
    BY <1>3 DEF Control, core
  <1>7. Line'
    BY <1>3 DEF Line, UserOf, core
  <1>8. Hands'
    BY <1>1, <1>2, <1>3, <1>4, Basics DEF Hands, core, TypeOK
  <1>9. Runs'
    BY <1>3 DEF Runs, RunIsTheAnswers, UserOf, core
  <1>10. Approvals'
    BY <1>3 DEF Approvals, UserOf, PlaceOf, core
  <1> QED
    BY <1>5, <1>6, <1>7, <1>8, <1>9, <1>10

\* What holds of a turn whose message is first in the queue.
LEMMA TakenTurn ==
  ASSUME IInv, pc = "idle", inbox # <<>>, Head(inbox).turn \in Known
  PROVE  /\ turn[Head(inbox).turn].state = "writing"
         /\ InOneHand(Head(inbox).turn) /\ turn[Head(inbox).turn].begun
         /\ Head(inbox).turn \in TurnIds
  <1> DEFINE t == Head(inbox).turn
  <1> USE DEF IInv
  <1>1. t \in TurnIds /\ t # NoTurn /\ at = NoTurn
    BY Basics
  <1>2. Queued(inbox, t)
    BY <1>1, QueueTail DEF TypeOK
  <1>3. turn[t].state = "writing"
    BY <1>2 DEF Hands, InNoHand
  <1>4. InOneHand(t)
    BY <1>1, <1>3 DEF Hands
  <1>5. turn[t].begun
    BY <1>3 DEF Runs, Live
  <1> QED
    BY <1>1, <1>3, <1>4, <1>5

\* The message is taken and the turn is to end.
LEMMA TakeEndsStep ==
  ASSUME IInv, pc = "idle", inbox # <<>>, NEW t \in Known, t = Head(inbox).turn,
         inbox' = Tail(inbox), turn' = turn, ThenEnd(t), active' = UserOf(t),
         lastWord' \in [Chats -> {"other", "part", "empty"}],
         UNCHANGED <<nextTurn, workspace, listed, pending, run, readers>>
  PROVE  IInv'
  <1> USE DEF IInv
  <1>1. /\ turn[t].state = "writing" /\ t \in TurnIds /\ at = NoTurn /\ job.op = "none"
        /\ UserOf(t) \in Users /\ NoTurn \notin Known /\ t < nextTurn
        /\ nextTurn \in Nat
    BY TakenTurn, Basics DEF TypeOK
  <1>2. pc' = "end" /\ at' = t /\ back' = back /\ job' = job
    BY DEF ThenEnd, Become
  <1>3. Known' = Known /\ Control' /\ Line' /\ Runs'
    BY <1>2, ToEndKeeps
  <1>4. /\ inbox' \in Seq(Message)
        /\ \A o \in TurnIds \ {t} : /\ InNoHand(o)' <=> InNoHand(o)
                                    /\ InOneHand(o)' <=> InOneHand(o)
    BY <1>1, Taken
  <1>5. TypeOK'
    BY <1>1, <1>2, <1>4 DEF TypeOK
  <1>6. Hands'
    BY <1>1, <1>2, <1>3, <1>4, Basics DEF Hands
  <1>7. Approvals'
    BY <1>1, <1>2, <1>3, Basics DEF Approvals, UserOf, PlaceOf
  <1> QED
    BY <1>3, <1>5, <1>6, <1>7

\* The message is taken and the model is asked again.
LEMMA TakeAsksStep ==
  ASSUME IInv, pc = "idle", inbox # <<>>, NEW t \in Known, t = Head(inbox).turn,
         inbox' = Tail(inbox), ThenAsk(t), active' = UserOf(t),
         turn' \in [TurnIds -> Turn],
         \A o \in TurnIds : /\ turn'[o].chat = turn[o].chat
                            /\ turn'[o].state = turn[o].state
                            /\ turn'[o].begun = turn[o].begun
                            /\ turn'[o].stop = turn[o].stop,
         UNCHANGED <<nextTurn, workspace, listed, lastWord, pending, run, readers>>
  PROVE  IInv'
  <1> USE DEF IInv
  <1>1. /\ turn[t].state = "writing" /\ t \in TurnIds /\ at = NoTurn /\ job = NoJob
        /\ job.op = "none" /\ UserOf(t) \in Users /\ InOneHand(t) /\ NoTurn \notin TurnIds
        /\ t < nextTurn
    BY TakenTurn, Basics DEF Control
  <1>2. pc' = "ask" /\ at' = t /\ back' = "idle" /\ job' = job
    BY DEF ThenAsk, Become
  <1>3. Known' = Known
    BY DEF Known
  <1>4. /\ inbox' \in Seq(Message) /\ InNoHand(t)'
        /\ \A o \in TurnIds \ {t} : /\ InNoHand(o)' <=> InNoHand(o)
                                    /\ InOneHand(o)' <=> InOneHand(o)
    BY <1>1, Taken
  <1>5. TypeOK'
    BY <1>1, <1>2, <1>4 DEF TypeOK
  <1>6. Control'
    BY <1>1, <1>2, <1>3, Basics DEF Control
  <1>7. Line'
    BY <1>2, <1>3, Basics DEF Line, UserOf
  <1>8. Hands'
    BY <1>1, <1>2, <1>3, <1>4, Basics DEF Hands
  <1>9. Runs'
    BY <1>2, <1>3, Basics DEF Runs, RunIsTheAnswers, UserOf
  <1>10. Approvals'
    BY <1>1, <1>2, <1>3, Basics DEF Approvals, UserOf, PlaceOf
  <1> QED
    BY <1>5, <1>6, <1>7, <1>8, <1>9, <1>10

\* The message is taken and the turn's next one is posted.
LEMMA TakePostsStep ==
  ASSUME IInv, pc = "idle", inbox # <<>>, NEW t \in Known, t = Head(inbox).turn,
         inbox' = Append(Tail(inbox), GoOnMessage(t)), Return, active' = UserOf(t),
         turn' \in [TurnIds -> Turn],
         \A o \in TurnIds : /\ turn'[o].chat = turn[o].chat
                            /\ turn'[o].state = turn[o].state
                            /\ turn'[o].begun = turn[o].begun
                            /\ turn'[o].stop = turn[o].stop,
         lastWord' \in [Chats -> {"other", "part", "empty"}],
         UNCHANGED <<nextTurn, workspace, listed, pending, run, readers>>
  PROVE  IInv'
  <1> USE DEF IInv
  <1>1. /\ turn[t].state = "writing" /\ t \in TurnIds /\ at = NoTurn /\ job = NoJob
        /\ job.op = "none" /\ UserOf(t) \in Users /\ InOneHand(t) /\ t < nextTurn
    BY TakenTurn, Basics DEF Control
  <1>2. pc' = "idle" /\ at' = NoTurn /\ back' = back /\ job' = job
    BY DEF Return, Become
  <1>3. Known' = Known
    BY DEF Known
  <1>11. \A o \in Known : /\ o \in TurnIds /\ o # NoTurn /\ turn'[o].chat = turn[o].chat
                         /\ turn'[o].state = turn[o].state
                         /\ turn'[o].begun = turn[o].begun /\ turn'[o].stop = turn[o].stop
    BY Basics
  <1>4. /\ inbox' \in Seq(Message) /\ InOneHand(t)'
        /\ \A o \in TurnIds \ {t} : /\ InNoHand(o)' <=> InNoHand(o)
                                    /\ InOneHand(o)' <=> InOneHand(o)
    BY <1>1, Taken
  <1>5. TypeOK'
    BY <1>1, <1>2, <1>4 DEF TypeOK
  <1>6. Control'
    BY <1>1, <1>2, <1>3, Basics DEF Control
  <1>7. Line'
    <2>1. \A o \in Known : UserOf(o)' = UserOf(o)
      BY <1>11 DEF UserOf
    <2> QED
      BY <1>2, <1>3, <1>11, <2>1 DEF Line
  <1>8. Hands'
    <2>1. \A o \in Known : o # t => /\ turn[o].state # "writing" => InNoHand(o)'
                                    /\ turn[o].state = "writing" => InOneHand(o)'
      BY <1>1, <1>4, <1>11 DEF Hands
    <2>2. \A o \in TurnIds : o >= nextTurn => InNoHand(o)'
      BY <1>1, <1>4, Basics DEF Hands, TypeOK
    <2> QED
      BY <1>1, <1>2, <1>3, <1>4, <1>11, <2>1, <2>2 DEF Hands
  <1>9. Runs'
    <2>1. \A o \in Known : UserOf(o)' = UserOf(o)
      BY <1>11 DEF UserOf
    <2>2. \A o \in Known : turn'[o].begun <=> turn'[o].state \in Live
      BY <1>1, <1>11 DEF Runs
    <2>3. \A u \in Users, o \in TurnIds :
            run'[u] = o <=> o \in Known /\ UserOf(o) = u /\ turn[o].begun
      BY DEF Runs, RunIsTheAnswers
    <2>4. RunIsTheAnswers'
      BY <1>2, <1>3, <1>11, <2>1, <2>3 DEF RunIsTheAnswers
    <2> QED BY <1>2, <1>3, <2>2, <2>4 DEF Runs
  <1>10. Approvals'
    BY <1>1, <1>2, <1>3, <1>11, SMTT(40) DEF Approvals, UserOf, PlaceOf
  <1> QED
    BY <1>5, <1>6, <1>7, <1>8, <1>9, <1>10

\* The call is held at the confirmation gate: the turn leaves Core's queue, and
\* its approval is outstanding.
LEMMA TakeAwaitsStep ==
  ASSUME IInv, pc = "idle", inbox # <<>>, NEW t \in Known, t = Head(inbox).turn,
         inbox' = Tail(inbox), Return, active' = UserOf(t),
         turn' \in [TurnIds -> Turn],
         \A o \in TurnIds : /\ turn'[o].chat = turn[o].chat
                            /\ turn'[o].begun = turn[o].begun
                            /\ turn'[o].stop = turn[o].stop
                            /\ o # t => turn'[o] = turn[o],
         turn'[t].state = "awaitsApproval",
         ~turn[t].stop, workspace[UserOf(t)] = PlaceOf(t),
         pending' = [pending EXCEPT ![UserOf(t)] = @ \cup {t}],
         lastWord' \in [Chats -> {"other", "part", "empty"}],
         UNCHANGED <<nextTurn, workspace, listed, run, readers>>
  PROVE  IInv'
  <1> USE DEF IInv
  <1>1. /\ turn[t].state = "writing" /\ t \in TurnIds /\ at = NoTurn /\ job = NoJob
        /\ job.op = "none" /\ UserOf(t) \in Users /\ InOneHand(t) /\ t < nextTurn
    BY TakenTurn, Basics DEF Control
  <1>2. pc' = "idle" /\ at' = NoTurn /\ back' = back /\ job' = job
    BY DEF Return, Become
  <1>3. Known' = Known
    BY <1>1 DEF Known
  <1>4. \A o \in Known : /\ o \in TurnIds /\ o # NoTurn /\ UserOf(o)' = UserOf(o)
                         /\ turn'[o].chat = turn[o].chat
                         /\ turn'[o].begun = turn[o].begun /\ turn'[o].stop = turn[o].stop
                         /\ o # t => turn'[o].state = turn[o].state
    BY Basics DEF UserOf
  <1>5. /\ inbox' \in Seq(Message) /\ InNoHand(t)'
        /\ \A o \in TurnIds \ {t} : /\ InNoHand(o)' <=> InNoHand(o)
                                    /\ InOneHand(o)' <=> InOneHand(o)
    BY <1>1, Taken
  <1>6. TypeOK'
    BY <1>1, <1>2, <1>5 DEF TypeOK
  <1>7. Control'
    BY <1>1, <1>2, <1>3, Basics DEF Control
  <1>8. Line'
    <2>1. \A o \in Known : turn'[o].state = "waitsForAnotherChat"
                             <=> turn[o].state = "waitsForAnotherChat"
      BY <1>1, <1>4
    <2> QED
      BY <1>2, <1>3, <1>4, <2>1 DEF Line
  <1>9. Hands'
    <2>1. \A o \in Known : o # t => /\ turn[o].state # "writing" => InNoHand(o)'
                                    /\ turn[o].state = "writing" => InOneHand(o)'
      BY <1>1, <1>4, <1>5 DEF Hands
    <2>2. \A o \in TurnIds : o >= nextTurn => InNoHand(o)'
      BY <1>1, <1>5, Basics DEF Hands, TypeOK
    <2> QED
      BY <1>1, <1>2, <1>3, <1>4, <1>5, <2>1, <2>2 DEF Hands
  <1>10. Runs'
    <2>1. \A o \in Known : turn[o].begun <=> turn[o].state \in Live
      BY DEF Runs
    <2>2. \A o \in Known : turn'[o].state \in Live <=> turn[o].state \in Live
      BY <1>1, <1>4 DEF Live
    <2> QED
      BY <1>2, <1>3, <1>4, <2>1, <2>2 DEF Runs, RunIsTheAnswers
  <1>11. Approvals'
    <2>1. \A v \in Users : \A o \in pending'[v] : o \in pending[v] \/ (o = t /\ v = UserOf(t))
      BY <1>1 DEF TypeOK
    <2>2. /\ \A v \in Users : pending[v] \subseteq pending'[v]
          /\ t \in pending'[UserOf(t)]
      BY <1>1 DEF TypeOK
    <2>3. \A o \in Known : PlaceOf(o)' = PlaceOf(o)
      BY <1>4 DEF PlaceOf
    <2>4. \A v \in Users : \A o \in pending'[v] :
            /\ o \in Known' /\ turn'[o].state = "awaitsApproval" /\ UserOf(o)' = v
            /\ PlaceOf(o)' = workspace'[v] /\ ~turn'[o].stop
      BY <1>1, <1>3, <1>4, <2>1, <2>3 DEF Approvals
    <2>5. \A o \in Known' \ {at'} :
             turn'[o].state = "awaitsApproval" => o \in pending'[UserOf(o)']
      BY <1>1, <1>2, <1>3, <1>4, <2>2, Basics DEF Approvals
    <2> QED
      BY <1>1, <1>2, <2>4, <2>5 DEF Approvals
  <1> QED
    BY <1>6, <1>7, <1>8, <1>9, <1>10, <1>11

\* TakeReplied, by the ways a model step ends.
LEMMA RepliedStep ==
  ASSUME IInv, TakeReplied
  PROVE  IInv'
  <1> DEFINE t == Head(inbox).turn
             step == Head(inbox).step
  <1> USE DEF IInv
  <1>1. /\ pc = "idle" /\ inbox # <<>> /\ step \in StepEnd
        /\ UNCHANGED <<nextTurn, workspace, listed, pending, run, readers>>
    BY DEF TakeReplied, TypeOK, Message
  <1>2. CASE t \notin Known
    BY <1>1, <1>2, TakeGoneStep DEF TakeReplied
  <1>3. CASE t \in Known
    <2>1. active' = UserOf(t) /\ (RepliedEnds(t, step) \/ RepliedCalls(t, step) \/ RepliedWritten(t, step))
      BY <1>3 DEF TakeReplied
    <2>2. turn \in [TurnIds -> Turn] /\ t \in TurnIds /\ lastWord \in [Chats -> {"other", "part", "empty"}]
      BY <1>3, Basics DEF TypeOK
    <2>3. \A stopped, words \in BOOLEAN :
            Keep(t, stopped, words) => lastWord' \in [Chats -> {"other", "part", "empty"}]
      BY <2>2 DEF Keep, Kept
    <2> HIDE DEF t, step
    <2>4. CASE RepliedEnds(t, step)
      <3>1. lastWord' \in [Chats -> {"other", "part", "empty"}]
        BY <1>1, <2>3, <2>4 DEF RepliedEnds, StepEnd
      <3> QED
        BY <1>1, <1>3, <2>1, <2>4, <3>1, TakeEndsStep DEF RepliedEnds, t
    <2>5. CASE RepliedCalls(t, step)
      <3>1. /\ turn' \in [TurnIds -> Turn]
            /\ \A o \in TurnIds : /\ turn'[o].chat = turn[o].chat
                                  /\ turn'[o].state = turn[o].state
                                  /\ turn'[o].begun = turn[o].begun
                                  /\ turn'[o].stop = turn[o].stop
        BY <1>1, <2>2, <2>5, SetCalls DEF RepliedCalls, StepEnd
      <3> QED
        BY <1>1, <1>3, <2>1, <2>2, <2>5, <3>1, TakePostsStep DEF RepliedCalls, t
    <2>6. CASE RepliedWritten(t, step)
      <3>1. CASE turn[t].refused
        BY <1>1, <1>3, <2>1, <2>3, <2>6, <3>1, TakeEndsStep DEF RepliedWritten, t
      <3>2. CASE ~turn[t].refused
        <4>1. /\ turn' \in [TurnIds -> Turn]
              /\ \A o \in TurnIds : /\ turn'[o].chat = turn[o].chat
                                    /\ turn'[o].state = turn[o].state
                                    /\ turn'[o].begun = turn[o].begun
                                    /\ turn'[o].stop = turn[o].stop
          BY <2>2, <2>6, <3>2, SetRefused DEF RepliedWritten
        <4> QED
          BY <1>1, <1>3, <2>1, <2>6, <3>2, <4>1, TakeAsksStep DEF RepliedWritten, t
      <3> QED
        BY <3>1, <3>2
    <2> QED
      BY <2>1, <2>4, <2>5, <2>6
  <1> QED
    BY <1>2, <1>3

\* TakeGoOn, by what the turn has left to do.
LEMMA GoOnStep ==
  ASSUME IInv, TakeGoOn
  PROVE  IInv'
  <1> DEFINE t == Head(inbox).turn
  <1> USE DEF IInv
  <1>1. /\ pc = "idle" /\ inbox # <<>>
        /\ UNCHANGED <<nextTurn, workspace, listed, run, readers>>
    BY DEF TakeGoOn
  <1>2. CASE t \notin Known
    BY <1>1, <1>2, TakeGoneStep DEF TakeGoOn
  <1>3. CASE t \in Known
    <2>1. active' = UserOf(t) /\ (GoOnStops(t) \/ GoOnAsks(t) \/ GoOnCalls(t))
      BY <1>3 DEF TakeGoOn
    <2>2. turn \in [TurnIds -> Turn] /\ t \in TurnIds /\ lastWord \in [Chats -> {"other", "part", "empty"}]
      BY <1>3, Basics DEF TypeOK
    <2> HIDE DEF t
    <2>3. CASE GoOnStops(t)
      BY <1>1, <1>3, <2>1, <2>2, <2>3, TakeEndsStep DEF GoOnStops, t
    <2>4. CASE GoOnAsks(t)
      <3>1. /\ turn' \in [TurnIds -> Turn]
            /\ \A o \in TurnIds : /\ turn'[o].chat = turn[o].chat
                                  /\ turn'[o].state = turn[o].state
                                  /\ turn'[o].begun = turn[o].begun
                                  /\ turn'[o].stop = turn[o].stop
        BY <2>2, <2>4, SetSteps DEF GoOnAsks
      <3> QED
        BY <1>1, <1>3, <2>1, <2>4, <3>1, TakeAsksStep DEF GoOnAsks, t
    <2>5. CASE GoOnCalls(t)
      <3>1. lastWord' \in [Chats -> {"other", "part", "empty"}]
        BY <2>2, <2>5 DEF GoOnCalls, RecordCall
      <3>2. turn[t].calls - 1 \in 0..MaxCalls
        BY <2>2, <2>5, BoundsAssumption DEF GoOnCalls, Turn
      <3>3. CASE /\ turn' = [turn EXCEPT ![t].calls = @ - 1]
                 /\ inbox' = Append(Tail(inbox), GoOnMessage(t))
                 /\ UNCHANGED pending
        <4>1. /\ turn' \in [TurnIds -> Turn]
              /\ \A o \in TurnIds : /\ turn'[o].chat = turn[o].chat
                                    /\ turn'[o].state = turn[o].state
                                    /\ turn'[o].begun = turn[o].begun
                                    /\ turn'[o].stop = turn[o].stop
          BY <2>2, <3>2, <3>3, SetCalls
        <4> QED
          BY <1>1, <1>3, <2>1, <2>5, <3>1, <3>3, <4>1, TakePostsStep DEF GoOnCalls, t
      <3>4. CASE /\ turn' = [turn EXCEPT ![t].calls = @ - 1, ![t].state = "awaitsApproval"]
                 /\ pending' = [pending EXCEPT ![UserOf(t)] = @ \cup {t}]
                 /\ inbox' = Tail(inbox)
        <4>1. /\ turn' \in [TurnIds -> Turn]
              /\ \A o \in TurnIds : /\ turn'[o].chat = turn[o].chat
                                    /\ turn'[o].begun = turn[o].begun
                                    /\ turn'[o].stop = turn[o].stop
                                    /\ o # t => turn'[o] = turn[o]
              /\ turn'[t].state = "awaitsApproval"
          BY <2>2, <3>2, <3>4, ZenonT(60) DEF Turn, Live
        <4> QED
          BY <1>1, <1>3, <2>1, <2>5, <3>1, <3>4, <4>1, TakeAwaitsStep DEF GoOnCalls, t
      <3> QED
        BY <2>5, <3>3, <3>4 DEF GoOnCalls
    <2> QED
      BY <2>1, <2>3, <2>4, <2>5
  <1> QED
    BY <1>2, <1>3

\* A live turn is its person's only one that is not behind another: nobody who
\* has one has a second, or an approval outstanding for another.
LEMMA OnlyLive ==
  ASSUME IInv, NEW t \in Known, turn[t].state \in Live
  PROVE  /\ \A o \in Known : UserOf(o) = UserOf(t) /\ turn[o].state \in Live => o = t
         /\ \A o \in pending[UserOf(t)] : o = t
  <1> USE DEF IInv
  <1>1. \A o \in Known : UserOf(o) = UserOf(t) /\ turn[o].state \in Live => o = t
    BY Basics DEF Line, Live
  <1>2. \A o \in pending[UserOf(t)] : o \in Known /\ UserOf(o) = UserOf(t) /\ turn[o].state \in Live
    BY Basics DEF Approvals, Live
  <1> QED
    BY <1>1, <1>2

\* begin: the run of a person becomes that of the turn that leaves the line.
LEMMA BeginStep ==
  ASSUME IInv, Begin
  PROVE  IInv'
  <1> DEFINE u == UserOf(at)
  <1> USE DEF IInv
  <1>1. /\ at \in Known /\ at \in TurnIds /\ turn[at].state = "writing" /\ ~turn[at].begun
        /\ u \in Users /\ InNoHand(at)
    <2>1. at \in Known /\ turn[at].state = "writing" /\ pc = "begin"
      BY DEF Begin, Control
    <2> QED
      BY <2>1, Basics DEF Runs, Hands
  <1>2. /\ pc = "begin" /\ pc' = "ask" /\ active' = u /\ turn' = [turn EXCEPT ![at].begun = TRUE]
        /\ run' = [run EXCEPT ![u] = at]
        /\ UNCHANGED <<nextTurn, workspace, listed, lastWord, pending, readers, inbox,
                       at, back, job>>
    BY DEF Begin
  <1>3. /\ turn' \in [TurnIds -> Turn]
        /\ \A o \in TurnIds : /\ turn'[o].chat = turn[o].chat
                              /\ turn'[o].state = turn[o].state
                              /\ turn'[o].stop = turn[o].stop
                              /\ o # at => turn'[o] = turn[o]
        /\ turn'[at].begun
    BY <1>1, <1>2, SetBegun DEF TypeOK
  <1>4. Known' = Known
    BY <1>3 DEF Known
  <1>5. /\ \A o \in Known : UserOf(o) = u /\ turn[o].state \in Live => o = at
        /\ pending[u] = {}
    <2>1. \A o \in pending[u] : o = at
      BY <1>1, OnlyLive DEF Live
    <2>2. at \notin pending[u]
      BY <1>1 DEF Approvals
    <2> QED
      BY <1>1, <2>1, <2>2, OnlyLive DEF Live
  <1>6. TypeOK'
    BY <1>1, <1>2, <1>3 DEF TypeOK
  <1>7. Control'
    BY <1>1, <1>2, <1>3, <1>4, Basics DEF Control
  <1>8. Line'
    <2>1. \A o \in Known : turn'[o].chat = turn[o].chat /\ turn'[o].state = turn[o].state
      BY <1>3, Basics
    <2> QED
      BY <1>2, <1>4, <2>1 DEF Line, UserOf
  <1>9. Hands'
    <2>1. \A o \in Known : turn'[o].state = turn[o].state
      BY <1>3, Basics
    <2> QED
      BY <1>1, <1>2, <1>4, <2>1, SameHands DEF Hands
  <1>10. Runs'
    <2>1. \A o \in TurnIds : UserOf(o)' = UserOf(o)
      BY <1>3 DEF UserOf
    <2>2. \A o \in Known : turn'[o].begun <=> turn[o].state \in Live
      BY <1>1, <1>2, <1>3, Basics DEF Runs, Live
    <2>3. \A v \in Users, o \in TurnIds :
            run'[v] = o <=> o \in Known /\ UserOf(o) = v /\ turn'[o].begun
      <3>1. \A o \in TurnIds : run'[u] = o <=> o = at
        BY <1>1, <1>2 DEF TypeOK
      <3>2. \A o \in TurnIds : o \in Known /\ UserOf(o) = u /\ turn'[o].begun <=> o = at
        BY <1>1, <1>3, <1>5, <2>2
      <3>3. \A v \in Users \ {u} : run'[v] = run[v]
        BY <1>2 DEF TypeOK
      <3>4. \A v \in Users \ {u}, o \in TurnIds :
              run[v] = o <=> o \in Known /\ UserOf(o) = v /\ turn'[o].begun
        BY <1>1, <1>2, <1>3, Basics DEF Runs, RunIsTheAnswers
      <3> QED
        BY <1>1, <3>1, <3>2, <3>3, <3>4
    <2>4. \A o \in Known : o \in TurnIds /\ turn'[o].state = turn[o].state
      BY <1>3, Basics
    <2> QED
      BY <1>2, <1>4, <2>1, <2>2, <2>3, <2>4 DEF Runs, RunIsTheAnswers
  <1>11. Approvals'
    <2>1. \A o \in Known : /\ turn'[o].chat = turn[o].chat /\ turn'[o].state = turn[o].state
                           /\ turn'[o].stop = turn[o].stop
      BY <1>3, Basics
    <2> QED
      BY <1>1, <1>2, <1>4, <1>5, <2>1, Basics DEF Approvals, UserOf, PlaceOf
  <1> QED
    BY <1>6, <1>7, <1>8, <1>9, <1>10, <1>11

\* ask_the_model, refused: the turn Core's thread holds is to end.
LEMMA AskEndsStep ==
  ASSUME IInv, AskEnds
  PROVE  IInv'
  <1> USE DEF IInv
  <1>1. /\ pc = "ask" /\ pc' = "end" /\ at' = at /\ back' = back /\ job' = job
        /\ UNCHANGED <<turn, nextTurn, active, workspace, listed, lastWord, pending, run,
                       readers, inbox>>
    BY DEF AskEnds, ThenEnd, Become
  <1>2. at \in Known /\ turn[at].state = "writing"
    BY <1>1 DEF Control
  <1>3. Known' = Known /\ Control' /\ Line' /\ Runs'
    BY <1>1, <1>2, ToEndKeeps
  <1>4. TypeOK'
    BY <1>1 DEF TypeOK
  <1>5. Hands'
    BY <1>1, <1>3, SameHands DEF Hands
  <1>6. Approvals'
    BY <1>1, <1>2, <1>3 DEF Approvals, UserOf, PlaceOf, Live
  <1> QED
    BY <1>3, <1>4, <1>5, <1>6

\* The model is asked: the turn goes from Core's thread to one reading thread.
LEMMA AskStep ==
  ASSUME IInv, AskTheModel
  PROVE  IInv'
  <1> USE DEF IInv
  <1>1. /\ pc = "ask" /\ pc' = back /\ at' = NoTurn /\ back' = "idle" /\ job' = job
        /\ readers' = [readers EXCEPT ![at] = @ + 1]
        /\ UNCHANGED <<nextTurn, active, workspace, listed, pending, run, inbox>>
        /\ \/ /\ turn' = [turn EXCEPT ![at].continuing = FALSE]
              /\ lastWord' = [lastWord EXCEPT ![turn[at].chat] = "other"]
           \/ UNCHANGED <<turn, lastWord>>
    BY DEF AskTheModel, Become
  <1>2. /\ at \in Known /\ at \in TurnIds /\ turn[at].state = "writing" /\ InNoHand(at)
        /\ at < nextTurn /\ NoTurn \notin TurnIds
    <2>1. at \in Known /\ turn[at].state = "writing"
      BY <1>1 DEF Control
    <2> QED
      BY <1>1, <2>1, Basics DEF Hands
  <1>3. /\ turn' \in [TurnIds -> Turn]
        /\ \A o \in TurnIds : /\ turn'[o].chat = turn[o].chat
                              /\ turn'[o].state = turn[o].state
                              /\ turn'[o].begun = turn[o].begun
                              /\ turn'[o].stop = turn[o].stop
    <2>1. CASE turn' = [turn EXCEPT ![at].continuing = FALSE]
      BY <1>2, <2>1, SetContinuing DEF TypeOK
    <2>2. CASE turn' = turn
      BY <2>2 DEF TypeOK
    <2> QED
      BY <1>1, <2>1, <2>2
  <1>4. Known' = Known /\ Known \subseteq TurnIds
    BY <1>3, Basics DEF Known
  <1>5. /\ \A o \in TurnIds : o = at => InOneHand(o)'
        /\ \A o \in TurnIds : o # at => /\ InNoHand(o)' <=> InNoHand(o)
                                        /\ InOneHand(o)' <=> InOneHand(o)
    <2>1. readers'[at] = 1 /\ \A o \in TurnIds : o # at => readers'[o] = readers[o]
      BY <1>1, <1>2 DEF TypeOK, InNoHand
    <2> QED
      BY <1>1, <1>2, <2>1 DEF InNoHand, InOneHand, Queued, QueuedOnce
  <1>6. TypeOK' /\ pc' \in {"idle", "schedule"} /\ (pc' = "idle" => back = "idle")
    <2>1. back \in {"idle", "schedule"} /\ readers' \in [TurnIds -> Nat]
      BY <1>1, <1>2 DEF TypeOK
    <2>2. lastWord' \in [Chats -> {"other", "part", "empty"}]
      BY <1>1 DEF TypeOK
    <2> QED
      BY <1>1, <1>3, <2>1, <2>2 DEF TypeOK
  <1>7. Control'
    <2>1. pc' = "idle" => job' = NoJob
      BY <1>1, <1>6 DEF Control
    <2>2. \A o \in TurnIds : o >= nextTurn' => o \notin Known'
      BY <1>1, <1>4 DEF Control
    <2> QED
      BY <1>1, <1>6, <2>1, <2>2 DEF Control
  <1>8. Line'
    <2>1. \A o \in Known : turn'[o].chat = turn[o].chat /\ turn'[o].state = turn[o].state
      BY <1>3, <1>4
    <2> QED
      BY <1>1, <1>4, <1>6, <2>1 DEF Line, UserOf
  <1>9. Hands'
    <2>1. \A o \in Known : turn'[o].state = turn[o].state
      BY <1>3, <1>4
    <2>2. pc' \notin {"begin", "ask"}
      BY <1>1 DEF TypeOK
    <2>3. \A o \in TurnIds : o >= nextTurn => o # at
      BY <1>2, Basics DEF TypeOK
    <2> QED
      BY <1>1, <1>2, <1>4, <1>5, <2>1, <2>2, <2>3 DEF Hands
  <1>10. Runs'
    <2>1. \A o \in TurnIds : UserOf(o)' = UserOf(o)
      BY <1>3 DEF UserOf
    <2>2. pc' # "begin" /\ pc # "begin"
      BY <1>1 DEF TypeOK
    <2> QED
      BY <1>1, <1>3, <1>4, <2>1, <2>2 DEF Runs, RunIsTheAnswers
  <1>11. Approvals'
    <2>1. \A o \in Known : /\ turn'[o].chat = turn[o].chat /\ turn'[o].state = turn[o].state
                           /\ turn'[o].stop = turn[o].stop
      BY <1>3, <1>4
    <2>2. pc' # "end" /\ pc # "end" /\ at' = NoTurn
      BY <1>1 DEF TypeOK
    <2> QED
      BY <1>1, <1>2, <1>4, <2>1, <2>2 DEF Approvals, UserOf, PlaceOf
  <1> QED
    BY <1>6, <1>7, <1>8, <1>9, <1>10, <1>11

\* The turn is removed: what was its person's, its approval and its run, goes
\* with it, and nobody else's does.
LEMMA EndStep ==
  ASSUME IInv, End
  PROVE  IInv'
  <1> DEFINE u == UserOf(at)
  <1> USE DEF IInv
  <1>1. /\ pc = "end" /\ at \in Known /\ at \in TurnIds /\ u \in Users /\ at < nextTurn
    <2>1. pc = "end" /\ at \in Known
      BY DEF End, Control
    <2> QED
      BY <2>1, Basics
  <1>2. /\ pc' = "schedule" /\ at' = NoTurn /\ back' = back /\ job' = job /\ active' = u
        /\ turn' = [turn EXCEPT ![at] = Vacant]
        /\ pending' = [pending EXCEPT ![u] = @ \ {at}]
        /\ run' = [run EXCEPT ![u] = IF turn[at].begun THEN NoTurn ELSE @]
        /\ UNCHANGED <<nextTurn, workspace, listed, lastWord, readers, inbox>>
    BY DEF End, Become
  <1>3. /\ turn' \in [TurnIds -> Turn] /\ turn'[at].state = "none"
        /\ \A o \in TurnIds : o # at => turn'[o] = turn[o]
    BY <1>1, <1>2, VacantIsATurn DEF TypeOK
  <1>4. /\ Known' = Known \ {at} /\ Known \subseteq TurnIds /\ NoTurn \notin TurnIds
        /\ \A o \in Known' : turn'[o] = turn[o]
    BY <1>1, <1>3, Basics DEF Known
  <1>5. TypeOK'
    BY <1>1, <1>2, <1>3 DEF TypeOK, NoTurn
  <1>6. Control'
    BY <1>1, <1>2, <1>4 DEF Control
  <1>7. Line'
    BY <1>2, <1>4 DEF Line, UserOf
  <1>8. Hands'
    BY <1>1, <1>2, <1>4, SameHands DEF Hands
  <1>9. Runs'
    <2>1. \A o \in Known' : turn'[o].begun <=> turn'[o].state \in Live
      BY <1>1, <1>4 DEF Runs
    <2>2. \A v \in Users, o \in TurnIds :
            run[v] = o <=> o \in Known /\ UserOf(o) = v /\ turn[o].begun
      BY <1>1 DEF Runs, RunIsTheAnswers
    <2>3. \A v \in Users, o \in TurnIds :
            run'[v] = o <=> o \in Known \ {at} /\ UserOf(o) = v /\ turn[o].begun
      <3>1. \A v \in Users : v # u => run'[v] = run[v]
        BY <1>2 DEF TypeOK
      <3>2. CASE turn[at].begun
        <4>1. run'[u] = NoTurn /\ run[u] = at
          BY <1>1, <1>2, <2>2, <3>2 DEF TypeOK
        <4> QED
          BY <1>1, <1>4, <2>2, <3>1, <4>1
      <3>3. CASE ~turn[at].begun
        <4>1. run'[u] = run[u]
          BY <1>1, <1>2, <3>3 DEF TypeOK
        <4> QED
          BY <1>1, <2>2, <3>1, <3>3, <4>1
      <3> QED
        BY <3>2, <3>3
    <2>4. \A o \in Known' : UserOf(o)' = UserOf(o)
      BY <1>4 DEF UserOf
    <2> QED
      BY <1>2, <1>4, <2>1, <2>3, <2>4 DEF Runs, RunIsTheAnswers
  <1>10. Approvals'
    <2>1. /\ \A v \in Users : pending'[v] = pending[v] \ {at}
      BY <1>1, <1>2 DEF TypeOK, Approvals
    <2>2. \A o \in Known' : UserOf(o)' = UserOf(o) /\ PlaceOf(o)' = PlaceOf(o)
      BY <1>4 DEF UserOf, PlaceOf
    <2>3. /\ \A v \in Users : \A t \in pending'[v] :
               /\ t \in Known' /\ turn'[t].state = "awaitsApproval" /\ UserOf(t)' = v
               /\ PlaceOf(t)' = workspace'[v]
               /\ turn'[t].stop => job'.op = "leave" /\ t \in job'.ids
      BY <1>1, <1>2, <1>4, <2>1, <2>2 DEF Approvals
    <2>4. \A t \in Known' : turn'[t].state = "awaitsApproval" => t \in pending'[UserOf(t)']
      BY <1>1, <1>4, <2>1, <2>2, Basics DEF Approvals
    <2>5. ASSUME job.op = "leave"
          PROVE  /\ \A t \in pending'[job.by] : t \in job.ids
                 /\ u # job.by => pending'[u] = {}
                 /\ \A t \in job.ids \cap Known' : UserOf(t)' = job.by
      <3>1. job.by \in Users
        BY <2>5 DEF TypeOK, Job
      <3>2. \A t \in pending'[job.by] : t \in job.ids
        BY <1>1, <2>1, <2>5, <3>1 DEF Approvals
      <3>3. ASSUME u # job.by
            PROVE  pending'[u] = {}
        <4>1. turn[at].state \in Live
          BY <1>1, <2>5, <3>3 DEF Approvals
        <4> QED
          BY <1>1, <2>1, <4>1, OnlyLive
      <3> QED
        BY <1>4, <2>2, <2>5, <3>2, <3>3 DEF Approvals
    <2> QED
      BY <1>2, <2>3, <2>4, <2>5 DEF Approvals
  <1> QED
    BY <1>5, <1>6, <1>7, <1>8, <1>9, <1>10

\* Whoever is moved by schedule has no live answer, and so no approval.
LEMMA MovableFree ==
  ASSUME IInv, NEW t \in Movable
  PROVE  /\ t \in Known /\ turn[t].state \in Waiting
         /\ WhereItGoes(t, UserOf(t)) # turn[t].state
         /\ pending[UserOf(t)] = {}
         /\ \A o \in Known : UserOf(o) = UserOf(t) => t <= o
  <1> USE DEF IInv
  <1>1. /\ t \in Known /\ turn[t].state \in Waiting
        /\ WhereItGoes(t, UserOf(t)) # turn[t].state
    BY DEF Movable
  <1>2. WhereItGoes(t, UserOf(t)) # "waitsForAnotherChat"
    BY <1>1, WhereItGoesValues DEF Line
  <1>3. \A o \in Known : UserOf(o) = UserOf(t) => t <= o
    BY <1>1, <1>2, WhereItGoesValues, Basics
  <1>4. pending[UserOf(t)] = {}
    <2>1. ASSUME NEW o \in pending[UserOf(t)]
          PROVE  FALSE
      <3>1. o \in Known /\ UserOf(o) = UserOf(t) /\ turn[o].state = "awaitsApproval"
        BY <1>1, Basics DEF Approvals
      <3>2. o # t /\ t < o
        BY <1>1, <1>3, <3>1, Basics DEF Waiting
      <3> QED
        BY <1>1, <3>1, <3>2 DEF Line
    <2> QED
      BY <2>1
  <1> QED
    BY <1>1, <1>3, <1>4

\* schedule moves its first movable turn: the line stays as where_it_goes says.
LEMMA ScheduleStep ==
  ASSUME IInv, ScheduleNext
  PROVE  IInv'
  <1> USE DEF IInv
  <1>1. PICK t \in Movable :
          /\ active' = UserOf(t)
          /\ turn' = [turn EXCEPT ![t].state = WhereItGoes(t, UserOf(t))]
          /\ IF WhereItGoes(t, UserOf(t)) = "writing"
             THEN pc' = "begin" /\ at' = t /\ back' = "schedule"
             ELSE UNCHANGED <<pc, at, back>>
    BY DEF ScheduleNext, Become
  <1> DEFINE s == WhereItGoes(t, UserOf(t))
  <1>2. /\ pc = "schedule" /\ at = NoTurn
        /\ UNCHANGED <<nextTurn, workspace, listed, lastWord, pending, run, readers, inbox, job>>
    BY DEF ScheduleNext, Control
  <1>3. /\ t \in Known /\ t \in TurnIds /\ UserOf(t) \in Users /\ t # NoTurn
        /\ turn[t].state \in Waiting /\ pending[UserOf(t)] = {}
        /\ \A o \in Known : UserOf(o) = UserOf(t) => t <= o
        /\ s \in Waiting \cup Live /\ s # "awaitsApproval" /\ s # "none"
        /\ s # "waitsForAnotherChat" /\ t < nextTurn
    <2>1. /\ t \in Known /\ turn[t].state \in Waiting /\ pending[UserOf(t)] = {}
          /\ \A o \in Known : UserOf(o) = UserOf(t) => t <= o
      BY MovableFree
    <2>2. s \in Waiting \cup Live /\ s # "awaitsApproval" /\ s # "none"
      BY WhereItGoesValues DEF Waiting, Live
    <2>3. s # "waitsForAnotherChat"
      BY <2>1, WhereItGoesValues, Basics
    <2> QED
      BY <2>1, <2>2, <2>3, Basics
  <1> HIDE DEF s
  <1>4. /\ turn' \in [TurnIds -> Turn]
        /\ \A o \in TurnIds : /\ turn'[o].chat = turn[o].chat
                              /\ turn'[o].begun = turn[o].begun
                              /\ turn'[o].stop = turn[o].stop
                              /\ o # t => turn'[o] = turn[o]
        /\ turn'[t].state = s
    BY <1>1, <1>3, SetState DEF TypeOK, s
  <1>5. Known' = Known /\ Known \subseteq TurnIds /\ NoTurn \notin TurnIds
    BY <1>3, <1>4, Basics DEF Known
  <1>6. \/ s = "writing" /\ pc' = "begin" /\ at' = t /\ back' = "schedule"
        \/ s # "writing" /\ pc' = pc /\ at' = at /\ back' = back
    BY <1>1 DEF s
  <1>7. TypeOK'
    BY <1>1, <1>2, <1>3, <1>4, <1>6 DEF TypeOK
  <1>8. Control'
    BY <1>2, <1>3, <1>4, <1>5, <1>6 DEF Control
  <1>9. Line'
    <2>1. \A o \in Known : turn'[o].chat = turn[o].chat /\ UserOf(o)' = UserOf(o)
      BY <1>4, <1>5 DEF UserOf
    <2>2. \A o, p \in Known : p < o /\ UserOf(p) = UserOf(o)
                                => turn'[o].state = "waitsForAnotherChat"
      <3>1. TAKE o, p \in Known
      <3>2. HAVE p < o /\ UserOf(p) = UserOf(o)
      <3>3. o # t
        BY <1>3, <3>2, Basics
      <3> QED
        BY <1>4, <1>5, <3>2, <3>3 DEF Line
    <2> QED
      BY <1>2, <1>5, <1>6, <2>1, <2>2 DEF Line
  <1>10. Hands'
    <2>1. \A o \in Known : o # t => turn'[o].state = turn[o].state
      BY <1>4, <1>5
    <2>2. InNoHand(t)
      BY <1>3 DEF Hands, Waiting
    <2> QED
      BY <1>2, <1>3, <1>4, <1>5, <1>6, <2>1, <2>2, SameHands DEF Hands
  <1>11. Runs'
    <2>1. \A o \in TurnIds : UserOf(o)' = UserOf(o) /\ turn'[o].begun = turn[o].begun
      BY <1>4 DEF UserOf
    <2>2. ~turn[t].begun
      BY <1>3 DEF Runs, Live, Waiting
    <2>3. \A o \in Known : o # t => turn'[o].state = turn[o].state
      BY <1>4, <1>5
    <2>4. turn'[t].state \in Live <=> s = "writing"
      BY <1>3, <1>4 DEF Live
    <2> QED
      BY <1>2, <1>3, <1>5, <1>6, <2>1, <2>2, <2>3, <2>4 DEF Runs, RunIsTheAnswers
  <1>12. Approvals'
    <2>1. \A o \in Known : /\ UserOf(o)' = UserOf(o) /\ PlaceOf(o)' = PlaceOf(o)
                           /\ turn'[o].stop = turn[o].stop
                           /\ o # t => turn'[o].state = turn[o].state
      BY <1>4, <1>5 DEF UserOf, PlaceOf
    <2>2. \A v \in Users : t \notin pending[v]
      BY <1>3 DEF Approvals, Waiting
    <2>3. pc' # "end" /\ pc # "end"
      BY <1>2, <1>6
    <2> QED
      BY <1>1, <1>2, <1>3, <1>4, <1>5, <2>1, <2>2, <2>3 DEF Approvals
  <1> QED
    BY <1>7, <1>8, <1>9, <1>10, <1>11, <1>12

\* schedule has nothing left to move: every waiting turn stands where it should.
LEMMA ScheduleDoneStep ==
  ASSUME IInv, ScheduleDone
  PROVE  IInv'
  <1> USE DEF IInv
  <1>1. /\ pc = "schedule" /\ Movable = {} /\ at = NoTurn
        /\ pc' = IF job.op = "none" THEN "idle" ELSE "resume"
        /\ UNCHANGED <<turn, nextTurn, active, workspace, listed, lastWord, pending, run,
                       readers, inbox, at, back, job>>
    BY DEF ScheduleDone, Control
  <1>2. Known' = Known
    BY <1>1 DEF Known
  <1>3. job.op = "none" <=> job = NoJob
    BY DEF TypeOK, Job, NoJob
  <1>4. \A t \in Known : turn[t].state = "waitsForAnotherChat"
                           => \E o \in Known : o < t /\ UserOf(o) = UserOf(t)
    <2>1. TAKE t \in Known
    <2>2. HAVE turn[t].state = "waitsForAnotherChat"
    <2>3. WhereItGoes(t, UserOf(t)) = "waitsForAnotherChat"
      BY <1>1, <2>2 DEF Movable, Waiting
    <2> QED
      BY <2>3, WhereItGoesValues
  <1>5. TypeOK'
    BY <1>1 DEF TypeOK
  <1>6. Control'
    BY <1>1, <1>2, <1>3 DEF Control
  <1>7. Line'
    BY <1>1, <1>2, <1>4 DEF Line, UserOf
  <1>8. Hands'
    BY <1>1, <1>2, SameHands DEF Hands
  <1>9. Runs'
    BY <1>1, <1>2 DEF Runs, RunIsTheAnswers, UserOf
  <1>10. Approvals'
    BY <1>1, <1>2 DEF Approvals, UserOf, PlaceOf
  <1> QED
    BY <1>5, <1>6, <1>7, <1>8, <1>9, <1>10

\* stop_on_leaving ends the next turn of its list.
LEMMA LeaveEndsStep ==
  ASSUME IInv, LeaveEndsNext
  PROVE  IInv'
  <1> USE DEF IInv
  <1>1. PICK t \in job.ids : /\ job' = [job EXCEPT !.ids = @ \ {t}]
                             /\ IF t \in Known THEN pc' = "end" /\ at' = t
                                               ELSE UNCHANGED <<pc, at>>
    BY DEF LeaveEndsNext, Become
  <1>2. /\ pc = "resume" /\ at = NoTurn /\ job.op = "leave"
        /\ UNCHANGED <<turn, nextTurn, active, workspace, listed, lastWord, pending, run,
                       readers, inbox, back>>
    BY DEF LeaveEndsNext, Control
  <1>3. /\ job' \in Job /\ job'.op = "leave" /\ job' # NoJob
        /\ job'.by = job.by /\ job'.ids = job.ids \ {t} /\ job.by \in Users
        /\ t \in TurnIds
    BY <1>1, <1>2 DEF TypeOK, Job, NoJob
  <1>4. Known' = Known /\ NoTurn \notin Known
    BY <1>2, Basics DEF Known
  <1>5. \/ t \in Known /\ pc' = "end" /\ at' = t
        \/ t \notin Known /\ pc' = "resume" /\ at' = NoTurn
    BY <1>1, <1>2
  <1>6. TypeOK'
    BY <1>2, <1>3, <1>5 DEF TypeOK
  <1>7. Control'
    BY <1>2, <1>3, <1>4, <1>5 DEF Control
  <1>8. Line'
    BY <1>2, <1>4, <1>5 DEF Line, UserOf
  <1>9. Hands'
    BY <1>2, <1>4, <1>5, SameHands DEF Hands
  <1>10. Runs'
    BY <1>2, <1>4, <1>5 DEF Runs, RunIsTheAnswers, UserOf
  <1>11. Approvals'
    <2>1. \A o : UserOf(o)' = UserOf(o) /\ PlaceOf(o)' = PlaceOf(o)
      BY <1>2 DEF UserOf, PlaceOf
    <2>2. \A v \in Users : \A o \in pending[v] : o = t => pc' = "end" /\ at' = t
      BY <1>5 DEF Approvals
    <2>3. pc' = "end" => UserOf(t) = job.by
      BY <1>2, <1>5 DEF Approvals
    <2>4. \A v \in Users : \A o \in pending[v] :
             turn[o].stop => o \in job'.ids \/ (pc' = "end" /\ at' = o)
      BY <1>2, <1>3, <2>2 DEF Approvals
    <2>5. \A o \in pending[job.by] : o \in job'.ids \/ (pc' = "end" /\ at' = o)
      BY <1>2, <1>3, <2>2 DEF Approvals
    <2>6. \A o \in job'.ids \cap Known : UserOf(o) = job.by
      BY <1>2, <1>3 DEF Approvals
    <2>7. (pc = "end" => UserOf(at) = job.by)'
      BY <1>3, <1>5, <2>3, <1>2 DEF UserOf
    <2> QED
      BY <1>2, <1>3, <1>4, <1>5, <2>1, <2>4, <2>5, <2>6, <2>7 DEF Approvals
  <1> QED
    BY <1>6, <1>7, <1>8, <1>9, <1>10, <1>11

\* Whoever is active by now is moved: they have no approval outstanding.
LEMMA LeaveTailStep ==
  ASSUME IInv, LeaveTail
  PROVE  IInv'
  <1> USE DEF IInv
  <1>1. /\ pc = "resume" /\ job.op = "leave" /\ job.ids = {} /\ at = NoTurn
        /\ workspace' = [workspace EXCEPT ![active] = job.to]
        /\ pc' = "idle" /\ at' = NoTurn /\ job' = NoJob
        /\ UNCHANGED <<turn, nextTurn, active, listed, lastWord, pending, run, readers,
                       inbox, back>>
    BY DEF LeaveTail, Become, Control
  <1>2. Known' = Known
    BY <1>1 DEF Known
  <1>3. job.to \in Workspaces /\ NoJob \in Job /\ NoJob.op = "none"
    BY <1>1 DEF TypeOK, Job, NoJob
  <1>4. active \in Users /\ pending[active] = {}
    BY <1>1 DEF TypeOK, Approvals
  <1>5. TypeOK'
    BY <1>1, <1>3 DEF TypeOK
  <1>6. Control'
    BY <1>1, <1>2 DEF Control
  <1>7. Line'
    BY <1>1, <1>2 DEF Line, UserOf
  <1>8. Hands'
    BY <1>1, <1>2, SameHands DEF Hands
  <1>9. Runs'
    BY <1>1, <1>2 DEF Runs, RunIsTheAnswers, UserOf
  <1>10. Approvals'
    <2>1. \A v \in Users : v # active => workspace'[v] = workspace[v]
      BY <1>1 DEF TypeOK
    <2>2. \A o : UserOf(o)' = UserOf(o) /\ PlaceOf(o)' = PlaceOf(o)
      BY <1>1 DEF UserOf, PlaceOf
    <2> QED
      BY <1>1, <1>2, <1>3, <1>4, <2>1, <2>2 DEF Approvals
  <1> QED
    BY <1>5, <1>6, <1>7, <1>8, <1>9, <1>10

\* The chat is dropped from the list: no turn is touched.
LEMMA DeleteTailStep ==
  ASSUME IInv, DeleteTail
  PROVE  IInv'
  <1> USE DEF IInv
  <1>1. /\ pc = "resume" /\ job.op = "delete" /\ at = NoTurn /\ listed' \subseteq listed
        /\ pc' = "idle" /\ at' = NoTurn /\ job' = NoJob
        /\ UNCHANGED <<turn, nextTurn, active, workspace, lastWord, pending, run, readers,
                       inbox, back>>
    BY DEF DeleteTail, Become, Control
  <1>2. Known' = Known /\ NoJob \in Job /\ NoJob.op = "none"
    BY <1>1 DEF Known, Job, NoJob
  <1>3. TypeOK'
    BY <1>1, <1>2 DEF TypeOK
  <1>4. Control'
    BY <1>1, <1>2 DEF Control
  <1>5. Line'
    BY <1>1, <1>2 DEF Line, UserOf
  <1>6. Hands'
    BY <1>1, <1>2, SameHands DEF Hands
  <1>7. Runs'
    BY <1>1, <1>2 DEF Runs, RunIsTheAnswers, UserOf
  <1>8. Approvals'
    BY <1>1, <1>2 DEF Approvals, UserOf, PlaceOf
  <1> QED
    BY <1>3, <1>4, <1>5, <1>6, <1>7, <1>8

\* A model step ends: its turn goes from the reading thread to Core's queue.
LEMMA ReaderStep ==
  ASSUME IInv, NEW t \in TurnIds, ReaderEnds(t)
  PROVE  IInv'
  <1> USE DEF IInv
  <1>1. PICK e \in StepEnds(t) :
          /\ inbox' = Append(inbox, Replied(t, e))
          /\ turn' = IF e.how = "repeated" THEN [turn EXCEPT ![t].stop = TRUE] ELSE turn
    BY DEF ReaderEnds
  <1>2. /\ readers[t] > 0 /\ readers' = [readers EXCEPT ![t] = @ - 1]
        /\ UNCHANGED <<nextTurn, active, workspace, listed, lastWord, pending, run, core>>
    BY DEF ReaderEnds
  <1>3. pc' = pc /\ at' = at /\ back' = back /\ job' = job
    BY <1>2 DEF core
  <1>4. Replied(t, e) \in Message /\ Replied(t, e).turn = t
    BY DEF Replied, Message, StepEnds
  <1>5. /\ readers' \in [TurnIds -> Nat] /\ readers'[t] = readers[t] - 1
        /\ \A o \in TurnIds \ {t} : readers'[o] = readers[o]
    BY <1>2 DEF TypeOK
  <1>6. /\ inbox' \in Seq(Message)
        /\ \A o \in TurnIds \ {t} : /\ InNoHand(o)' <=> InNoHand(o)
                                    /\ InOneHand(o)' <=> InOneHand(o)
        /\ readers'[t] = 0 /\ ~Queued(inbox, t) => InOneHand(t)'
    BY <1>1, <1>4, <1>5, Posted
  <1>7. ~InNoHand(t) /\ (InOneHand(t) => InOneHand(t)')
    BY <1>2, <1>5, <1>6 DEF InNoHand, InOneHand
  <1>8. /\ turn' \in [TurnIds -> Turn]
        /\ \A o \in TurnIds : /\ turn'[o].chat = turn[o].chat
                              /\ turn'[o].state = turn[o].state
                              /\ turn'[o].begun = turn[o].begun
                              /\ o # t => turn'[o] = turn[o]
    <2>1. CASE turn' = [turn EXCEPT ![t].stop = TRUE]
      BY <2>1, SetStop DEF TypeOK
    <2>2. CASE turn' = turn
      BY <2>2 DEF TypeOK
    <2> QED
      BY <1>1, <2>1, <2>2
  <1>9. Known' = Known /\ Known \subseteq TurnIds
    BY <1>8, Basics DEF Known
  <1>10. \A o \in Known : /\ turn'[o].chat = turn[o].chat /\ turn'[o].state = turn[o].state
                          /\ turn'[o].begun = turn[o].begun
                          /\ UserOf(o)' = UserOf(o) /\ PlaceOf(o)' = PlaceOf(o)
                          /\ o # t => turn'[o].stop = turn[o].stop
    BY <1>8, <1>9 DEF UserOf, PlaceOf
  <1>11. t \in Known => turn[t].state = "writing"
    BY <1>7 DEF Hands
  <1>12. TypeOK'
    BY <1>2, <1>3, <1>5, <1>6, <1>8 DEF TypeOK
  <1>13. Control'
    BY <1>2, <1>3, <1>8, <1>9, <1>10 DEF Control
  <1>14. Line'
    BY <1>3, <1>9, <1>10 DEF Line
  <1>15. Hands'
    <2>1. \A o \in Known : turn[o].state # "writing" => InNoHand(o)'
      BY <1>6, <1>9, <1>11 DEF Hands
    <2>2. \A o \in Known \ {at} : turn[o].state = "writing" => InOneHand(o)'
      BY <1>6, <1>7, <1>9 DEF Hands
    <2>3. \A o \in TurnIds : pc \in {"begin", "ask"} /\ at = o => InNoHand(o)'
      BY <1>6, <1>7 DEF Hands
    <2>4. \A o \in TurnIds : o >= nextTurn => InNoHand(o)'
      BY <1>6, <1>7 DEF Hands
    <2> QED
      BY <1>2, <1>3, <1>9, <1>10, <2>1, <2>2, <2>3, <2>4 DEF Hands
  <1>16. Runs'
    BY <1>2, <1>3, <1>9, <1>10 DEF Runs, RunIsTheAnswers
  <1>17. Approvals'
    <2>1. \A v \in Users : t \notin pending[v]
      BY <1>11 DEF Approvals
    <2>2. (pc = "end" => UserOf(at)' = UserOf(at) /\ turn'[at].state = turn[at].state)
      BY <1>3, <1>8, <1>9 DEF Control, UserOf
    <2> QED
      BY <1>2, <1>3, <1>9, <1>10, <2>1, <2>2 DEF Approvals
  <1> QED
    BY <1>12, <1>13, <1>14, <1>15, <1>16, <1>17

-----------------------------------------------------------------------------
\* The strengthened invariant holds when Core starts.
LEMMA InitEstablishes == Init => IInv
  <1> SUFFICES ASSUME Init PROVE IInv
    OBVIOUS
  <1>1. turn \in [TurnIds -> Turn] /\ \A t \in TurnIds : turn[t].state = "none"
    BY VacantIsATurn DEF Init
  <1>2. Known = {}
    BY <1>1 DEF Known
  <1>3. TypeOK
    BY <1>1, BoundsAssumption DEF Init, TypeOK, Job, NoJob
  <1>4. Control
    BY <1>2 DEF Init, Control
  <1>5. Line
    BY <1>2 DEF Line
  <1>6. Hands
    BY <1>2 DEF Init, Hands, InNoHand, Queued
  <1>7. Runs
    BY <1>2, BoundsAssumption DEF Init, Runs, RunIsTheAnswers, NoTurn, TurnIds
  <1>8. Approvals
    BY <1>2 DEF Init, Approvals, NoJob
  <1> QED
    BY <1>3, <1>4, <1>5, <1>6, <1>7, <1>8 DEF IInv

\* A step that changes nothing keeps the strengthened invariant.
LEMMA StutterStep ==
  ASSUME IInv, UNCHANGED vars
  PROVE  IInv'
  <1> USE DEF IInv, vars, core
  <1>1. Known' = Known
    BY DEF Known
  <1>2. TypeOK'
    BY DEF TypeOK
  <1>3. Control' /\ Line' /\ Runs' /\ Approvals'
    BY <1>1 DEF Control, Line, Runs, RunIsTheAnswers, Approvals, UserOf, PlaceOf
  <1>4. Hands'
    BY <1>1, SameHands DEF Hands
  <1> QED
    BY <1>2, <1>3, <1>4

\* Every step keeps the strengthened invariant: one case for each action.
LEMMA NextPreserves == IInv /\ [Next]_vars => IInv'
  <1> SUFFICES ASSUME IInv, [Next]_vars PROVE IInv'
    OBVIOUS
  <1>1. ASSUME NEW u \in Users, NEW c \in Chats, Send(u, c)
        PROVE  IInv'
    <2>1. lastWord' \in [Chats -> {"other", "part", "empty"}]
      BY <1>1 DEF Send, IInv, TypeOK
    <2> QED
      BY <1>1, <2>1, QueueStep DEF Send
  <1>2. ASSUME NEW u \in Users, NEW c \in Chats, ContinueAnswer(u, c)
        PROVE  IInv'
    <2>1. lastWord' \in [Chats -> {"other", "part", "empty"}]
      BY <1>2 DEF ContinueAnswer, IInv, TypeOK
    <2> QED
      BY <1>2, <2>1, QueueStep DEF ContinueAnswer
  <1>3. CASE Request
    BY <1>1, <1>2, <1>3, CancelStep, DeleteStep, SelectStep, GrantStep, DeclineStep DEF Request
  <1>4. CASE TakeInbox
    BY <1>4, RepliedStep, GoOnStep DEF TakeInbox
  <1>5. CASE Handling
    BY <1>5, BeginStep, AskEndsStep, AskStep, EndStep, ScheduleStep, ScheduleDoneStep,
       LeaveEndsStep, LeaveTailStep, DeleteTailStep DEF Handling
  <1>6. CASE \E t \in TurnIds : ReaderEnds(t)
    BY <1>6, ReaderStep
  <1>7. CASE UNCHANGED vars
    BY <1>7, StutterStep
  <1> QED
    BY <1>3, <1>4, <1>5, <1>6, <1>7 DEF Next

\* The inductive invariant holds in every reachable state, for any number of
\* people, workspaces, chats, slots, agent steps and turns.
THEOREM Invariance == Spec => []IInv
  BY InitEstablishes, NextPreserves, PTL DEF Spec

\* Every value of Core's state about its turns keeps its type.
THEOREM TypeCorrect == Spec => []TypeOK
  <1>1. IInv => TypeOK
    BY DEF IInv
  <1> QED
    BY <1>1, Invariance, PTL

\* No answer is ever lost or worked on twice: see WorkConserved.
THEOREM WorkIsConserved == Spec => []WorkConserved
  <1>1. IInv => WorkConserved
    BY DEF IInv, Hands, WorkConserved
  <1> QED
    BY <1>1, Invariance, PTL

\* One answer at a time for a person, in the order they asked.
THEOREM AnswersStandInLine == Spec => []OneAnswerAtATime
  <1>1. IInv => OneAnswerAtATime
    BY DEF IInv, Line, OneAnswerAtATime
  <1> QED
    BY <1>1, Invariance, PTL

\* An approval that can be answered is one whose call is still wanted, where its
\* person is.
THEOREM ApprovalsStayLive == Spec => []ApprovalsAreLive
  <1>1. IInv => ApprovalsAreLive
    <2> SUFFICES ASSUME IInv, pc = "idle", NEW u \in Users, NEW t \in TurnIds
                 PROVE  t \in pending[u] <=>
                          /\ t \in Known /\ turn[t].state = "awaitsApproval" /\ UserOf(t) = u
                          /\ ~turn[t].stop /\ PlaceOf(t) = workspace[u]
      BY DEF ApprovalsAreLive
    <2>1. at = NoTurn /\ job.op = "none" /\ t # NoTurn
      BY Basics DEF IInv
    <2> QED
      BY <2>1 DEF IInv, Approvals
  <1> QED
    BY <1>1, Invariance, PTL

\* A person's open run is that of their one begun answer.
THEOREM RunsFollowAnswers == Spec => []RunIsTheAnswers
  <1>1. IInv => RunIsTheAnswers
    BY DEF IInv, Runs
  <1> QED
    BY <1>1, Invariance, PTL
=============================================================================
