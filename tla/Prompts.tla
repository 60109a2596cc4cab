------------------------------ MODULE Prompts ------------------------------
(***************************************************************************)
(* What the model reads of a chat (prompt.rs), and the messages it goes to  *)
(* the engine as (model.rs: messages).                                      *)
(*                                                                         *)
(* A stored message is [role, words, stopped, calls, pictures, file]: words *)
(* and calls are the tokens of its text and of each call it keeps, pictures *)
(* how many came with it, file the tokens read of its text files.           *)
(***************************************************************************)
EXTENDS Integers, Sequences, FiniteSets, FiniteSetsExt, SequencesExt

CONSTANTS
  Sayings,                            \* the messages a chat may grow by
  Context, Answer, System, WorkingSet,   \* the engine's context and what is taken off it
  StoppedTokens, FrameTokens, PictureTokens,
  BegunTokens,                     \* what the words of an answer that is carried on take
  Places,                          \* where models take the ledger: LedgerPlace
  MaxMessages                      \* a bound: the length of the chat

VARIABLE chat                      \* the transcript

promptVars == <<chat>>

SumOf(s) == FoldLeft(+, 0, s)
Least(a, b) == IF a < b THEN a ELSE b
Less(a, b) == IF a > b THEN a - b ELSE 0          \* saturating_sub

\* budget: never more than the profile's working set
Budget == Least(Less(Context, Answer + System), WorkingSet)

(***************************************************************************)
(* Turns                                                                    *)
(***************************************************************************)
\* turns_of: a call is a turn of its own; an empty answer is none; what is read
\* of a text file stands in the person's words by then (with_text_files)
TurnsOf(m, at) ==
  LET Turn(is, cost) == [is |-> is, cost |-> cost, at |-> at, pictures |-> 0]
      own == CASE m.role = "user" -> <<Turn("person", m.words + m.file)>>
               [] m.role = "assistant" /\ m.stopped -> <<Turn("answer", m.words + StoppedTokens)>>
               [] m.role = "assistant" /\ ~ m.stopped /\ m.words > 0 -> <<Turn("answer", m.words)>>
               [] OTHER -> <<>> IN
  own \o [i \in DOMAIN m.calls |-> Turn("call", m.calls[i])]

\* a call goes to the engine as two messages
Frames(t) == IF t.is = "call" THEN 2 * FrameTokens ELSE FrameTokens
CostOf(t) == t.cost + Frames(t)
\* what a message takes of the budget, its pictures too
Cost(m) ==
  LET all == TurnsOf(m, 0) IN
  SumOf([i \in DOMAIN all |-> CostOf(all[i])]) + m.pictures * PictureTokens

\* Mutant of Grown: the start moves a message at a time, as a window would.
GrownByOne(messages, ws, s, end) ==
  LET used == s.used + Cost(messages[end]) IN
  IF used <= ws \/ s.start = end THEN [s EXCEPT !.used = used]
  ELSE [start |-> s.start + 1, used |-> used - Cost(messages[s.start])]

(***************************************************************************)
(* Where the reading begins                                                 *)
(***************************************************************************)
\* one message more: the start stays while everything since it fits, then
\* jumps to the first message of the person's that leaves at most half
Grown(messages, ws, s, end) ==
  LET Sum(i) == SumOf([k \in 1..(end - i + 1) |-> Cost(messages[i + k - 1])])
      used == s.used + Cost(messages[end])
      back == Min({i \in s.start..(end + 1) : Sum(i) <= ws \div 2})
      persons == {i \in s.start..end : messages[i].role = "user"}
      asked == {i \in persons : i >= back}
      from == IF asked # {} THEN Min(asked) ELSE IF persons # {} THEN Max(persons) ELSE end IN
  IF used <= ws \/ from <= s.start THEN [s EXCEPT !.used = used]
  ELSE [start |-> from, used |-> Sum(from)]

ReadFrom(messages, ws) ==
  FoldLeft(LAMBDA s, end : Grown(messages, ws, s, end), [start |-> 1, used |-> 0],
           [i \in DOMAIN messages |-> i])

(***************************************************************************)
(* The turns that are read                                                  *)
(***************************************************************************)
\* the newest turns of `all` after `low` that fit in `room`
Fitting(all, low, room, always) ==
  LET Sum(i) == SumOf([k \in 1..(Len(all) - i + 1) |-> CostOf(all[i + k - 1])])
      ok == {i \in (low + 1)..(Len(all) + 1) : Sum(i) <= room \/ (always /\ i = Len(all))} IN
  Min(ok \cup {Len(all) + 1})

Turns(messages, from, ws) ==
  LET kept == [i \in 1..(Len(messages) - from + 1) |-> TurnsOf(messages[from + i - 1], from + i - 1)]
      all == FlattenSeq(kept)
      start == Fitting(all, 0, ws, TRUE)
      persons == {i \in DOMAIN all : all[i].is = "person"}
      newest == Max(persons)
      calls == Fitting(all, newest, Less(ws, CostOf(all[newest])), FALSE) IN
  IF \E i \in persons : i >= start
  THEN SubSeq(all, Min({i \in persons : i >= start}), Len(all))
  ELSE IF persons = {} \/ calls > Len(all) THEN SubSeq(all, start, Len(all))
  ELSE <<all[newest]>> \o SubSeq(all, calls, Len(all))

\* with_pictures: by the message's place among the person's
Persons(messages) == SelectSeq([i \in DOMAIN messages |-> i], LAMBDA i : messages[i].role = "user")
\* Mutant of WithPictures: counted from the first message of the chat.
WithPicturesFromFirst(turns, messages) ==
  LET persons == Persons(messages)
      Kept(n) == Len(SelectSeq(SubSeq(turns, 1, n), LAMBDA t : t.is = "person")) IN
  [i \in DOMAIN turns |->
     IF turns[i].is = "person" THEN [turns[i] EXCEPT !.pictures = messages[persons[Kept(i)]].pictures]
     ELSE turns[i]]

WithPictures(turns, messages) ==
  LET persons == Persons(messages)
      Kept(n) == Len(SelectSeq(SubSeq(turns, 1, n), LAMBDA t : t.is = "person"))
      first == Less(Len(persons), Kept(Len(turns))) IN
  [i \in DOMAIN turns |->
     IF turns[i].is = "person"
     THEN [turns[i] EXCEPT !.pictures = messages[persons[first + Kept(i)]].pictures]
     ELSE turns[i]]

\* build_within and the step that sends it, in the room that is left
Reading(messages, room) ==
  WithPictures(Turns(messages, ReadFrom(messages, room).start, room), messages)

(***************************************************************************)
(* What the engine is sent                                                  *)
(***************************************************************************)
\* messages: the instructions, the turns, and what is open and the ledger where
\* this model takes them; words that are carried on follow
Wire(turns, place) ==
  LET persons == {i \in DOMAIN turns : turns[i].is = "person"}
      newest == IF persons = {} THEN 0 ELSE Max(persons)
      Entry(i) == LET t == turns[i] IN
        CASE t.is = "person" ->
               <<[role |-> "user", turn |-> t, after |-> place = "in_the_newest" /\ i = newest]>>
          [] t.is = "answer" -> <<[role |-> "assistant", turn |-> t, after |-> FALSE]>>
          [] t.is = "call" -> <<[role |-> "assistant", turn |-> t, after |-> FALSE],
                                [role |-> "tool", turn |-> t, after |-> FALSE]>> IN
  <<[role |-> "system"]>>
  \o FlattenSeq([i \in DOMAIN turns |-> Entry(i)])
  \o (IF place = "after_the_newest" THEN <<[role |-> "system", after |-> TRUE]>> ELSE <<>>)

(***************************************************************************)
(* The chat grows                                                           *)
(***************************************************************************)
PromptInit == chat = <<>>

\* a person writes; the calls of an answer's rounds and its words come
\* between their messages
Say(m) ==
  /\ Len(chat) < MaxMessages
  /\ chat = <<>> => m.role = "user"
  /\ m.role = "assistant" => Last(chat).role # "assistant"
  /\ chat' = Append(chat, m)

PromptNext == \E m \in Sayings : Say(m)
PromptSpec == PromptInit /\ [][PromptNext]_promptVars

(***************************************************************************)
(* Properties                                                               *)
(***************************************************************************)

\* What is read of a chat, however it grew and in whatever room is left: its words
\* fit the room unless its newest turn alone does not, and so do its pictures unless
\* the reading begins at the person's newest message; it begins with the person's
\* words and has their newest message, unless the newest turn leaves no room for that
\* beside it; and every picture sits with the message it was sent with.
ReadingHolds(messages, room) ==
  LET turns == Reading(messages, room)
      words == SumOf([i \in DOMAIN turns |-> CostOf(turns[i])])
      pictures == SumOf([i \in DOMAIN turns |-> turns[i].pictures]) * PictureTokens
      asked == Max({i \in DOMAIN messages : messages[i].role = "user"})
      crowded == CostOf(Last(turns)) + CostOf(TurnsOf(messages[asked], asked)[1]) > room IN
  messages # <<>> =>
    /\ words <= room \/ Len(turns) = 1
    /\ words + pictures <= room \/ ReadFrom(messages, room).start = asked
    /\ (turns[1].is = "person" /\ \E i \in DOMAIN turns : turns[i].at = asked) \/ crowded
    /\ \A i \in DOMAIN turns :
         turns[i].is = "person" => turns[i].pictures = messages[turns[i].at].pictures

\* While a chat that grew still fits, the engine is sent what it was sent before,
\* and then what is new: the start stays, and nothing before the newest message
\* changes.  When it no longer fits, the start moves unless no later message of the
\* person's is left to begin at; and once it moved, what is read takes at most half
\* the budget, or begins at the person's newest message.
ReadingIsStable ==
  LET was == ReadFrom(chat, Budget)
      now == ReadFrom(chat', Budget)
      asked == Max({i \in DOMAIN chat' : chat'[i].role = "user"}) IN
  (Len(chat') > Len(chat) /\ chat # <<>>) =>
    IF was.used + Cost(Last(chat')) <= Budget
    THEN /\ now.start = was.start
         /\ \A place \in Places :
              LET old == Wire(Reading(chat, Budget), place)
                  new == Wire(Reading(chat', Budget), place)
                  same == Max({0} \cup {i \in DOMAIN old : old[i].role = "user"}) IN
              SubSeq(old, 1, same - 1) = SubSeq(new, 1, same - 1)
    ELSE LET rest == SumOf([i \in 1..(Len(chat') - now.start + 1) |-> Cost(chat'[now.start + i - 1])]) IN
         IF now.start > was.start THEN rest <= Budget \div 2 \/ now.start = asked
         ELSE now.start = was.start /\ \A i \in (was.start + 1)..Len(chat') : chat'[i].role # "user"

\* What the engine is sent of a chat holds together and moves as little as it
\* can (prompt.rs): of every step, the two above together, with an answer begun and
\* without one.
ReadingIsSound ==
  [][/\ \A room \in {Budget, Less(Budget, BegunTokens)} : ReadingHolds(chat', room)
     /\ ReadingIsStable]_promptVars
=============================================================================
