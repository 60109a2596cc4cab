------------------------------- MODULE Chats -------------------------------
(***************************************************************************)
(* A person's chats (conversations.rs), what they attach to their messages  *)
(* (attachments.rs), and the ways both are reached: the requests of lib.rs, *)
(* and the answers that agent.rs writes into a chat wherever its person is  *)
(* by then.                                                                 *)
(*                                                                         *)
(* A chat is [id, updated, messages]; its id is the tick of the clock at    *)
(* which it was begun, since no two chats are begun in one millisecond      *)
(* here, and the chats of a working set, which are listed by their age, are *)
(* a set.  A message is [n, by, files].  An answer is [chat, ws, state, at],*)
(* where `at` is the message it answers: the queue is in that order.  What  *)
(* is on disk: disk[w], the saved chats of a workspace, and the two names   *)
(* of a kept file, its bytes and its record.                                *)
(***************************************************************************)
EXTENDS Integers, Sequences, FiniteSets

CONSTANTS
  Workspaces, Home,          \* the person's workspaces, and the one they begin in
  Files,                     \* what they attach, by its hash
  MOST_PER_MESSAGE,
  MaxTicks, MaxSaid          \* bounds: the clock, the messages written

ASSUME ChatBounds == Home \in Workspaces /\ MaxTicks \in Nat \ {0} /\ MOST_PER_MESSAGE \in Nat

VARIABLES
  disk, diskCurrent,         \* the database
  ws, list, current, transcript,   \* the person's state in Core
  turns,                     \* their answers
  pending, kept,             \* the names under the pending folder, and under each chat's
  tick, said,
  owed                       \* a ghost: what each chat not deleted was given, in order

chatVars == <<disk, diskCurrent, ws, list, current, transcript, turns, pending, kept, tick, said, owed>>

NoChat == 0
ChatIds == 1..MaxTicks
Ids(chats) == {c.id : c \in chats}
ChatOf(chats, id) == CHOOSE c \in chats : c.id = id
MessagesOf(chats, id) == ChatOf(chats, id).messages

(***************************************************************************)
(* The store                                                                *)
(***************************************************************************)
\* persist: a chat with no message is never saved
Persist(saved, c) ==
  IF c.messages = <<>> THEN saved ELSE {d \in saved : d.id # c.id} \cup {c}

\* start: the current chat, when it is still empty
Start(chats, cur) ==
  IF \E c \in chats : c.id = cur /\ c.messages = <<>>
  THEN [chats |-> chats, current |-> cur]
  ELSE [chats |-> chats \cup {[id |-> tick, updated |-> tick, messages |-> <<>>]}, current |-> tick]

Newest(chats) == CHOOSE id \in Ids(chats) : \A other \in Ids(chats) : other <= id

\* load: at least one chat, and a current one among them
LoadSet(w) ==
  IF disk[w] = {} THEN Start({}, diskCurrent[w])
  ELSE [chats |-> disk[w],
        current |-> IF diskCurrent[w] \in Ids(disk[w]) THEN diskCurrent[w] ELSE Newest(disk[w])]

\* update and record: the chat with these messages
Updated(chats, id, messages) ==
  {IF c.id # id THEN c
   ELSE [c EXCEPT !.messages = messages,
                  !.updated = IF Len(messages) # Len(c.messages) THEN tick ELSE @] : c \in chats}

\* record_conversation: the transcript into the current chat, written through
Recorded == Updated(list, current, transcript)
DiskRecorded == [disk EXCEPT ![ws] = Persist(@, ChatOf(Recorded, current))]

\* Mutant of Write: an answer goes to the chat that is on screen.
WriteOnScreen(w, id, m) ==
  LET done == Updated(list, current, Append(transcript, m)) IN
  /\ transcript' = Append(transcript, m) /\ list' = done
  /\ disk' = [disk EXCEPT ![ws] = Persist(@, ChatOf(done, current))]

\* write: a message into a chat wherever its person is now: on screen, in
\* the working set, or in the database alone
Write(w, id, m) ==
  IF w = ws /\ id \in Ids(list)
  THEN LET on == id = current
           words == Append(IF on THEN transcript ELSE MessagesOf(list, id), m)
           done == Updated(list, id, words) IN
       /\ list' = done /\ transcript' = IF on THEN words ELSE transcript
       /\ disk' = [disk EXCEPT ![w] = Persist(@, ChatOf(done, id))]
  ELSE /\ disk' = [disk EXCEPT ![w] = {IF c.id = id THEN [c EXCEPT !.messages = Append(@, m), !.updated = tick]
                                                    ELSE c : c \in @}]
       /\ UNCHANGED <<list, transcript>>

(***************************************************************************)
(* Attachments                                                              *)
(***************************************************************************)
Names(f) == [of : {f}, is : {"bytes", "record"}]
Attached(files) == {files[i] : i \in DOMAIN files}
AllNames(files) == UNION {Names(f) : f \in Attached(files)}
\* take goes through them name by name
NameAt(files, k) == [of |-> files[(k + 1) \div 2], is |-> IF k % 2 = 1 THEN "bytes" ELSE "record"]
\* what its first looks moved: what the chat has already stays
Moved(id, files, n) == {NameAt(files, k) : k \in 1..n} \ kept[id]

MayTake(files) ==
  Len(files) <= MOST_PER_MESSAGE
    /\ \A f \in Attached(files) : [of |-> f, is |-> "record"] \in pending

\* Mutant of PutBack: what the chat had is moved back with the rest.
PutBackAll(id, moved) == moved \cup kept[id]

PutBack(id, moved) == moved

\* take: the pending copies of what the chat had go once all is taken
Take(id, files) ==
  /\ kept' = [kept EXCEPT ![id] = @ \cup AllNames(files)]
  /\ pending' = pending \ AllNames(files)

(***************************************************************************)
(* Requests                                                                 *)
(***************************************************************************)
ChatInit ==
  /\ disk = [w \in Workspaces |-> {}] /\ diskCurrent = [w \in Workspaces |-> IF w = Home THEN 1 ELSE NoChat]
  /\ ws = Home /\ current = 1 /\ transcript = <<>>
  /\ list = {[id |-> 1, updated |-> 1, messages |-> <<>>]}
  /\ turns = {} /\ pending = {} /\ kept = [c \in ChatIds |-> {}]
  /\ tick = 2 /\ said = 0 /\ owed = [c \in ChatIds |-> <<>>]

\* the clock moves on when a chat was begun
ClockGoesOn(chats) == IF tick \in Ids(chats) THEN tick <= MaxTicks /\ tick' = tick + 1 ELSE UNCHANGED tick
AttachmentsKept == UNCHANGED <<pending, kept>>

NewConversation ==
  LET new == Start(Recorded, current) IN
  /\ ClockGoesOn(new.chats) /\ list' = new.chats /\ current' = new.current
  /\ transcript' = <<>>
  /\ disk' = DiskRecorded /\ diskCurrent' = [diskCurrent EXCEPT ![ws] = new.current]
  /\ UNCHANGED <<ws, turns, said, owed>> /\ AttachmentsKept

SelectConversation(id) ==
  /\ id \in Ids(list) /\ id # current
  /\ list' = Recorded /\ disk' = DiskRecorded
  /\ current' = id /\ diskCurrent' = [diskCurrent EXCEPT ![ws] = id]
  /\ transcript' = MessagesOf(Recorded, id)
  /\ UNCHANGED <<ws, turns, tick, said, owed>> /\ AttachmentsKept

\* the first that waits begins when nothing is being written
Begun(q) ==
  IF \A t \in q : t.state = "waiting"
  THEN {IF \A u \in q : t.at <= u.at THEN [t EXCEPT !.state = "writing"] ELSE t : t \in q}
  ELSE q

\* the one written to last
Recent(chats) ==
  CHOOSE c \in chats : \A d \in chats : d.updated < c.updated \/ (d.updated = c.updated /\ d.id <= c.id)

\* what is left of a working set without one of its chats
Without(id) ==
  LET rest == {c \in Recorded : c.id # id} IN
  IF current # id THEN [chats |-> rest, current |-> current]
  ELSE IF rest # {} THEN [chats |-> rest, current |-> Recent(rest).id]
  ELSE Start(rest, NoChat)

\* its answer ends first; what was attached in it goes with it
DeleteConversation(id) ==
  LET next == Without(id) IN
  /\ id \in Ids(list) /\ ClockGoesOn(next.chats)
  /\ turns' = Begun({t \in turns : t.chat # id})
  /\ list' = next.chats /\ current' = next.current
  /\ disk' = [DiskRecorded EXCEPT ![ws] = {c \in @ : c.id # id}]
  /\ diskCurrent' = [diskCurrent EXCEPT ![ws] = next.current]
  /\ transcript' = MessagesOf(next.chats, next.current)
  /\ kept' = [kept EXCEPT ![id] = {}]
  /\ owed' = [owed EXCEPT ![id] = <<>>]
  /\ UNCHANGED <<ws, pending, said>>

\* keep_pending: the bytes, then the record; the second write may fail
AddAttachment(f, whole) ==
  /\ ~ Names(f) \subseteq pending
  /\ pending' = pending \cup {name \in Names(f) : name.is = "bytes" \/ whole}
  /\ UNCHANGED <<disk, diskCurrent, ws, list, current, transcript, turns, kept, tick, said, owed>>

\* send: refused while an answer is written in this chat, and when a file is
\* not there; the files move before the message is written
SendMessage(id, files) ==
  LET m == [n |-> said + 1, by |-> "person", files |-> Attached(files)] IN
  /\ said < MaxSaid /\ id \in Ids(list)
  /\ \A t \in turns : t.chat # id
  /\ MayTake(files) /\ Take(id, files)
  /\ Write(ws, id, m)
  /\ turns' = Begun(turns \cup {[chat |-> id, ws |-> ws, state |-> "waiting", at |-> said + 1]})
  /\ said' = said + 1 /\ owed' = [owed EXCEPT ![id] = Append(@, m)]
  /\ UNCHANGED <<diskCurrent, ws, current, tick>>

\* the nth name could not be moved: the message is refused
TakeFails(id, files, n) ==
  LET moved == Moved(id, files, n - 1) IN
  /\ id \in Ids(list) /\ MayTake(files) /\ NameAt(files, n) \notin kept[id]
  /\ kept' = [kept EXCEPT ![id] = (@ \cup moved) \ PutBack(id, moved)]
  /\ pending' = pending \cup PutBack(id, moved)
  /\ UNCHANGED <<disk, diskCurrent, ws, list, current, transcript, turns, tick, said, owed>>

\* an answer ends, in its own chat
AnswerEnds ==
  \E t \in turns :
    LET m == [n |-> said + 1, by |-> "model", files |-> {}] IN
    /\ t.state = "writing" /\ said < MaxSaid
    /\ Write(t.ws, t.chat, m)
    /\ turns' = Begun(turns \ {t})
    /\ said' = said + 1 /\ owed' = [owed EXCEPT ![t.chat] = Append(@, m)]
    /\ UNCHANGED <<diskCurrent, ws, current, tick>> /\ AttachmentsKept

\* stop_on_leaving: the answers that wait end; the one being written goes on
\* to its own safe point
StoppedOnLeaving == {t \in turns : t.ws # ws \/ t.state = "writing"}

\* the working set of a workspace, taken from the database
Enters(w) ==
  LET in == LoadSet(w) IN
  /\ ClockGoesOn(in.chats) /\ list' = in.chats /\ current' = in.current
  /\ transcript' = MessagesOf(in.chats, in.current)
  /\ diskCurrent' = [diskCurrent EXCEPT ![w] = in.current]

SelectWorkspace(w) ==
  /\ w # ws /\ Enters(w)
  /\ turns' = StoppedOnLeaving
  /\ disk' = DiskRecorded /\ ws' = w
  /\ UNCHANGED <<pending, kept, said, owed>>

\* Core is killed and starts again: answers and pending files are gone; a
\* message that was being sent may have moved the first of its names
CoreRestarts(id, files, n) ==
  /\ id \in Ids(list) /\ MayTake(files)
  /\ Enters(ws)
  /\ turns' = {} /\ pending' = {} /\ kept' = [kept EXCEPT ![id] = @ \cup Moved(id, files, n)]
  /\ UNCHANGED <<disk, ws, said, owed>>

\* what a person may name in a message, no file twice
FilesNamed ==
  {files \in UNION {[1..n -> Files] : n \in 0..MOST_PER_MESSAGE + 1} :
     \A i, j \in DOMAIN files : files[i] = files[j] => i = j}

ChatNext ==
  \/ NewConversation \/ AnswerEnds
  \/ \E id \in Ids(list) : SelectConversation(id) \/ DeleteConversation(id)
  \/ \E f \in Files, whole \in BOOLEAN : AddAttachment(f, whole)
  \/ \E id \in Ids(list), files \in FilesNamed :
       \/ SendMessage(id, files)
       \/ \E n \in 1..(2 * Len(files)) : TakeFails(id, files, n)
       \/ \E n \in 0..(2 * Len(files)) : CoreRestarts(id, files, n)
  \/ \E w \in Workspaces : SelectWorkspace(w)

ChatSpec == ChatInit /\ [][ChatNext]_chatVars

(***************************************************************************)
(* Properties                                                               *)
(***************************************************************************)

\* Every message a person sent and every answer that ended is in its own chat
\* and in no other, in order, on disk at once, wherever its person was when it
\* was written: through moves to another chat or workspace, kills, and the
\* deletion of other chats.  What is on screen is the current chat.
ChatsKeepWords ==
  /\ \A w \in Workspaces : \A c \in disk[w] : c.messages = owed[c.id]
  /\ \A id \in ChatIds : owed[id] # <<>> => \E w \in Workspaces : \E c \in disk[w] : c.id = id
  /\ current \in Ids(list) /\ transcript = MessagesOf(list, current)
  /\ \A c \in list : c.messages = owed[c.id]

\* A file that went with a message stays with its chat, bytes and record, as
\* long as the chat does: whatever was attached again later, and whichever
\* move of a later message failed or was cut short by a kill.
SentFilesStay ==
  \A w \in Workspaces : \A c \in disk[w] :
    \A i \in DOMAIN c.messages : \A f \in c.messages[i].files : Names(f) \subseteq kept[c.id]

\* A chat keeps what it was given: words and files (conversations.rs,
\* attachments.rs, agent.rs).
ChatsAreKept == ChatsKeepWords /\ SentFilesStay
=============================================================================
