------------------------------- MODULE MCDesk -------------------------------
(***************************************************************************)
(* A person's side of the system: the tools of a board (Boards), the        *)
(* desktop client's surfaces (Client), the chats and what is attached to    *)
(* them (Chats), what is read of a chat (Prompts), the reply as it streams  *)
(* (Replies), and the files and values that are read (TextFiles,            *)
(* Reconciling).  They share no variable, so a behaviour is one of them:    *)
(* `part` says which, and the others keep their first values.               *)
(***************************************************************************)
EXTENDS Client, Chats

VARIABLES
  part, case,
  shapes, frames, selection, outline, columns, cards, did, tools,
  chat,
  begun, phase, stop, heard, held, seed, passed, shown, repeated, native, finished, atLimit,
  age, quiet, ended, told, stays, outcome

-----------------------------------------------------------------------------
\* Three notes: one of them held, some in each other's way, some with room between
\* them, some at halves of a unit. Eight parts of a unit hold two halvings more.
Parts == 8
Note(n, x, w, l) == [id |-> <<n, 7>>, kind |-> "sticky", x |-> x, w |-> w, z |-> n,
                     locked |-> l, text |-> "some", from |-> {}]
SomeBoards == {<<Note(1, b[1], Parts, FALSE), Note(2, b[2], b[3], TRUE),
                 Note(3, 6 * Parts, 2 * Parts, FALSE)>> :
                 b \in {<<0, 0, Parts>>, <<4, 3 * Parts, Parts>>,
                        <<0, 3 * Parts, 4 * Parts>>, <<4, 0, 4 * Parts>>}}
NoBoard == <<Note(1, 0, Parts, FALSE), Note(2, 0, Parts, TRUE), Note(3, 6 * Parts, 2 * Parts, FALSE)>>

Said1(role, words, calls, pictures) ==
  [role |-> role, words |-> words, stopped |-> FALSE, calls |-> calls, pictures |-> pictures, file |-> 0]
SomeSaid == {Said1("user", 1, <<>>, 0), Said1("user", 1, <<>>, 1),
             [Said1("user", 1, <<>>, 0) EXCEPT !.file = 3],
             Said1("assistant", 2, <<>>, 0), [Said1("assistant", 2, <<>>, 0) EXCEPT !.stopped = TRUE],
             Said1("assistant", 0, <<>>, 0), Said1("tool", 0, <<2>>, 0), Said1("tool", 0, <<9>>, 0)}

Board == INSTANCE Boards WITH Boards0 <- SomeBoards, Clock <- {7}, Unit <- Parts, Places <- {0, 20},
           MaxTools <- 2

Prompt == INSTANCE Prompts WITH Sayings <- SomeSaid, Context <- 21, Answer <- 4, System <- 4,
            WorkingSet <- 12, StoppedTokens <- 1, FrameTokens <- 1, PictureTokens <- 3, BegunTokens <- 3,
            Places <- {"in_the_newest", "after_the_newest"}, MaxMessages <- 5

\* fences, calls, examples and lists
Reply == INSTANCE Replies WITH
           Tokens <- {"w", "nl", "f", "{n", "{t", "a}", "{o", "}", "[", "]"},
           Handed <- {<<>>, <<"w", "nl">>}, MaxText <- 4, MaxSpared <- 2,
           Before <- 3, Between <- 2, RepeatedChars <- 1, seen <- passed, kept <- stays

Texts == INSTANCE TextFiles

Json == INSTANCE Reconciling

-----------------------------------------------------------------------------
\* Texts of Latin and Cyrillic letters, two of which are a character of UTF-8 when
\* they stand together; files that share a budget; files longer than their share,
\* short ones of every kind and ones of two lines whose break is in the last tenth
\* or before it; and every pair of small values of two levels.
Char(is, bytes) == [is |-> is, bytes |-> bytes]
Chars == {Char("line", 1), Char("space", 1), Char("mark", 1), Char("word", 2), Char("digit", 1)}
Run(n, bytes) == [i \in 1..n |-> Char("word", bytes)]
TwoLines == {Run(a, 1) \o <<Char("line", 1)>> \o Run(b, 1) \o end :
               a \in 15..19, b \in 0..4, end \in {<<>>, <<Char("digit", 2)>>, <<Char("line", 1)>>}}
Leaves == {Json!Leaf("a"), Json!Leaf("b")}
Flat == Leaves \cup {Json!Array(s) : s \in {<<>>, <<Json!Leaf("a")>>, <<Json!Leaf("b"), Json!Leaf("a")>>}}
               \cup {Json!Object(f) : f \in UNION {[K -> Leaves] : K \in SUBSET {"x"}}}
Over(S) == {Json!Object(f) : f \in UNION {[K -> S] : K \in SUBSET {"x", "y"}}}
Values == Over(Flat)
Documents == Over(Flat \cup {Json!Text("a"), Json!Array(<<Json!Text("a"), Json!Text("b")>>)})

NoCase == [is |-> "none"]
Cases ==
  [is : {"decode"}, text : UNION {[1..n -> {10, 65, 1045, 1105}] : n \in 1..5}]
    \cup [is : {"share"}, budget : 0..6, needs : UNION {[1..n -> 0..3] : n \in 1..3}]
    \cup [is : {"read"}, text : UNION {[1..n -> Chars] : n \in 0..3}, tokens : 0..4]
    \cup [is : {"read"}, text : TwoLines, tokens : 4..8]
    \cup [is : {"reconcile"}, doc : Documents, next : Values]

boardVars == <<shapes, frames, selection, outline, columns, cards, did, tools>>
replyVars == <<begun, phase, stop, heard, held, seed, passed, shown, repeated, native, finished, atLimit,
               age, quiet, ended, told, stays, outcome>>

DeskInit ==
  /\ part \in {"board", "window", "chats", "prompt", "reply", "cases"}
  /\ IF part = "cases" THEN case \in Cases ELSE case = NoCase
  /\ Board!BoardInit /\ (part # "board" => shapes = NoBoard)
  /\ ClientInit
  /\ ChatInit
  /\ Prompt!PromptInit
  /\ Reply!Init /\ (part # "reply" => begun = <<>>)

DeskNext ==
  /\ UNCHANGED <<part, case>>
  /\ IF part = "board" THEN Board!BoardNext ELSE UNCHANGED boardVars
  /\ IF part = "window" THEN ClientNext ELSE UNCHANGED clientVars
  /\ IF part = "chats" THEN ChatNext ELSE UNCHANGED chatVars
  /\ IF part = "prompt" THEN Prompt!PromptNext ELSE UNCHANGED chat
  /\ IF part = "reply" THEN Reply!Next ELSE UNCHANGED replyVars

deskVars == <<part, case, boardVars, clientVars, chatVars,
              chat, replyVars>>
DeskSpec == DeskInit /\ [][DeskNext]_deskVars

-----------------------------------------------------------------------------
\* What is not to be moved stays (Boards).
HeldStays == Board!HeldStays

\* What the engine is sent of a chat holds together and moves as little as it
\* can (Prompts).
ReadingIsSound == Prompt!ReadingIsSound

\* What the person is told of a reply is what the model said, and how it ended
\* (Replies).
RepliesAreTrue == Reply!RepliesAreTrue

\* A file is read as it was written and within its share, and a value that was
\* reconciled into a document is that document (TextFiles, Reconciling).
TextsAreRead ==
  CASE case.is = "decode" -> Texts!ReadsBack(case.text)
    [] case.is = "share" -> Texts!SharesAreFair(case.budget, case.needs)
    [] case.is = "read" -> Texts!ReadFits(case.text, case.tokens)
    [] case.is = "reconcile" -> Json!ReconcilesExactly(case.doc, case.next)
    [] OTHER -> TRUE
=============================================================================
