------------------------------ MODULE Replies ------------------------------
(***************************************************************************)
(* One step of the model, read as it is written: the connection and its     *)
(* silences (stream.rs), the events of the stream and an answer carried on  *)
(* (model.rs: read_sse, SaidAgain), what of it a person is shown while it   *)
(* comes and what becomes of it at its end (agent.rs: read_the_model,       *)
(* replied, attempted).                                                     *)
(*                                                                         *)
(* A text is a sequence of tokens, the pieces the code tells apart:         *)
(*   "w"  words               "nl" the end of a line                        *)
(*   "f"  a code fence        "{n", "{t" an object opened with a call's     *)
(*                            key, `name` or Core's own `tool`              *)
(*   "a}" the member that goes with that key, and the close                 *)
(*   "{o" an object of another key     "}", "[", "]" the rest of JSON       *)
(***************************************************************************)
EXTENDS Integers, Sequences, FiniteSets, FiniteSetsExt, SequencesExt

CONSTANTS
  Tokens, Handed,          \* the alphabet and the words an answer may be carried on from
  MaxText,                 \* bound: the tokens of a reply
  MaxSpared,               \* bound: the longest text at which a stop, a silence or a call's piece comes
  Before, Between,         \* the silences allowed, in looks of the reader
  RepeatedChars            \* the shortest stretch that stops an answer said three times

VARIABLES
  begun,     \* the words an answer carried on begins with
  phase,     \* "connect", "head", "reading", "read", "over"
  stop,      \* Stop.asked
  heard,     \* the words of the stream as they came
  held, seed,\* SaidAgain
  seen, shown, \* read_the_model: what was passed on, how much of it was shown
  repeated,  \* Some(kept) once the answer repeats itself
  native,    \* the tool-call pieces: "none", "nameless", "named"
  finished, atLimit,
  age, quiet,\* since the question, since the last byte
  ended,     \* how reading ended
  told, kept,\* what the person was shown in all, what the chat keeps
  outcome    \* what replied made of it

vars == <<begun, phase, stop, heard, held, seed, seen, shown, repeated, native,
          finished, atLimit, age, quiet, ended, told, kept, outcome>>

Nothing == [some |-> FALSE]
Some(x) == [some |-> TRUE, it |-> x]

(***************************************************************************)
(* JSON in a text                                                           *)
(***************************************************************************)
Braces == {"{n", "{t", "{o"}
Opens == Braces \cup {"["}
KeyOf(t) == CASE t = "{n" -> "name" [] t = "{t" -> "tool" [] OTHER -> "other"
InList(stack) == stack = <<>> \/ Last(stack) = "["

\* One more token of a value: the brackets still open, the members of the
\* object a call is read from (the value itself or a list's first item).
JsonStep(v, t) ==
  LET first == v.items = 0 /\ Len(v.open) <= 1
      own == v.items = 0 /\ v.open # <<>> /\ Len(v.open) <= 2 /\ v.owned
      Closed(w) == LET open == Front(w.open) IN
                   [w EXCEPT !.open = open, !.owned = FALSE,
                             !.items = IF Len(open) = 1 THEN 1 ELSE @,
                             !.is = IF open = <<>> THEN "whole" ELSE "open"] IN
  CASE v.is # "open" -> v
    [] t = "nl" -> [v EXCEPT !.end = @ + 1]
    [] t \in Braces /\ InList(v.open) ->
         [v EXCEPT !.open = Append(@, "{"), !.end = @ + 1, !.owned = first,
                   !.members = IF first THEN {KeyOf(t)} ELSE @]
    [] t = "[" /\ InList(v.open) -> [v EXCEPT !.open = Append(@, "["), !.end = @ + 1]
    [] t \in {"}", "a}"} /\ v.open # <<>> /\ Last(v.open) = "{" ->
         Closed([v EXCEPT !.end = @ + 1,
                          !.members = IF own /\ t = "a}" THEN @ \cup {"args"} ELSE @])
    [] t = "]" /\ v.open # <<>> /\ Last(v.open) = "[" -> Closed([v EXCEPT !.end = @ + 1])
    [] OTHER -> [v EXCEPT !.is = "words"]

\* the value that begins at a place: whole, still open, or no JSON at all;
\* end is the place after it
ValueFrom(text, at) ==
  FoldLeft(JsonStep, [is |-> "open", open |-> <<>>, end |-> at, members |-> {}, items |-> 0, owned |-> FALSE],
           SubSeq(text, at, Len(text)))
\* call_in: two members and no other; a list's first item counts
IsCall(v) == v.is = "whole" /\ v.members \in {{"name", "args"}, {"tool", "args"}}

(***************************************************************************)
(* safe_to_show and call_block                                              *)
(***************************************************************************)
\* the place of the next newline at or after a place, 0 for none
LineEnd(text, at) ==
  LET ends == {i \in at..Len(text) : text[i] = "nl"} IN IF ends = {} THEN 0 ELSE Min(ends)
\* the first place at or after a place that is not white space
PastSpace(text, at) ==
  LET solid == {i \in at..Len(text) : text[i] # "nl"} IN IF solid = {} THEN Len(text) + 1 ELSE Min(solid)

\* a mutant: an open value is taken for words at once
MayBeACallEager(text, at) == IF IsCall(ValueFrom(text, at)) THEN [is |-> "yes"] ELSE [is |-> "words"]
MayBeACall(text, at) ==
  LET v == ValueFrom(text, at)
      inner == PastSpace(text, at + 1)
      object == IF text[at] = "[" THEN inner ELSE at IN
  CASE v.is = "whole" -> IF IsCall(v) THEN [is |-> "yes"] ELSE [is |-> "not", end |-> v.end]
    [] v.is = "words" -> [is |-> "words"]
    [] v.is = "open" ->
         IF object > Len(text) THEN [is |-> "undecided"]
         ELSE IF text[object] \in {"{n", "{t"} THEN [is |-> "undecided"]
         ELSE IF text[object] = "{o" THEN [is |-> "not", end |-> 0]
         ELSE [is |-> "words"]

\* only a bare fence (or one tagged json) may hold a call
FencedMayBeACall(text, at) ==
  LET tagEnd == LineEnd(text, at)
      body == PastSpace(text, tagEnd) IN
  IF tagEnd = 0 THEN [is |-> "undecided"]
  ELSE IF tagEnd # at + 1 THEN [is |-> "words"]
  ELSE IF body > Len(text) THEN [is |-> "undecided"]
  ELSE IF text[body] \in Opens THEN MayBeACall(text, body)
  ELSE [is |-> "words"]

\* How many tokens of a reply may be shown yet.
SafeToShow(text) ==
  LET Safe[at \in 1..Len(text) + 1, inFence \in BOOLEAN] ==
        LET end == LineEnd(text, at)
            starts == IF at <= Len(text) THEN text[at] ELSE "nl"
            next == IF end = 0 THEN Len(text) ELSE Safe[end + 1, inFence]
            after == IF end = 0 THEN Len(text) ELSE Safe[end + 1, TRUE]
            maybe == MayBeACall(text, at) IN
        IF inFence THEN IF starts = "f" THEN (IF end = 0 THEN Len(text) ELSE Safe[end + 1, FALSE]) ELSE next
        ELSE IF starts = "f"
        THEN IF FencedMayBeACall(text, at).is \in {"not", "words"} THEN after ELSE at - 1
        ELSE IF starts \in Opens
        THEN CASE maybe.is \in {"yes", "undecided"} -> at - 1
               [] maybe.is = "not" -> IF maybe.end = 0 THEN Len(text) ELSE Safe[maybe.end, FALSE]
               [] maybe.is = "words" -> next
        ELSE IF end = 0 /\ at > Len(text) THEN at - 1
        ELSE next IN
  Safe[1, FALSE]

\* A block in a fence runs through the closing fence, when there is one.
BlockAt(text, at) ==
  LET tagEnd == LineEnd(text, at)
      body == PastSpace(text, tagEnd)
      v == ValueFrom(text, body)
      close == PastSpace(text, v.end) IN
  IF tagEnd # at + 1 \/ body > Len(text) THEN Nothing
  ELSE IF text[body] \notin Opens \/ ~ IsCall(v) THEN Nothing
  ELSE Some([from |-> at, to |-> IF close <= Len(text) /\ text[close] = "f" THEN close + 1 ELSE v.end])

\* The first block in the shape of a call that begins a line.
CallBlock(text) ==
  LET Block[at \in 1..Len(text) + 1, inFence \in BOOLEAN] ==
        LET end == LineEnd(text, at)
            starts == IF at <= Len(text) THEN text[at] ELSE "nl"
            Next(in) == IF end = 0 THEN Nothing ELSE Block[end + 1, in]
            v == ValueFrom(text, at) IN
        IF inFence THEN Next(starts # "f")
        ELSE IF starts = "f" THEN IF BlockAt(text, at).some THEN BlockAt(text, at) ELSE Next(TRUE)
        ELSE IF starts \in Opens /\ IsCall(v) THEN Some([from |-> at, to |-> v.end])
        ELSE IF starts \in Opens /\ v.is = "whole" THEN Block[v.end, FALSE]
        ELSE Next(FALSE) IN
  Block[1, FALSE]

Blank(text) == \A i \in DOMAIN text : text[i] = "nl"
Alone(text, b) == Blank(SubSeq(text, 1, b.from - 1)) /\ Blank(SubSeq(text, b.to, Len(text)))

\* words_around: the words before and after the block, trimmed towards it
WordsAround(text, b) ==
  LET before == SubSeq(text, 1, b.from - 1)
      after == SubSeq(text, PastSpace(text, b.to), Len(text))
      solid == {i \in DOMAIN before : before[i] # "nl"}
      trimmed == IF solid = {} THEN <<>> ELSE SubSeq(before, 1, Max(solid)) IN
  IF trimmed = <<>> THEN after ELSE IF after = <<>> THEN trimmed ELSE trimmed \o <<"nl">> \o after

\* parse_bare_call: the entire reply is one object that calls a tool on offer
BareCall(text, offered) ==
  LET from == PastSpace(text, 1)
      v == ValueFrom(text, from) IN
  /\ offered /\ from <= Len(text) /\ text[from] = "{n" /\ IsCall(v)
  /\ Blank(SubSeq(text, v.end, Len(text)))

\* parse_grammar_call: from the first brace to the last the text is one object
\* with a `tool`, whatever its other members and whatever stands around it. It
\* looks at the reply as the engine wrote it, and asks for no offer.
GrammarCall(text) ==
  LET opened == {i \in DOMAIN text : text[i] \in Braces}
      closed == {i \in DOMAIN text : text[i] \in {"}", "a}"}}
      v == ValueFrom(SubSeq(text, 1, Max(closed)), Min(opened)) IN
  /\ opened # {} /\ closed # {} /\ Min(opened) < Max(closed)
  /\ v.is = "whole" /\ v.end = Max(closed) + 1 /\ "tool" \in v.members

(***************************************************************************)
(* repeating_from: one stretch said three times in a row ends the text      *)
(***************************************************************************)
\* how far the end, read backwards, matches itself p further back
MatchesBack(tail, p) ==
  LET n == Len(tail) IN
  Max({k \in 0..(n - p) : \A i \in 1..k : tail[n + 1 - i] = tail[n + 1 - i - p]})

\* Nothing, or how many tokens are kept; inside a code block code may repeat
RepeatingFrom(text) ==
  LET fences == {i \in DOMAIN text : text[i] = "f"}
      start == IF fences = {} THEN 0 ELSE Max(fences)
      tail == SubSeq(text, start + 1, Len(text))
      loops == {p \in RepeatedChars..(Len(tail) \div 3) : MatchesBack(tail, p) >= 2 * p}
      p == Min(loops) IN
  IF Cardinality(fences) % 2 = 1 \/ loops = {} THEN Nothing
  ELSE Some(start + Len(tail) - (MatchesBack(tail, p) \div p) * p)

(***************************************************************************)
(* The step.                                                                *)
(***************************************************************************)
Init ==
  /\ begun \in Handed
  /\ phase = "connect" /\ stop = FALSE
  /\ heard = <<>> /\ held = <<>> /\ seed = IF begun = <<>> THEN "none" ELSE "waiting"
  /\ seen = <<>> /\ shown = 0 /\ repeated = Nothing /\ native = "none"
  /\ finished = FALSE /\ atLimit = FALSE /\ age = 0 /\ quiet = 0
  /\ ended = "not" /\ told = <<>> /\ kept = Nothing /\ outcome = "none"

ends == <<ended, told, kept, outcome>>
words == <<heard, held, seed, seen, shown, repeated>>
flags == <<native, finished, atLimit>>

\* another thread asks for the end and shuts the socket
StopAsked ==
  /\ phase # "over" /\ ~ stop /\ Len(heard) <= MaxSpared
  /\ stop' = TRUE
  /\ UNCHANGED <<begun, phase, words, flags, age, quiet, ends>>

\* cut_or: a stop first, a silence by whether words had come, any other
\* failure of the connection is a lost one
CutOr(failure) ==
  IF stop THEN "stopped"
  ELSE IF failure = "timed_out" THEN (IF heard # <<>> THEN "silent_between" ELSE "silent_before")
  ELSE failure

\* post_and_read, exchange: the connection; a refusal to connect is an error
Connect ==
  /\ phase = "connect"
  /\ \/ phase' = "head" /\ UNCHANGED ended
     \/ phase' = "read" /\ ended' = "failed"
     \/ phase' = "read" /\ ended' = CutOr("lost")
  /\ UNCHANGED <<begun, stop, words, flags, age, quiet, told, kept, outcome>>

\* the head of the response: its status, or a head that ends early
ReadHead ==
  /\ phase = "head" /\ ~ stop
  /\ \/ phase' = "reading" /\ UNCHANGED ended
     \/ phase' = "read" /\ ended' \in {"failed", "no_room"}
     \/ phase' = "read" /\ ended' = "lost"
  /\ quiet' = 0
  /\ UNCHANGED <<begun, stop, words, flags, age, told, kept, outcome>>

\* read_the_model: a piece is added to what was seen, a loop stops the
\* answer, and what is safe of it is shown
Shown(text) == IF SafeToShow(text) > shown THEN SafeToShow(text) ELSE shown
OnWords(piece) ==
  LET now == seen \o piece IN
  IF repeated.some \/ piece = <<>>
  THEN UNCHANGED <<seen, shown, repeated>> /\ stop' = stop
  ELSE /\ seen' = now
       /\ IF RepeatingFrom(now).some
          THEN repeated' = RepeatingFrom(now) /\ stop' = TRUE /\ UNCHANGED shown
          ELSE shown' = Shown(now) /\ UNCHANGED <<repeated, stop>>

\* a mutant: the handed words are dropped by their length
PassByLength(piece) ==
  LET all == held \o piece IN
  IF seed # "waiting" THEN [to |-> piece, held |-> <<>>, seed |-> seed]
  ELSE IF Len(all) < Len(begun) THEN [to |-> <<>>, held |-> all, seed |-> "waiting"]
  ELSE [to |-> SubSeq(all, Len(begun) + 1, Len(all)), held |-> <<>>, seed |-> "said_again"]
\* SaidAgain::pass: held while they may be the handed words, dropped only
\* when they are exactly those
Pass(piece) ==
  LET all == held \o piece IN
  IF seed # "waiting" THEN [to |-> piece, held |-> <<>>, seed |-> seed]
  ELSE IF Len(all) < Len(begun) /\ IsPrefix(all, begun) THEN [to |-> <<>>, held |-> all, seed |-> "waiting"]
  ELSE IF IsPrefix(begun, all)
  THEN [to |-> SubSeq(all, Len(begun) + 1, Len(all)), held |-> <<>>, seed |-> "said_again"]
  ELSE [to |-> all, held |-> <<>>, seed |-> "not_said_again"]

\* a piece of words comes; age no longer counts once one came
Words(t) ==
  /\ phase = "reading" /\ ~ stop
  /\ Len(heard) < MaxText /\ ~ finished /\ native = "none"
  /\ LET p == Pass(<<t>>) IN
     /\ held' = p.held /\ seed' = p.seed
     /\ OnWords(p.to)
  /\ heard' = Append(heard, t)
  /\ quiet' = 0 /\ age' = Before
  /\ UNCHANGED <<begun, phase, flags, ends>>

\* thinking holds a silence off and is never words
Thinking ==
  /\ phase = "reading" /\ ~ stop
  /\ quiet' = 0
  /\ UNCHANGED <<begun, phase, stop, words, flags, age, ends>>

\* a piece of a tool call; one that never gets a name is passed over
CallPiece ==
  /\ phase = "reading" /\ ~ stop /\ native # "named" /\ Len(heard) <= MaxSpared
  /\ native' \in {"nameless", "named"} /\ quiet' = 0
  /\ UNCHANGED <<begun, phase, stop, words, finished, atLimit, age, ends>>

\* a reason for finishing, perhaps the length allowed
FinishReason ==
  /\ phase = "reading" /\ ~ stop /\ ~ finished
  /\ finished' = TRUE /\ atLimit' \in BOOLEAN /\ quiet' = 0
  /\ UNCHANGED <<begun, phase, stop, words, native, age, ends>>

\* time passes without a byte: the reader looks every POLL
Wait ==
  /\ phase \in {"head", "reading"} /\ ~ stop /\ Len(heard) <= MaxSpared
  /\ quiet < Between \/ age < Before
  /\ quiet' = IF quiet < Between THEN quiet + 1 ELSE quiet
  /\ age' = IF age < Before THEN age + 1 ELSE age
  /\ UNCHANGED <<begun, phase, stop, words, flags, ends>>

\* SaidAgain::finish: however the answer ended, what was held back as perhaps
\* the handed words is passed on.
HeldPassedOn ==
  IF seed = "waiting" /\ held # <<>>
  THEN held' = <<>> /\ seed' = "not_said_again" /\ OnWords(held)
  ELSE UNCHANGED <<held, seed, seen, shown, repeated, stop>>

\* Watched::read
Silent == IF heard # <<>> THEN quiet >= Between ELSE age >= Before /\ quiet >= Between
\* a mutant: a silence ends the answer and nothing held back is passed on
TimedOutForgetsHeld ==
  /\ phase \in {"head", "reading"} /\ ~ stop /\ Silent
  /\ phase' = "read" /\ ended' = CutOr("timed_out")
  /\ UNCHANGED <<begun, stop, words, flags, age, quiet, told, kept, outcome>>
TimedOut ==
  /\ phase \in {"head", "reading"} /\ ~ stop /\ Silent
  /\ phase' = "read" /\ ended' = CutOr("timed_out")
  /\ HeldPassedOn
  /\ UNCHANGED <<begun, heard, flags, age, quiet, told, kept, outcome>>

\* a mutant: a stream that simply ends is an answer
EndOfStreamUnfinished == IF stop THEN "stopped" ELSE "whole"
\* read_sse: a stop, then a stream that never said it was finished
EndOfStream == IF stop THEN "stopped" ELSE IF finished THEN "whole" ELSE "lost"

\* the stream ends, breaks, or is stopped
ReadEnds ==
  /\ phase = "reading"
  /\ phase' = "read"
  /\ ended' \in IF stop THEN {"stopped"} ELSE {EndOfStream, "lost", "failed"}
  /\ HeldPassedOn
  /\ UNCHANGED <<begun, heard, flags, age, quiet, told, kept, outcome>>
HeadStopped ==
  /\ phase = "head" /\ stop
  /\ phase' = "read" /\ ended' = "stopped"
  /\ UNCHANGED <<begun, stop, words, flags, age, quiet, told, kept, outcome>>
\* [DONE] finishes and ends the stream in one line
Done ==
  /\ phase = "reading" /\ ~ stop
  /\ finished' = TRUE /\ phase' = "read" /\ ended' = "whole"
  /\ HeldPassedOn
  /\ UNCHANGED <<begun, heard, native, atLimit, age, quiet, told, kept, outcome>>

\* carried_on: the handed words come off where they were said again; a reply
\* that is exactly them while still waiting leaves nothing
Text == IF seed = "said_again" \/ (seed = "waiting" /\ IsPrefix(begun, heard))
        THEN SubSeq(heard, Len(begun) + 1, Len(heard)) ELSE heard
\* what the reply calls: the engine's own call, one in the grammar's shape, or
\* a reply that is nothing but a call of a tool on offer
Calls(offered) == native = "named" \/ GrammarCall(heard) \/ BareCall(Text, offered)

Over(what, keep, show) ==
  /\ phase' = "over" /\ outcome' = what /\ kept' = keep /\ told' = show
  /\ UNCHANGED <<begun, stop, words, flags, age, quiet, ended>>

\* what was not shown yet of an answer, after what was
Unseen(answer) == IF IsPrefix(SubSeq(seen, 1, shown), answer) THEN answer
                  ELSE SubSeq(seen, 1, shown) \o answer

CouldNot == <<"could not">>

\* attempted: told once, then the words without the block, or a refusal
Attempted(b, offered, again) ==
  IF ~ again THEN Over("told_once", Nothing, SubSeq(seen, 1, shown))
  ELSE LET answer == IF offered THEN WordsAround(Text, b) ELSE CouldNot IN
       Over("without_it", Some(answer), Unseen(answer))

\* replied: offered says whether the tool a call names is on offer, again
\* whether the model was told once already (Turn.refused)
Replied(offered, again) ==
  /\ phase = "read"
  /\ IF repeated.some
     THEN Over("repeated", Some(SubSeq(seen, 1, repeated.it)), SubSeq(seen, 1, shown))
     ELSE IF ended \in {"stopped", "lost", "silent_before", "silent_between"}
     THEN Over("cut", Some(SubSeq(seen, 1, shown)), SubSeq(seen, 1, shown))
     ELSE IF ended \in {"failed", "no_room"}
     THEN Over(ended, Some(<<>>), SubSeq(seen, 1, shown))
     ELSE IF Calls(offered) THEN Over("calls", Nothing, SubSeq(seen, 1, shown))
     ELSE LET b == CallBlock(Text) IN
          IF b.some
          THEN IF offered /\ Alone(Text, b.it) THEN Over("calls", Nothing, SubSeq(seen, 1, shown))
               ELSE Attempted(b.it, offered, again)
          ELSE Over(IF atLimit THEN "at_limit" ELSE "answered", Some(Text),
                    IF IsPrefix(SubSeq(seen, 1, shown), Text) THEN Text ELSE SubSeq(seen, 1, shown))

Next ==
  \/ StopAsked \/ Connect \/ ReadHead \/ HeadStopped
  \/ \E t \in Tokens : Words(t)
  \/ Thinking \/ CallPiece \/ FinishReason \/ Wait \/ TimedOut \/ ReadEnds \/ Done
  \/ \E offered, again \in BOOLEAN : Replied(offered, again)

Spec == Init /\ [][Next]_vars

(***************************************************************************)
(* Properties                                                               *)
(***************************************************************************)
\* A person is shown the model's words and all of them.  What is shown is
\* always the start of what the model added, the handed words taken off only
\* when the stream began with exactly them; however the reading ended, all that
\* came was passed on, unless the answer was ended for repeating itself; and an
\* answer that ends by itself without a call is kept and shown to its last
\* token.  (SaidAgain, read_the_model, replied.)
Added == IF begun # <<>> /\ IsPrefix(begun, heard) THEN SubSeq(heard, Len(begun) + 1, Len(heard)) ELSE heard
ShownIsSaid ==
  /\ seen # <<>> => IsPrefix(seen, Added)
  /\ shown <= Len(seen)
  /\ phase \in {"read", "over"} /\ ~ repeated.some => seen = Added
  /\ outcome \in {"answered", "at_limit"} => kept = Some(Added) /\ told = Added

\* While a reply comes, nothing of a call is shown.  Whatever tokens came,
\* where the reply as a whole holds a block in the shape of a call that begins
\* a line outside every value and fence begun before it, no token from that
\* block on was passed to the person.  (safe_to_show against call_block.)
Unclosed(text, at) == \E i \in 1..(at - 1) : text[i] \in Opens /\ ValueFrom(text, i).is # "whole"
CallStaysHeld ==
  LET b == CallBlock(seen) IN
  b.some /\ ~ Unclosed(seen, b.it.from) => shown < b.it.from

\* How a step ended is what happened.  A whole answer was finished by the
\* model; a stop that was asked for while words could still come is never
\* reported as a silence or a loss; a silence is one of the length allowed.
\* (read_sse, cut_or, Watched.)
EndsAreTrue ==
  /\ ended = "whole" => finished
  /\ ended = "silent_between" => heard # <<>> /\ quiet = Between
  /\ ended = "silent_before" => heard = <<>> /\ age = Before
  /\ outcome = "cut" /\ ended = "stopped" => stop
  /\ outcome \in {"answered", "at_limit"} => ended = "whole" /\ ~ repeated.some

\* "Never a third try, never the call's text shown" (agent.rs, attempted): no
\* answer the chat keeps holds a block in the shape of a call.
NoCallIsKept == kept.some => ~ CallBlock(kept.it).some

\* What the person is told of a reply is what the model said and how it ended
\* (model.rs, stream.rs, agent.rs), the three before together.
RepliesAreTrue == ShownIsSaid /\ CallStaysHeld /\ EndsAreTrue
=============================================================================
