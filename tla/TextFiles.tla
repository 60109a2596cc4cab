----------------------------- MODULE TextFiles -----------------------------
(***************************************************************************)
(* A text file a person attaches: which encoding its bytes are read in      *)
(* (text_file.rs), how many tokens its words count for (prompt.rs: Counted) *)
(* and how much of each file of a message the model reads (agent.rs).       *)
(* A file is a sequence of bytes, a text a sequence of code points.         *)
(***************************************************************************)
EXTENDS Integers, Sequences, FiniteSets, FiniteSetsExt, SequencesExt

Up(a, b) == (a + b - 1) \div b                     \* div_ceil
Larger(a, b) == IF a > b THEN a ELSE b
Smaller(a, b) == IF a < b THEN a ELSE b
Replacement == 65533

(***************************************************************************)
(* Encodings                                                                *)
(***************************************************************************)
\* Windows-1251's last quarter is the Cyrillic alphabet, in order; the one below
\* it is a table, of which the texts here use one letter: the others are each
\* some character of their own
SmallIo == [byte |-> 184, char |-> 1105]
OtherOfTheTable(b) == 8192 + b
Windows1251(bytes) ==
  [i \in DOMAIN bytes |->
     CASE bytes[i] < 128 -> bytes[i]
       [] bytes[i] = SmallIo.byte -> SmallIo.char
       [] bytes[i] \in 128..191 \ {SmallIo.byte} -> OtherOfTheTable(bytes[i])
       [] bytes[i] >= 192 -> 1040 + bytes[i] - 192]

\* whole pairs only, a last odd byte is left
Utf16(bytes, little) ==
  [i \in 1..(Len(bytes) \div 2) |->
     LET one == bytes[2 * i - 1]
         two == bytes[2 * i] IN
     IF little THEN two * 256 + one ELSE one * 256 + two]

\* a zero in every other byte: which half has them says the order
Utf16WithoutMark(bytes) ==
  LET pairs == Len(bytes) \div 2
      Zeros(k) == Cardinality({i \in 1..pairs : bytes[2 * i - k] = 0})
      even == Zeros(1)
      odd == Zeros(0) IN
  IF pairs < 2 THEN "none"
  ELSE IF odd * 10 >= pairs * 6 /\ even * 10 <= pairs THEN "little"
  ELSE IF even * 10 >= pairs * 6 /\ odd * 10 <= pairs THEN "big"
  ELSE "none"

\* utf8_chunks, over characters of one byte or two: what is read, how many
\* good ones are beyond ASCII, how many sequences are not UTF-8
Utf8(bytes) ==
  LET Byte(s, b) ==
        IF s.lead # 0 /\ b \in 128..191
        THEN [s EXCEPT !.text = Append(@, (s.lead - 192) * 64 + b - 128), !.good = @ + 1, !.lead = 0]
        ELSE LET t == IF s.lead = 0 THEN s
                      ELSE [s EXCEPT !.text = Append(@, Replacement), !.bad = @ + 1, !.lead = 0] IN
             IF b < 128 THEN [t EXCEPT !.text = Append(@, b)]
             ELSE IF b \in 194..223 THEN [t EXCEPT !.lead = b]
             ELSE [t EXCEPT !.text = Append(@, Replacement), !.bad = @ + 1]
      end == FoldLeft(Byte, [text |-> <<>>, good |-> 0, bad |-> 0, lead |-> 0], bytes) IN
  IF end.lead = 0 THEN end
  ELSE [end EXCEPT !.text = Append(@, Replacement), !.bad = @ + 1]
MostlyUtf8(read) == read.bad = 0 \/ read.good > read.bad

\* text has no NUL and at most one control character in a hundred
LooksLikeText(text) ==
  LET control == {i \in DOMAIN text : text[i] < 32 /\ text[i] \notin {9, 10, 13, 12, 27}} IN
  (\A i \in DOMAIN text : text[i] # 0) /\ Cardinality(control) * 100 <= Len(text)

Decode(bytes) ==
  LET After(n) == SubSeq(bytes, n + 1, Len(bytes))
      Marked(mark) == Len(mark) <= Len(bytes) /\ SubSeq(bytes, 1, Len(mark)) = mark
      read == Utf8(bytes)
      unmarked == Utf16WithoutMark(bytes)
      text == IF Marked(<<239, 187, 191>>) THEN Utf8(After(3)).text
              ELSE IF Marked(<<255, 254>>) THEN Utf16(After(2), TRUE)
              ELSE IF Marked(<<254, 255>>) THEN Utf16(After(2), FALSE)
              ELSE IF unmarked # "none" THEN Utf16(bytes, unmarked = "little")
              ELSE IF MostlyUtf8(read) THEN read.text
              ELSE Windows1251(bytes) IN
  IF \A i \in DOMAIN text : text[i] \in {9, 10, 13, 32} THEN [is |-> "empty", text |-> <<>>]
  ELSE IF ~ LooksLikeText(text) THEN [is |-> "binary", text |-> <<>>]
  ELSE [is |-> "text", text |-> text]

(***************************************************************************)
(* Counting                                                                 *)
(***************************************************************************)
\* a character is [is, bytes]: "line", "space", "mark", "word", or "digit",
\* one beyond ASCII counting by its bytes
NoCount == [done |-> 0, run |-> "none", bytes |-> 0, last |-> 0, chars |-> 0, all |-> 0]

RunCost(k) ==
  CASE k.run = "none" -> 0
    [] k.run = "word" -> Up(k.bytes, 4)
    [] k.run = "mark" -> Larger(Up(k.bytes, 4), 1)
    [] k.run = "space" -> Up(k.bytes - 1, 4)
    [] k.run = "line" -> Larger(Up(k.bytes - 1, 4), 1)

\* Counted::add
Add(k, c) ==
  LET before == IF k.run # "space" THEN RunCost(k)
                ELSE IF k.chars > 1 THEN Larger(Up(k.bytes - k.last, 20), 1) + k.last ELSE k.last
      joins == c.is = k.run \/ (k.run = "space" /\ c.is = "line") IN
  IF c.is = "digit"
  THEN [k EXCEPT !.all = @ + c.bytes, !.done = @ + before + c.bytes, !.run = "none", !.bytes = 0, !.chars = 0]
  ELSE [done |-> IF joins THEN k.done ELSE k.done + RunCost(k),
        run |-> c.is,
        bytes |-> (IF joins THEN k.bytes ELSE 0) + c.bytes,
        last |-> c.bytes,
        chars |-> (IF joins THEN k.chars ELSE 0) + 1,
        all |-> k.all + c.bytes]

CountedTokens(k) == Larger(k.done + RunCost(k), Up(k.all, 4))
TokensOf(text) == CountedTokens(FoldLeft(Add, NoCount, text))

\* Mutant of Share: in the order they were attached.
ShareInOrder(budget, needs) ==
  LET One(s, k) == LET given == Smaller(needs[k], s.left \div (Len(needs) - k + 1)) IN
                   [left |-> s.left - given, shares |-> [s.shares EXCEPT ![k] = given]] IN
  FoldLeft(One, [left |-> budget, shares |-> [i \in DOMAIN needs |-> 0]], [k \in DOMAIN needs |-> k]).shares

(***************************************************************************)
(* How much is read                                                         *)
(***************************************************************************)
\* share: the files by what they need, the smallest first
Share(budget, needs) ==
  LET order == SetToSortSeq(DOMAIN needs, LAMBDA a, b : needs[a] < needs[b] \/ (needs[a] = needs[b] /\ a < b))
      One(s, k) == LET given == Smaller(needs[order[k]], s.left \div (Len(needs) - k + 1)) IN
                   [left |-> s.left - given, shares |-> [s.shares EXCEPT ![order[k]] = given]] IN
  FoldLeft(One, [left |-> budget, shares |-> [i \in DOMAIN needs |-> 0]], [k \in DOMAIN needs |-> k]).shares

Bytes(text) == FoldLeft(LAMBDA a, c : a + c.bytes, 0, text)
Start(text, n) == SubSeq(text, 1, n)

\* Mutant of ReadWithin: back to the last line break, wherever it is.
ReadWithinAnyLine(text, tokens) ==
  LET fits == CHOOSE n \in 0..Len(text) :
                /\ \A m \in 1..n : TokensOf(Start(text, m)) <= tokens
                /\ n = Len(text) \/ TokensOf(Start(text, n + 1)) > tokens
      lines == {n \in 1..fits : text[n].is = "line"} IN
  IF TokensOf(text) <= tokens THEN Len(text)
  ELSE IF lines = {} THEN fits ELSE Max(lines)

\* read_within: up to the first character that goes over, then back to the
\* last line break in the final tenth
ReadWithin(text, tokens) ==
  LET fits == CHOOSE n \in 0..Len(text) :
                /\ \A m \in 1..n : TokensOf(Start(text, m)) <= tokens
                /\ n = Len(text) \/ TokensOf(Start(text, n + 1)) > tokens
      lines == {n \in 1..fits : /\ text[n].is = "line"
                                /\ Bytes(Start(text, n - 1)) * 10 >= Bytes(Start(text, fits)) * 9} IN
  IF TokensOf(text) <= tokens THEN Len(text)
  ELSE IF lines = {} THEN fits ELSE Max(lines)

\* read_text_files: half of the chat's budget less the person's words and
\* the files' frames; and what the model is told of a file cut short
ReadTextFiles(budget, words, frame, texts) ==
  LET half == budget \div 2
      taken == words + Len(texts) * frame
      shares == Share(IF half > taken THEN half - taken ELSE 0, [i \in DOMAIN texts |-> TokensOf(texts[i])]) IN
  [i \in DOMAIN texts |-> ReadWithin(texts[i], shares[i])]
NoteOf(chars, read) ==
  CASE read >= chars -> "none"
    [] read < chars /\ read = 0 -> "no room"
    [] read < chars /\ read > 0 -> "only its first part"

(***************************************************************************)
(* What they are held to                                                    *)
(***************************************************************************)
Encode(text, as) ==
  LET Char(c) == CASE as = "utf8" -> IF c < 128 THEN <<c>> ELSE <<192 + (c \div 64), 128 + (c % 64)>>
                   [] as = "utf16le" -> <<c % 256, c \div 256>>
                   [] as = "utf16be" -> <<c \div 256, c % 256>>
                   [] as = "windows1251" -> IF c < 128 THEN <<c>>
                                            ELSE IF c = SmallIo.char THEN <<SmallIo.byte>>
                                            ELSE <<c - 1040 + 192>> IN
  FlattenSeq([i \in DOMAIN text |-> Char(text[i])])
Mark(as) == CASE as = "utf8" -> <<239, 187, 191>> [] as = "utf16le" -> <<255, 254>> [] as = "utf16be" -> <<254, 255>>

\* A text is read as it was written: in every encoding that carries a mark
\* whatever it says, in UTF-8 without one, and in UTF-16 without one when most
\* of it is ASCII; a file whose last byte was cut off keeps the rest. In
\* Windows-1251 it is exactly when no more of its letters stand in pairs that
\* are a character of UTF-8 by accident than stand alone.
ReadsBack(text) ==
  LET pairs == {i \in 1..(Len(text) - 1) : text[i] \in 1042..1071 /\ text[i + 1] = SmallIo.char}
      letters == {i \in DOMAIN text : text[i] >= 128}
      alone == letters \ (pairs \cup {i + 1 : i \in pairs})
      blank == \A i \in DOMAIN text : text[i] \in {10, 32}
      latin == Cardinality({i \in DOMAIN text : text[i] < 128})
      Right(bytes) == Decode(bytes) = [is |-> "text", text |-> text] IN
  ~ blank =>
    /\ \A as \in {"utf8", "utf16le", "utf16be"} : Right(Mark(as) \o Encode(text, as))
    /\ Right(Encode(text, "utf8"))
    /\ Right(Encode(text, "windows1251")) <=> Cardinality(pairs) <= Cardinality(alone)
    /\ (Len(text) >= 2 /\ latin * 10 >= Len(text) * 6) =>
         \A as \in {"utf16le", "utf16be"} : Right(Encode(text, as))
    /\ LET cut == Encode(text, "utf8")
           read == Decode(SubSeq(cut, 1, Len(cut) - 1)) IN
       (Len(text) - latin > 2 /\ text[Len(text)] >= 128) =>
         SubSeq(read.text, 1, Len(text) - 1) = SubSeq(text, 1, Len(text) - 1)

\* The files of one message share their budget: none has more than it needs,
\* together they have no more than there is, and when one is cut nothing is
\* left over and no file has more than it and one token beside.
SharesAreFair(budget, needs) ==
  LET given == Share(budget, needs)
      total == FoldLeft(+, 0, given)
      cut == {i \in DOMAIN needs : given[i] < needs[i]} IN
  /\ total <= budget
  /\ \A i \in DOMAIN needs : given[i] <= needs[i]
  /\ cut # {} => total = budget
  /\ \A i \in cut, j \in DOMAIN needs : given[j] <= given[i] + 1

\* What is read of a file fits its share, and one that fits is read whole. Of one
\* that is cut the longest start that fits is read, or less by under a tenth of
\* it, and then to the end of a line; and a file the model reads only part of is
\* always noted as that.
ReadFits(text, tokens) ==
  LET read == ReadWithin(text, tokens)
      most == Max({n \in 0..Len(text) : TokensOf(Start(text, n)) <= tokens}) IN
  /\ TokensOf(text) <= tokens => read = Len(text)
  /\ \/ read = most
     \/ /\ read \in 1..most /\ text[read].is = "line"
        /\ 10 * (Bytes(Start(text, most)) - Bytes(Start(text, read))) < Bytes(Start(text, most))
  /\ (NoteOf(Len(text), read) = "none") <=> (read = Len(text))
=============================================================================
