------------------------------ MODULE Measure -------------------------------
(* `localspace measure`, an unattended run of hours (localspace-cli         *)
(* measure.rs): the model's files made sure of, the model started, the      *)
(* script's passes asked message by message, Continue, the engine's reading *)
(* and the picture; with a limit on one answer and one on the whole run,    *)
(* and a results file written as it goes. A write empties the file before   *)
(* it fills it, may fail at either, and may be stopped between.              *)
(*                                                                          *)
(* Time is not counted: a limit may run out wherever the code looks at it.  *)
(* A script is what is asked: for each pass, how many messages each item    *)
(* has. What was answered is which message it was.                          *)
EXTENDS Naturals, Sequences, FiniteSets

CONSTANTS Passes,       \* Seq of [items: Seq of message counts, carry: with Continue]
          Counting,    \* --only: the passes alone
          Vision,      \* the model has a vision file
          MayDownload, \* --download, and --yes or Enter
          MaxLooks     \* bound of the instance: looks at the catalog entry

VARIABLES step,       \* where the kit is
          looks,       \* how often `present` has looked
          entry,       \* the model's files: their stage, as Core tells it
          asked,       \* asked_for: the download was asked for
          checked,     \* Kit::checked holds the model
          pos,         \* [pass, item, turn] asked about next
          running,     \* answers Core has under way
          grace,       \* one was not stopped within STOP_GRACE
          heard,       \* the answers of the item under way
          progress,    \* Progress: the items and steps that are written in it
          results,     \* the file: [whole, holds, going, ended]
          ended,       \* Progress::ended
          onward,      \* where the kit goes on once the file is written
          written      \* how the last write went: "under_way", "well", "failed"

\* A script asks at least one message of every item (measure.rs script).
ASSUME KitAsks == Passes \in Seq([items : Seq(Nat \ {0}), carry : BOOLEAN])

measureVars == <<step, looks, entry, asked, checked, pos, running, grace, heard, progress,
                 results, ended, onward, written>>
writeVars == <<results, onward, written>>

NoEnd == "none"
Stages == {"away", "here", "queued", "downloading", "verifying", "failed", "installed"}

\* A step that fails: the run ends early and says why.
Fails(why) == step' = "closing" /\ ended' = why
Goes(to) == step' = to /\ UNCHANGED ended

-----------------------------------------------------------------------------
(* keep, between two answers, and the last write: std::fs::write.           *)

\* The file is written next, and then the kit goes on.
Keeps(then) == step' = "keeping" /\ onward' = then /\ written' = "under_way" /\ UNCHANGED <<results, ended>>

\* report: the run as far as it is; only its last write says it is over.
Report == [whole |-> TRUE, holds |-> progress, going |-> onward # "over", ended |-> ended]
Emptied == [whole |-> FALSE, holds |-> {}, going |-> TRUE, ended |-> NoEnd]

notWriting == <<looks, entry, asked, checked, pos, running, grace, heard, progress, ended, onward>>

\* The file is opened, and with that emptied.
OpenResults ==
    /\ step = "keeping"
    /\ step' = "writing" /\ results' = Emptied
    /\ UNCHANGED <<notWriting, written>>

WriteEnds ==
    /\ step = "writing"
    /\ step' = onward /\ results' = Report /\ written' = "well"
    /\ UNCHANGED notWriting

\* It cannot be opened or filled: that is said, and the run goes on; after the
\* last write it is over.
WriteFails ==
    /\ step \in {"keeping", "writing"}
    /\ step' = onward /\ written' = "failed"
    /\ UNCHANGED <<notWriting, results>>

-----------------------------------------------------------------------------
(* present: the model's files.                                              *)

\* What one look at the entry leads to. A download that stopped part-way is
\* waited for until it has brought nothing for too long.
Present ==
    /\ step = "files" /\ looks < MaxLooks
    /\ looks' = looks + 1
    /\ CASE entry = "installed" -> Goes("loading") /\ UNCHANGED <<asked, entry>>
         [] entry = "failed" -> Fails("download_failed") /\ UNCHANGED <<asked, entry>>
         [] entry \in {"queued", "downloading", "verifying"} ->
              UNCHANGED <<step, ended, asked, entry>>
         [] entry = "here" /\ checked /\ ~asked ->
              Fails("not_the_published_files") /\ UNCHANGED <<asked, entry>>
         [] entry \in {"here", "away"} /\ (asked \/ entry = "here") ->
              UNCHANGED <<step, ended, asked, entry>>
         [] OTHER -> IF MayDownload
                     THEN asked' = TRUE /\ entry' = "queued" /\ UNCHANGED <<step, ended>>
                     ELSE Fails("not_on_this_computer") /\ UNCHANGED <<asked, entry>>
    /\ UNCHANGED <<checked, pos, running, grace, heard, progress, writeVars>>

\* The download brought nothing for DOWNLOAD_STALL; only a stage that says
\* downloading counts as progress.
Stall ==
    /\ step = "files" /\ asked /\ entry # "downloading"
    /\ Fails("download_stalled")
    /\ UNCHANGED <<looks, entry, asked, checked, pos, running, grace, heard, progress, writeVars>>

\* Core: its look at the files that are there, and its downloads.
CoreFiles(to) ==
    /\ step = "files"
    /\ <<entry, to>> \in {<<"here", "installed">>, <<"here", "here">>, <<"queued", "downloading">>,
                          <<"downloading", "verifying">>, <<"downloading", "away">>,
                          <<"downloading", "failed">>, <<"verifying", "installed">>,
                          <<"verifying", "failed">>}
    /\ entry' = to
    /\ checked' = (checked \/ entry = "here")
    /\ UNCHANGED <<step, looks, asked, pos, running, grace, heard, progress, writeVars, ended>>

\* Kit::load: it comes up, does not, or takes longer than ENGINE_START.
LoadModel(works) ==
    /\ step = "loading"
    /\ IF works THEN Goes("pass") ELSE Fails("engine_did_not_come_up")
    /\ UNCHANGED <<looks, entry, asked, checked, pos, running, grace, heard, progress, writeVars>>

-----------------------------------------------------------------------------
(* run_pass: every item in a chat of its own, its messages in turn.         *)

Items == Passes[pos.pass].items

\* After the last item of a pass, Continue; after the last pass the rest.
NextPass ==
    /\ step = "pass"
    /\ IF pos.pass > Len(Passes) THEN Goes(IF Counting THEN "closing" ELSE "reading") /\ UNCHANGED pos
       ELSE IF pos.item <= Len(Items) THEN Goes("ask") /\ UNCHANGED pos
       ELSE IF Passes[pos.pass].carry /\ pos.turn = 1 THEN Goes("carry") /\ UNCHANGED pos
       ELSE UNCHANGED <<step, ended>> /\ pos' = [pass |-> pos.pass + 1, item |-> 1, turn |-> 1]
    /\ UNCHANGED <<looks, entry, asked, checked, running, grace, heard, progress, writeVars>>

\* ask: the message is sent, or refused.
Send(taken) ==
    /\ step = "ask"
    /\ Goes(IF taken THEN "wait" ELSE "read")
    /\ running' = IF taken THEN running \cup {pos} ELSE running
    /\ UNCHANGED <<looks, entry, asked, checked, pos, grace, heard, progress, writeVars>>

\* answer_ends: nothing is being written or waits to be.
Ends ==
    /\ step \in {"wait", "carried"} /\ running = {}
    /\ Goes(IF step = "wait" THEN "read" ELSE "carry_done")
    /\ UNCHANGED <<looks, entry, asked, checked, pos, running, grace, heard, progress, writeVars>>

\* It took longer than one answer may: CancelTurn, of this chat's.
Overruns ==
    /\ step \in {"wait", "carried"} /\ running # {}
    /\ Goes(IF step = "wait" THEN "stopping" ELSE "carry_stopping")
    /\ UNCHANGED <<looks, entry, asked, checked, pos, running, grace, heard, progress, writeVars>>

\* A plausible slip: the answer is told to stop and not waited for.
StoppedAtOnce ==
    /\ step \in {"stopping", "carry_stopping"}
    /\ Goes(IF step = "stopping" THEN "read" ELSE "carry_done")
    /\ UNCHANGED grace
    /\ UNCHANGED <<looks, entry, asked, checked, pos, running, heard, progress, writeVars>>

\* It is waited for a while longer, so that the next is not queued behind it.
Stopped ==
    /\ step \in {"stopping", "carry_stopping"}
    /\ Goes(IF step = "stopping" THEN "read" ELSE "carry_done")
    /\ grace' = (grace \/ running # {})
    /\ UNCHANGED <<looks, entry, asked, checked, pos, running, heard, progress, writeVars>>

\* The transcript is read; at the end of an item it goes into the results.
Item(p, i) == [step |-> "item", pass |-> p, nr |-> i]

\* A plausible slip: the file is written when the pass is over.
KeptAfterPass ==
    IF pos.item = Len(Items) THEN Keeps("pass") ELSE Goes("pass") /\ UNCHANGED writeVars

KeptAfterItem == Keeps("pass")

ReadAnswer ==
    /\ step = "read"
    /\ IF pos.turn < Items[pos.item]
       THEN /\ Goes("ask")
            /\ pos' = [pos EXCEPT !.turn = @ + 1]
            /\ heard' = Append(heard, pos)
            /\ UNCHANGED <<progress, writeVars>>
       ELSE /\ KeptAfterItem
            /\ pos' = [pos EXCEPT !.item = @ + 1, !.turn = 1]
            /\ heard' = <<>>
            /\ progress' = progress \cup {Item(pos.pass, pos.item)}
    /\ UNCHANGED <<looks, entry, asked, checked, running, grace>>

\* carry_on: an answer is stopped after some words, and carried on if it was.
CarrySend ==
    /\ step = "carry"
    /\ Goes("carried")
    /\ running' = running \cup {pos}
    /\ UNCHANGED <<looks, entry, asked, checked, pos, grace, heard, progress, writeVars>>

\* ContinueAnswer, or there was nothing to carry on.
CarryDone(again) ==
    /\ step = "carry_done"
    /\ IF again /\ pos.turn = 1
       THEN /\ Goes("carried") /\ running' = running \cup {pos}
            /\ pos' = [pos EXCEPT !.turn = 2]
            /\ UNCHANGED <<progress, writeVars>>
       ELSE /\ Keeps("pass")
            /\ pos' = [pos EXCEPT !.turn = 2]
            /\ progress' = progress \cup {[step |-> "carried", pass |-> pos.pass, nr |-> 0]}
            /\ UNCHANGED running
    /\ UNCHANGED <<looks, entry, asked, checked, grace, heard>>

-----------------------------------------------------------------------------
(* The steps after the passes: the engine's reading, whose failure is       *)
(* written down, then the picture on the processor and on the card. One the *)
(* model does not come up for again is written down as such.                *)
Note(what) == [step |-> what, pass |-> 0, nr |-> 0]

Reading ==
    /\ step = "reading"
    /\ progress' = progress \cup {Note("reading")}
    /\ Goes(IF Vision THEN "picture" ELSE "closing")
    /\ UNCHANGED <<looks, entry, asked, checked, pos, running, grace, heard, writeVars>>

PicturePass ==
    /\ step \in {"picture", "card"}
    /\ progress' = progress \cup {Note(step)}
    /\ Keeps(IF step = "picture" THEN "card" ELSE "closing")
    /\ UNCHANGED <<looks, entry, asked, checked, pos, running, grace, heard>>

\* within_limit, looked at in every wait, and a call Core does not answer.
LimitRunsOut ==
    /\ step \in {"files", "loading", "pass", "ask", "wait", "stopping", "read", "carry", "carried",
                 "carry_stopping", "carry_done", "reading", "picture", "card"}
    /\ Fails("limit_ran_out")
    /\ UNCHANGED <<looks, entry, asked, checked, pos, running, grace, heard, progress, writeVars>>

\* run, its end: the model is unloaded and the file written for good.
CloseRun ==
    /\ step = "closing"
    /\ Keeps("over")
    /\ running' = {}
    /\ UNCHANGED <<looks, entry, asked, checked, pos, grace, heard, progress>>

\* Core's answers end, and the run is stopped from outside.
CoreEnds(turn) ==
    /\ running' = running \ {turn}
    /\ running # running'
    /\ UNCHANGED <<step, looks, entry, asked, checked, pos, grace, heard, progress, writeVars, ended>>

Killed ==
    /\ step \notin {"over", "killed"}
    /\ step' = "killed"
    /\ UNCHANGED <<looks, entry, asked, checked, pos, running, grace, heard, progress, writeVars,
                   ended>>

MeasureInit ==
    /\ step = "files" /\ looks = 0
    /\ entry \in {"away", "here", "installed"} /\ asked = FALSE /\ checked = FALSE
    /\ pos = [pass |-> 1, item |-> 1, turn |-> 1]
    /\ running = {} /\ grace = FALSE /\ heard = <<>> /\ progress = {}
    /\ results = [whole |-> TRUE, holds |-> {}, going |-> TRUE, ended |-> NoEnd] /\ ended = NoEnd
    /\ onward = "none" /\ written = "well"

MeasureNext ==
    \/ Present
    \/ Stall
    \/ \E to \in Stages : CoreFiles(to)
    \/ \E works \in BOOLEAN : LoadModel(works)
    \/ NextPass
    \/ \E taken \in BOOLEAN : Send(taken)
    \/ Ends
    \/ Overruns
    \/ Stopped
    \/ ReadAnswer
    \/ CarrySend
    \/ \E again \in BOOLEAN : CarryDone(again)
    \/ Reading
    \/ PicturePass
    \/ LimitRunsOut
    \/ CloseRun
    \/ OpenResults
    \/ WriteEnds
    \/ WriteFails
    \/ \E turn \in running : CoreEnds(turn)
    \/ Killed

MeasureSpec == MeasureInit /\ [][MeasureNext]_measureVars

(* A run that ends early keeps what it had. While the last write went well  *)
(* the file is whole and has everything that was measured, whatever writes  *)
(* failed before, and however the run ended; after one that failed, or was  *)
(* stopped part-way, a file that is whole still has no hole: with an item   *)
(* it has every item before it. A file that no longer says the run is going *)
(* has all of it and says why it ended, if it ended early; and one that     *)
(* says nothing of that has every item of every pass. (measure.rs run_pass, *)
(* keep, run. A file that a write emptied and did not fill says nothing.)    *)
NoHole(holds) ==
    \A p \in DOMAIN Passes : \A i \in DOMAIN Passes[p].items :
        Item(p, i) \in holds =>
            \A q \in DOMAIN Passes : \A j \in DOMAIN Passes[q].items :
                q < p \/ (q = p /\ j < i) => Item(q, j) \in holds

ResultsAreKept ==
    /\ written = "well" =>
          results.whole /\ {x \in progress : x.step # "reading"} \subseteq results.holds
    /\ results.whole => NoHole(results.holds)
    /\ ~results.going => results.whole /\ results.ended = ended /\ results.holds = progress
    /\ ~results.going /\ results.ended = NoEnd =>
          \A p \in DOMAIN Passes : \A i \in DOMAIN Passes[p].items : Item(p, i) \in results.holds

(* A message is not queued behind the one before it: while one is asked     *)
(* nothing of an earlier one is being written, unless an answer would not   *)
(* stop within its grace, so no answer's time counts in another's           *)
(* (measure.rs answer_ends).                                                *)
AskedAlone == step = "ask" /\ ~grace => running = {}

(* What a kit measured is each answer's own and is kept (measure.rs).       *)
MeasuredIsKept == ResultsAreKept /\ AskedAlone
============================================================================
