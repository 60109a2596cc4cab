------------------------------ MODULE Downloads ------------------------------
(***************************************************************************)
(* The model downloads of localspace-core: crates/localspace-core/src/     *)
(* models.rs, with the requests of lib.rs that start, stop and delete.     *)
(*                                                                         *)
(* Three threads share the models folder: Core's, which takes the requests *)
(* of people; the downloads' thread, which fetches one model after another *)
(* and ends when nobody waits; and the thread that looks at files that     *)
(* came by other means.  They meet in the line (one lock), in what is      *)
(* shown of each model (another) and in the folder, which has none.  A     *)
(* person may put files into the folder at any moment, and the process may *)
(* be killed at any moment.                                                *)
(***************************************************************************)
EXTENDS Integers, Sequences, FiniteSets

CONSTANTS
  Models,      \* the catalog
  Files,       \* the names of its files
  FilesOf,     \* the files of each model, in order
  Bringable,   \* the files a person may put into the folder, or take out
  Size,        \* each file's published length, in pieces
  Attempts,    \* source.attempts: fruitless tries in a row before giving up
  None         \* no model, no file

\* Of two models no file has the same name, and every file belongs to a model.
ASSUME FilesAssumption ==
  /\ FilesOf \in [Models -> Seq(Files)]
  /\ \A m \in Models, n \in Models : \A i \in DOMAIN FilesOf[m], j \in DOMAIN FilesOf[n] :
       FilesOf[m][i] = FilesOf[n][j] => m = n /\ i = j
  /\ \A f \in Files : \E m \in Models : \E i \in DOMAIN FilesOf[m] : FilesOf[m][i] = f
ASSUME SizesAssumption == Size \in [Files -> Nat \ {0}] /\ Attempts \in Nat \ {0}
ASSUME NoneAssumption == None \notin Models /\ None \notin Files

VARIABLES
  part,     \* the length of <file>.part, or NoPart
  file,     \* what is in the folder under each file's own name
  stamped,  \* the files whose stamp is that of the file as it is
  swapped,  \* those a person exchanged between its hash and its stamp
  busy,     \* line.busy
  running,  \* line.running: the model being fetched
  stop,     \* ... and the flag that stops it
  waiting,  \* line.waiting
  shown,    \* core.downloads: the stage shown of each model
  fetch,    \* the downloads' thread
  scan      \* the thread that looks at what is already there

folder == <<part, file, stamped, swapped>>
line == <<busy, running, stop, waiting>>
vars == <<folder, line, shown, fetch, scan>>

-----------------------------------------------------------------------------
NoPart == -1
Have(f) == IF part[f] = NoPart THEN 0 ELSE part[f]
Whole(f) == Have(f) = Size[f]

Contents == {"none", "short", "published", "other"}
Stages == {"none", "queued", "downloading", "verifying", "ended"}

Owner(f) == CHOOSE m \in Models : \E i \in DOMAIN FilesOf[m] : FilesOf[m][i] = f
Own(m) == {f \in Files : Owner(f) = m}
Waits(m) == \E i \in DOMAIN waiting : waiting[i] = m

Off == [pc |-> "off", left |-> <<>>, start |-> 0, fruitless |-> 0, again |-> FALSE]
ScanOff == [pc |-> "off", work |-> {}, of |-> None, at |-> None]

\* The downloads' thread is at its step pc, with the files in hand still to come;
\* start, fruitless and again are fetch_file's own, and end with it.
FetchAt(pc) == fetch.pc = pc
Turns(pc) == fetch' = [Off EXCEPT !.pc = pc, !.left = fetch.left]
Goes(pc) == Turns(pc) /\ UNCHANGED shown
File == Head(fetch.left)
Show(m, stage) == shown' = [shown EXCEPT ![m] = stage]

\* fetch_and_tell: however it ended, it is shown, and the next one is taken.
Ends(stage) == Show(running, stage) /\ fetch' = [Off EXCEPT !.pc = "take"]

\* holds: the file is there, unchanged since it was found to be the published one.
Holds(f) == file[f] # "none" /\ f \in stamped
Installed(m) == \A f \in Own(m) : Holds(f) /\ part[f] = NoPart

\* Somebody found f to be the published file and has not stamped it yet.
BeingStamped(f) == \/ FetchAt("stamp") /\ File = f
                   \/ scan.pc = "stamp" /\ scan.at = f

\* stamp: length and time are those of the file that is there by now.
Stamp(f) == stamped' = IF file[f] = "none" THEN stamped ELSE stamped \cup {f}

-----------------------------------------------------------------------------
Init ==
  /\ part = [f \in Files |-> NoPart]
  /\ file = [f \in Files |-> "none"]
  /\ stamped = {} /\ swapped = {}
  /\ busy = FALSE /\ running = None /\ stop = FALSE /\ waiting = <<>>
  /\ shown = [m \in Models |-> "none"]
  /\ fetch = Off /\ scan = ScanOff

-----------------------------------------------------------------------------
(* Requests, on Core's thread.                                             *)

\* Catalog::download. The line is locked throughout; its thread is started when
\* none is at work.
Download(m) ==
  /\ shown[m] \notin {"downloading", "verifying", "queued"} /\ ~Waits(m)
  /\ waiting' = Append(waiting, m)
  /\ busy' = TRUE
  /\ IF busy THEN Show(m, "queued") /\ UNCHANGED fetch
     ELSE Show(m, "downloading") /\ fetch' = [Off EXCEPT !.pc = "take"]
  /\ UNCHANGED <<folder, running, stop, scan>>

\* ... and when that thread cannot be started, the line is free again.
DownloadFails(m) ==
  /\ shown[m] \notin {"downloading", "verifying", "queued"} /\ ~Waits(m)
  /\ ~busy
  /\ Show(m, "none")
  /\ UNCHANGED <<folder, line, fetch, scan>>

\* The place at which m waits is given up.
LeavesTheLine(m) ==
  \E at \in DOMAIN waiting :
    /\ waiting[at] = m
    /\ waiting' = SubSeq(waiting, 1, at - 1) \o SubSeq(waiting, at + 1, Len(waiting))

\* Mutant of StopWaiting: it is out of the line and still shown to wait in it.
StopWaitingStillShown(m) ==
  /\ LeavesTheLine(m)
  /\ UNCHANGED <<folder, busy, running, stop, shown, fetch, scan>>

\* Catalog::stop: out of the line, or the flag of the one at work.
StopWaiting(m) ==
  /\ LeavesTheLine(m)
  /\ Show(m, "none")
  /\ UNCHANGED <<folder, busy, running, stop, fetch, scan>>

StopRunning(m) ==
  /\ ~Waits(m) /\ running = m
  /\ stop' = TRUE
  /\ UNCHANGED <<folder, busy, running, waiting, shown, fetch, scan>>

\* Mutant of MayDelete: only those that wait are spared.
MayDeleteRunning(m) == ~Waits(m) /\ shown[m] # "verifying"

\* Catalog::delete: the files, their parts and their stamps; or, when one of
\* them cannot be removed, whatever was removed before it.
MayDelete(m) == running # m /\ ~Waits(m) /\ shown[m] # "verifying"

First(m, n) == {FilesOf[m][i] : i \in 1..n}
Removed(files, parts) ==
  /\ file' = [f \in Files |-> IF f \in files THEN "none" ELSE file[f]]
  /\ part' = [f \in Files |-> IF f \in parts THEN NoPart ELSE part[f]]
  /\ stamped' = stamped \ files
  /\ swapped' = swapped \ files

Delete(m) ==
  /\ MayDelete(m)
  /\ Removed(Own(m), Own(m))
  /\ Show(m, "none")
  /\ UNCHANGED <<line, fetch, scan>>

DeleteFails(m) ==
  /\ MayDelete(m)
  /\ \E i \in DOMAIN FilesOf[m], j \in {0, 1} : Removed(First(m, i - j), First(m, i - 1))
  /\ UNCHANGED <<line, shown, fetch, scan>>

\* Catalog::scan_present: a look at files nobody has checked, when no other is
\* under way.
Unchecked ==
  {f \in Files : /\ file[f] # "none" /\ part[f] = NoPart /\ f \notin stamped
                 /\ shown[Owner(f)] \notin {"downloading", "verifying"}}

ScanPresent ==
  /\ scan.pc = "off" /\ Unchecked # {}
  /\ scan' = [ScanOff EXCEPT !.pc = "pick", !.work = Unchecked]
  /\ UNCHANGED <<folder, line, shown, fetch>>

-----------------------------------------------------------------------------
(* The downloads' thread.                                                  *)

\* Mutant of TakeNext: the thread ends and the line still says it is at work.
TakeNextStaysBusy ==
  /\ FetchAt("take")
  /\ IF waiting = <<>>
     THEN /\ running' = None
          /\ fetch' = Off
          /\ UNCHANGED <<waiting, shown>>
     ELSE /\ running' = Head(waiting)
          /\ waiting' = Tail(waiting)
          /\ fetch' = [Off EXCEPT !.pc = "look", !.left = FilesOf[Head(waiting)]]
          /\ Show(Head(waiting), "downloading")
  /\ stop' = FALSE
  /\ UNCHANGED <<folder, busy, scan>>

\* Mutant of TakeNext: one flag for all downloads.
TakeNextKeepsFlag ==
  /\ FetchAt("take")
  /\ IF waiting = <<>>
     THEN /\ busy' = FALSE /\ running' = None
          /\ fetch' = Off
          /\ UNCHANGED <<waiting, shown>>
     ELSE /\ running' = Head(waiting)
          /\ waiting' = Tail(waiting)
          /\ fetch' = [Off EXCEPT !.pc = "look", !.left = FilesOf[Head(waiting)]]
          /\ Show(Head(waiting), "downloading")
          /\ UNCHANGED busy
  /\ UNCHANGED <<folder, stop, scan>>

\* The next in line, with a flag of its own; the line is left free only when it
\* is empty.
TakeNext ==
  /\ FetchAt("take")
  /\ IF waiting = <<>>
     THEN /\ busy' = FALSE /\ running' = None
          /\ fetch' = Off
          /\ UNCHANGED <<waiting, shown>>
     ELSE /\ running' = Head(waiting)
          /\ waiting' = Tail(waiting)
          /\ fetch' = [Off EXCEPT !.pc = "look", !.left = FilesOf[Head(waiting)]]
          /\ Show(Head(waiting), "downloading")
          /\ UNCHANGED busy
  /\ stop' = FALSE
  /\ UNCHANGED <<folder, scan>>

\* fetch_all, one file: here and known, here and unknown, or to be fetched.
LookAtFile ==
  /\ FetchAt("look")
  /\ IF fetch.left = <<>> THEN Ends("ended")
     ELSE IF file[File] # "none" /\ part[File] = NoPart
     THEN IF Holds(File)
          THEN fetch' = [fetch EXCEPT !.left = Tail(@)] /\ UNCHANGED shown
          ELSE Show(running, "verifying") /\ Turns("hash")
     ELSE Goes("request")
  /\ UNCHANGED <<folder, line, scan>>

\* Mutant of HashFile: a file of the right length counts.
HashFileTrusts ==
  /\ FetchAt("hash")
  /\ \/ file[File] \in {"published", "other"} /\ Goes("stamp")
     \/ file[File] \in {"short", "none"} /\ Ends("ended")
  /\ UNCHANGED <<folder, line, scan>>

\* ... that was here already: it counts, is perhaps still arriving, or is replaced.
HashFile ==
  /\ FetchAt("hash")
  /\ \/ file[File] = "published" /\ Goes("stamp") /\ UNCHANGED folder
     \/ file[File] \in {"short", "none"} /\ Ends("ended") /\ UNCHANGED folder
     \/ file[File] = "other" /\ Removed({File}, {}) /\ Goes("request")
  /\ UNCHANGED <<line, scan>>

\* Mutant of Tried: one try more.
TriedOnceMore(progressed) ==
  LET fruitless == IF progressed THEN 0 ELSE fetch.fruitless + 1 IN
  IF fruitless > Attempts THEN Ends("ended")
  ELSE /\ fetch' = [fetch EXCEPT !.pc = "request", !.start = 0, !.fruitless = fruitless]
       /\ UNCHANGED shown

\* fetch_file: the end of one try.
Tried(progressed) ==
  LET fruitless == IF progressed THEN 0 ELSE fetch.fruitless + 1 IN
  IF fruitless >= Attempts THEN Ends("ended")
  ELSE /\ fetch' = [fetch EXCEPT !.pc = "request", !.start = 0, !.fruitless = fruitless]
       /\ UNCHANGED shown

\* ... before a request: stopped, or everything is here.
RequestNone ==
  /\ FetchAt("request")
  /\ \/ stop /\ Ends("none")
     \/ ~stop /\ Whole(File) /\ Goes("check")
  /\ UNCHANGED <<folder, line, scan>>

\* ... and the request. Once it is sent the flag is not looked at, and nothing
\* ends the wait but the server: the agent has a time limit for connecting alone.
Asks ==
  /\ FetchAt("request") /\ ~stop /\ ~Whole(File)
  /\ fetch' = [fetch EXCEPT !.pc = "asked"]
  /\ UNCHANGED <<folder, line, shown, scan>>

\* ... that brought no answer, or a refusal.
NoAnswer ==
  /\ FetchAt("asked")
  /\ Tried(FALSE) \/ Ends("ended")
  /\ UNCHANGED <<folder, line, scan>>

\* 416: nothing lies beyond what the part holds.
NothingBeyond ==
  /\ FetchAt("asked") /\ Have(File) > 0
  /\ IF Have(File) > Size[File] /\ ~fetch.again
     THEN /\ part' = [part EXCEPT ![File] = NoPart]
          /\ fetch' = [fetch EXCEPT !.pc = "request", !.again = TRUE] /\ UNCHANGED shown
     ELSE Goes("check") /\ UNCHANGED part
  /\ UNCHANGED <<file, stamped, swapped, line, scan>>

\* 206: the rest of the file. 200: the whole of it, and the part starts over.
Answered(resumed) ==
  /\ FetchAt("asked")
  /\ resumed => Have(File) > 0
  /\ part' = [part EXCEPT ![File] = IF resumed THEN @ ELSE 0]
  /\ fetch' = [fetch EXCEPT !.pc = "body", !.start = IF resumed THEN Have(File) ELSE 0]
  /\ UNCHANGED <<file, stamped, swapped, line, shown, scan>>

\* A piece is written, and the flag looked at; pieces past the end of the file
\* are counted as one.
Piece ==
  /\ FetchAt("body")
  /\ part' = [part EXCEPT ![File] = IF @ <= Size[File] THEN @ + 1 ELSE @]
  /\ IF stop THEN Ends("none") ELSE UNCHANGED <<fetch, shown>>
  /\ UNCHANGED <<file, stamped, swapped, line, scan>>

\* The server has sent all it has, or the connection dropped.
BodyEnds(dropped) ==
  /\ FetchAt("body")
  /\ IF ~dropped /\ part[File] >= Size[File] THEN Goes("check")
     ELSE Tried(part[File] > fetch.start)
  /\ UNCHANGED <<folder, line, scan>>

\* Mutant of CheckPart: what came is taken for the file whatever its length.
CheckPartAnyLength ==
  /\ FetchAt("check")
  /\ Show(running, "verifying") /\ Turns("rename")
  /\ UNCHANGED <<folder, line, scan>>

\* A file of another length than the published one, or with another digest, is
\* removed and refused.
CheckPart ==
  /\ FetchAt("check")
  /\ \/ Whole(File) /\ Show(running, "verifying") /\ Turns("rename") /\ UNCHANGED part
     \/ part' = [part EXCEPT ![File] = NoPart] /\ Ends("ended")
  /\ UNCHANGED <<file, stamped, swapped, line, scan>>

RenamePart ==
  /\ FetchAt("rename")
  /\ file' = [file EXCEPT ![File] = IF Whole(File) THEN "published" ELSE "other"]
  /\ part' = [part EXCEPT ![File] = NoPart]
  /\ stamped' = stamped \ {File} /\ swapped' = swapped \ {File}
  /\ Goes("stamp")
  /\ UNCHANGED <<line, scan>>

StampFile ==
  /\ FetchAt("stamp")
  /\ Stamp(File)
  /\ fetch' = [fetch EXCEPT !.pc = "look", !.left = Tail(@)]
  /\ UNCHANGED <<part, file, swapped, line, shown, scan>>

\* A read, a write or a rename fails; what came is kept.
FetchBreaks ==
  /\ fetch.pc \in {"hash", "body", "check", "rename"}
  /\ Ends("ended")
  /\ UNCHANGED <<folder, line, scan>>

-----------------------------------------------------------------------------
(* The thread that looks at what is already there.                         *)

\* The files of one model after another; at the end of a model its check is over.
ScanNext ==
  /\ scan.pc = "pick"
  /\ \/ /\ scan.of # None /\ scan.work \cap Own(scan.of) = {}
        /\ scan' = IF scan.work = {} THEN ScanOff ELSE [scan EXCEPT !.of = None]
        /\ Show(scan.of, "none")
     \/ /\ \E f \in scan.work :
             /\ scan.of \in {None, Owner(f)}
             /\ scan' = [pc |-> "hash", work |-> scan.work \ {f}, of |-> Owner(f), at |-> f]
        /\ UNCHANGED shown
  /\ UNCHANGED <<folder, line, fetch>>

\* Told at most twice a second, so perhaps not at all.
ScanReports ==
  /\ scan.pc = "hash"
  /\ Show(scan.of, "verifying")
  /\ UNCHANGED <<folder, line, fetch, scan>>

ScanHash ==
  /\ scan.pc = "hash"
  /\ scan' = IF file[scan.at] = "published" THEN [scan EXCEPT !.pc = "stamp"]
             ELSE [scan EXCEPT !.pc = "pick", !.at = None]
  /\ UNCHANGED <<folder, line, shown, fetch>>

ScanStamp ==
  /\ scan.pc = "stamp"
  /\ Stamp(scan.at)
  /\ scan' = [scan EXCEPT !.pc = "pick", !.at = None]
  /\ UNCHANGED <<part, file, swapped, line, shown, fetch>>

-----------------------------------------------------------------------------
(* The world.                                                              *)

\* A person puts a file into the folder under a model's name, or takes one out.
Bring(f, content) ==
  /\ f \in Bringable /\ content # file[f]
  /\ file' = [file EXCEPT ![f] = content]
  /\ stamped' = stamped \ {f}
  /\ swapped' = IF BeingStamped(f) /\ content # "none" THEN swapped \cup {f}
                ELSE swapped \ {f}
  /\ UNCHANGED <<part, line, shown, fetch, scan>>

\* The process ends, whatever it was doing, and starts on what is in the folder;
\* the stamps are lost when their file was only half written.
Restart ==
  /\ busy' = FALSE /\ running' = None /\ stop' = FALSE /\ waiting' = <<>>
  /\ shown' = [m \in Models |-> "none"]
  /\ fetch' = Off /\ scan' = ScanOff
  /\ stamped' \in {stamped, {}}
  /\ UNCHANGED <<part, file, swapped>>

-----------------------------------------------------------------------------
Request ==
  \/ \E m \in Models : \/ Download(m) \/ DownloadFails(m)
                       \/ StopWaiting(m) \/ StopRunning(m)
                       \/ Delete(m) \/ DeleteFails(m)
  \/ ScanPresent

Trying == RequestNone \/ Asks \/ NoAnswer \/ NothingBeyond \/ Piece
            \/ (\E resumed \in BOOLEAN : Answered(resumed))
            \/ (\E dropped \in BOOLEAN : BodyEnds(dropped))

Fetching == TakeNext \/ LookAtFile \/ HashFile \/ Trying \/ CheckPart \/ RenamePart
              \/ StampFile \/ FetchBreaks

Scanning == ScanNext \/ ScanReports \/ ScanHash \/ ScanStamp

World == (\E f \in Files, content \in Contents : Bring(f, content)) \/ Restart

Next == Request \/ Fetching \/ Scanning \/ World

Spec == Init /\ [][Next]_vars

\* The downloads' thread waits for the network: for the answer to its request, or
\* for the next bytes of one. No time limit ends either wait.
AwaitsNetwork == FetchAt("asked") \/ FetchAt("body")

\* The downloads' thread runs. Nothing is assumed of the network, which may be
\* silent for ever, of the people, or of the other thread.
FairSpec == Spec /\ WF_vars(Fetching /\ ~AwaitsNetwork)

-----------------------------------------------------------------------------
\* The folder, the line and the threads keep their types.
TypeOK ==
  /\ part \in [Files -> Int] /\ \A f \in Files : part[f] \in NoPart..(Size[f] + 1)
  /\ file \in [Files -> Contents]
  /\ stamped \subseteq Files /\ swapped \subseteq Files
  /\ busy \in BOOLEAN /\ stop \in BOOLEAN
  /\ running \in Models \cup {None}
  /\ waiting \in Seq(Models)
  /\ shown \in [Models -> Stages]
  /\ fetch \in [pc: {"off", "take", "look", "hash", "request", "asked", "body", "check",
                     "rename", "stamp"},
                left: Seq(Files), start: Nat, fruitless: 0..(Attempts - 1),
                again: BOOLEAN]
  /\ scan \in [pc: {"off", "pick", "hash", "stamp"}, work: SUBSET Files,
               of: Models \cup {None}, at: Files \cup {None}]

\* Whoever waits in line is waited for by a thread that will look there: the
\* thread ends and the line becomes free in one step, so that no request comes
\* between and waits for ever. No model is in the line twice.
LineServed ==
  /\ busy <=> fetch.pc # "off"
  /\ waiting # <<>> => busy
  /\ (running = None => fetch.pc \in {"off", "take"}) /\ (running # None => busy)
  /\ \A i, j \in DOMAIN waiting : waiting[i] = waiting[j] => i = j

\* A model shown as waiting, being fetched or being checked is in the hands of
\* somebody who will say otherwise: such a stage refuses every new download of
\* it, and a check every deletion, so one left behind would refuse for ever.
NoGhosts ==
  \A m \in Models :
    /\ shown[m] = "queued" => Waits(m)
    /\ shown[m] = "downloading" => Waits(m) \/ (running = m /\ fetch.pc # "take")
    /\ shown[m] = "verifying" => scan.of = m \/ (running = m /\ fetch.pc # "take")

\* A file whose stamp holds is the published one, whoever put it there and
\* whatever was stopped, killed, deleted or begun again meanwhile; except one
\* that was exchanged between its hash and its stamp.
StampsAreTrue == \A f \in stamped \ swapped : file[f] = "published"

\* "A file arrives as <name>.part and takes its name only when it is whole": what
\* no person put there is the published file, at every moment.
FilesAreWhole == \A f \in Files \ Bringable : file[f] \in {"none", "published"}

\* Nobody takes a part away from the download that writes it: it is there while
\* its pieces come, and it is whole when it takes the file's name.
PartsAreLeftAlone ==
  /\ FetchAt("body") => part[File] # NoPart
  /\ FetchAt("rename") => part[File] = Size[File]

\* The folder holds what it seems to hold (models.rs), the three above together.
FilesAreTrue == StampsAreTrue /\ FilesAreWhole /\ PartsAreLeftAlone

\* A download that is asked to stop does, whatever it was at and whatever the
\* server sends, and the flag stops no other one. The one excuse is a server that
\* falls silent for ever on an open connection: the flag is looked at between
\* pieces and between requests (fetch_file), and neither comes any more.
StopIsHeeded == <>[]stop => <>[]AwaitsNetwork

-----------------------------------------------------------------------------
(* What the program says of itself, and does not always do.                *)

\* "A file is the model's only once its SHA-256 has been found to be the published
\* one, whether it was downloaded or arrived by other means" (installed_path).
InstalledIsPublished ==
  \A m \in Models : Installed(m) => \A f \in Own(m) : file[f] = "published"

\* "Nothing here may download the same file for ever" (fetch_file). A server that
\* sends the file from its beginning each time, and never to its end, is asked
\* again for ever: every piece that comes counts as progress.
FetchFileEnds == fetch.pc \in {"request", "asked", "body"} ~> fetch.pc \notin {"request", "asked", "body"}

=============================================================================
