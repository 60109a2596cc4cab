---------------------------- MODULE DownloadsProof ----------------------------
(***************************************************************************)
(* Proofs about Downloads, for any catalog, any sizes and any number of    *)
(* tries.                                                                  *)
(*                                                                         *)
(* The inductive invariant has two halves. Control is about the line, the  *)
(* stages shown and the threads: LineServed and NoGhosts, what the         *)
(* downloads' thread has in hand (InHand) and what the other one looks at  *)
(* (Looking). Folder is about the files: the properties of them that the   *)
(* runs check, and that a file about to be stamped is the published one    *)
(* unless a person took or exchanged it (AboutToStamp). Most steps touch   *)
(* one of the halves only.                                                 *)
(***************************************************************************)
EXTENDS Downloads, SequenceTheorems, TLAPS

\* The steps of the downloads' thread: with a model at hand, with a file.
Pcs == {"off", "take", "look", "hash", "request", "asked", "body", "check", "rename", "stamp"}
Holding == {"hash", "request", "asked", "body", "check", "rename", "stamp"}
Working == Holding \cup {"look"}

\* TypeOK, the folder's part and the rest.
FolderTyped ==
  /\ part \in [Files -> Int] /\ \A f \in Files : part[f] \in NoPart..(Size[f] + 1)
  /\ file \in [Files -> Contents]
  /\ stamped \subseteq Files /\ swapped \subseteq Files

Fetch == [pc: Pcs, left: Seq(Files), start: Nat, fruitless: 0..(Attempts - 1), again: BOOLEAN]
Scan == [pc: {"off", "pick", "hash", "stamp"}, work: SUBSET Files,
         of: Models \cup {None}, at: Files \cup {None}]

ControlTyped ==
  /\ busy \in BOOLEAN /\ stop \in BOOLEAN /\ running \in Models \cup {None}
  /\ waiting \in Seq(Models) /\ shown \in [Models -> Stages]
  /\ fetch \in Fetch /\ scan \in Scan

\* What the downloads' thread is at work on: the last files of the model it runs.
InHand ==
  /\ fetch.pc \in Holding => fetch.left # <<>>
  /\ fetch.left # <<>> => running # None
  /\ \A i \in DOMAIN fetch.left : Owner(fetch.left[i]) = running

\* What the other thread is looking at.
Looking ==
  /\ scan.pc \in {"hash", "stamp"} => scan.at \in Files /\ scan.of # None
  /\ scan.pc = "off" => scan.of = None

\* A file found to be the published one, before its stamp.
AboutToStamp ==
  \A f \in Files : BeingStamped(f) => f \in swapped \/ file[f] \in {"none", "published"}

Control == ControlTyped /\ LineServed /\ NoGhosts /\ InHand /\ Looking
Folder == FolderTyped /\ StampsAreTrue /\ FilesAreWhole /\ PartsAreLeftAlone /\ AboutToStamp
IInv == Control /\ Folder

-----------------------------------------------------------------------------
(* Facts about the catalog, the line and the thread, cited below.          *)

\* A file belongs to the one model that lists it.
LEMMA Owners ==
  /\ \A f \in Files : Owner(f) \in Models
  /\ \A m \in Models : FilesOf[m] \in Seq(Files)
  /\ \A m \in Models : \A i \in DOMAIN FilesOf[m] : Owner(FilesOf[m][i]) = m
  <1>1. \A m \in Models : FilesOf[m] \in Seq(Files)
    BY FilesAssumption
  <1>2. ASSUME NEW f \in Files
        PROVE  /\ Owner(f) \in Models
               /\ \E i \in DOMAIN FilesOf[Owner(f)] : FilesOf[Owner(f)][i] = f
    BY FilesAssumption DEF Owner
  <1>3. ASSUME NEW m \in Models, NEW i \in DOMAIN FilesOf[m]
        PROVE  Owner(FilesOf[m][i]) = m
    <2>1. FilesOf[m][i] \in Files
      BY <1>1
    <2> QED BY <1>2, <2>1, FilesAssumption
  <1> QED BY <1>1, <1>2, <1>3

\* What a model's first files are.
LEMMA Firsts ==
  ASSUME NEW m \in Models, NEW i \in DOMAIN FilesOf[m], NEW n \in {i, i - 1}
  PROVE  \A f \in First(m, n) : f \in Own(m)
  <1>1. \A k \in 1..n : k \in DOMAIN FilesOf[m] /\ FilesOf[m][k] \in Files
    BY Owners
  <1> QED BY <1>1, Owners DEF First, Own

\* The head and the rest of a line.
LEMMA HeadAndTail ==
  ASSUME NEW S, NEW s \in Seq(S), s # <<>>
  PROVE  /\ Head(s) \in S /\ Head(s) = s[1] /\ Tail(s) \in Seq(S)
         /\ 1 \in DOMAIN s
         /\ \A i \in DOMAIN Tail(s) : i + 1 \in DOMAIN s /\ Tail(s)[i] = s[i + 1] /\ i \in Nat
         /\ \A i \in DOMAIN s : i # 1 => i - 1 \in DOMAIN Tail(s) /\ Tail(s)[i - 1] = s[i]
  OBVIOUS

\* Giving up a place of a line moves those behind it up by one.
LEMMA WithoutOne ==
  ASSUME NEW s \in Seq(Models), NEW at \in 1..Len(s)
  PROVE  \A r : r = SubSeq(s, 1, at - 1) \o SubSeq(s, at + 1, Len(s)) =>
           /\ r \in Seq(Models) /\ Len(r) = Len(s) - 1
           /\ \A k \in 1..(Len(s) - 1) : r[k] = IF k < at THEN s[k] ELSE s[k + 1]
  <1> DEFINE a == SubSeq(s, 1, at - 1)
             b == SubSeq(s, at + 1, Len(s))
  <1>1. Len(s) \in Nat
    OBVIOUS
  <1>2. /\ a \in Seq(Models) /\ Len(a) = at - 1
        /\ \A i \in 1..(at - 1) : a[i] = s[i]
    BY <1>1
  <1>3. /\ b \in Seq(Models) /\ Len(b) = Len(s) - at
        /\ \A i \in 1..(Len(s) - at) : b[i] = s[at + i]
    BY <1>1
  <1> HIDE DEF a, b
  <1>4. /\ a \o b \in Seq(Models) /\ Len(a \o b) = Len(a) + Len(b)
        /\ \A i \in 1..(Len(a) + Len(b)) :
             (a \o b)[i] = IF i <= Len(a) THEN a[i] ELSE b[i - Len(a)]
    BY <1>2, <1>3, ConcatProperties
  <1>5. Len(a) + Len(b) = Len(s) - 1
    BY <1>1, <1>2, <1>3
  <1>6. ASSUME NEW k \in 1..(Len(s) - 1)
        PROVE  (a \o b)[k] = IF k < at THEN s[k] ELSE s[k + 1]
    <2>1. CASE k < at
      BY <1>1, <1>2, <1>4, <1>5, <2>1
    <2>2. CASE k >= at
      <3>1. k - (at - 1) \in 1..(Len(s) - at) /\ ~(k <= at - 1) /\ at + (k - (at - 1)) = k + 1
        BY <1>1, <2>2
      <3>2. (a \o b)[k] = b[k - (at - 1)]
        BY <1>2, <1>4, <1>5, <3>1
      <3>3. b[k - (at - 1)] = s[at + (k - (at - 1))]
        BY <1>3, <3>1
      <3> QED BY <2>2, <3>1, <3>2, <3>3
    <2>3. k < at \/ k >= at
      BY <1>1
    <2> QED BY <2>1, <2>2, <2>3, Zenon
  <1>7. /\ a \o b \in Seq(Models) /\ Len(a \o b) = Len(s) - 1
        /\ \A k \in 1..(Len(s) - 1) : (a \o b)[k] = IF k < at THEN s[k] ELSE s[k + 1]
    BY <1>4, <1>5, <1>6
  <1>8. ASSUME NEW r, r = a \o b
        PROVE  /\ r \in Seq(Models) /\ Len(r) = Len(s) - 1
               /\ \A k \in 1..(Len(s) - 1) : r[k] = IF k < at THEN s[k] ELSE s[k + 1]
    BY <1>7, <1>8
  <1> QED BY <1>8, Zenon DEF a, b

\* ... and neither loses nor doubles anybody else.
LEMMA OnePlaceLess ==
  ASSUME NEW s \in Seq(Models), NEW at \in 1..Len(s), NEW r \in Seq(Models),
         Len(r) = Len(s) - 1,
         \A k \in 1..(Len(s) - 1) : r[k] = IF k < at THEN s[k] ELSE s[k + 1]
  PROVE  /\ \A i \in DOMAIN s : i # at => \E j \in DOMAIN r : r[j] = s[i]
         /\ (\A i, j \in DOMAIN s : s[i] = s[j] => i = j)
              => \A i, j \in DOMAIN r : r[i] = r[j] => i = j
  <1>1. Len(s) \in Nat /\ DOMAIN s = 1..Len(s) /\ DOMAIN r = 1..(Len(s) - 1)
    OBVIOUS
  <1>2. ASSUME NEW i \in DOMAIN s, i # at PROVE \E j \in DOMAIN r : r[j] = s[i]
    <2>1. CASE i < at
      BY <1>1, <2>1
    <2>2. CASE i > at
      <3>1. i - 1 \in 1..(Len(s) - 1) /\ ~(i - 1 < at) /\ (i - 1) + 1 = i
        BY <1>1, <2>2
      <3> QED BY <1>1, <3>1
    <2> QED BY <1>1, <1>2, <2>1, <2>2
  <1>3. ASSUME \A i, j \in DOMAIN s : s[i] = s[j] => i = j,
               NEW i \in DOMAIN r, NEW j \in DOMAIN r, r[i] = r[j]
        PROVE  i = j
    <2> DEFINE was(k) == IF k < at THEN k ELSE k + 1
    <2>1. ASSUME NEW k \in DOMAIN r PROVE was(k) \in DOMAIN s /\ r[k] = s[was(k)]
      BY <1>1
    <2>2. was(i) = was(j)
      BY <1>3, <2>1
    <2> QED BY <1>1, <2>2
  <1> QED BY <1>2, <1>3

-----------------------------------------------------------------------------
(* Steps of the downloads' thread, as far as Control can tell them apart.  *)

GoesOn ==
  /\ fetch' \in Fetch /\ fetch'.pc \in Working
  /\ \/ fetch'.left = fetch.left
     \/ fetch.left # <<>> /\ fetch'.left = Tail(fetch.left) /\ fetch'.pc = "look"
  /\ fetch'.pc \in Holding => fetch.left # <<>>
  /\ shown' = shown \/ Show(running, "verifying")

FetchStep ==
  /\ fetch.pc \in Working
  /\ GoesOn \/ Ends("ended") \/ Ends("none")
  /\ UNCHANGED <<line, scan>>

\* The threads' records.
LEMMA ThreadsTyped ==
  ASSUME ControlTyped
  PROVE  /\ fetch.pc \in Pcs /\ fetch.left \in Seq(Files) /\ fetch.start \in Nat
         /\ fetch.fruitless \in 0..(Attempts - 1) /\ fetch.again \in BOOLEAN
         /\ scan.pc \in {"off", "pick", "hash", "stamp"} /\ scan.work \in SUBSET Files
         /\ scan.of \in Models \cup {None} /\ scan.at \in Files \cup {None}
         /\ fetch.left # <<>> => File \in Files /\ File = fetch.left[1] /\ 1 \in DOMAIN fetch.left
  <1>1. fetch \in Fetch /\ scan \in Scan
    BY DEF ControlTyped
  <1>2. /\ fetch.pc \in Pcs /\ fetch.left \in Seq(Files) /\ fetch.start \in Nat
        /\ fetch.fruitless \in 0..(Attempts - 1) /\ fetch.again \in BOOLEAN
    BY <1>1 DEF Fetch
  <1>3. /\ scan.pc \in {"off", "pick", "hash", "stamp"} /\ scan.work \in SUBSET Files
        /\ scan.of \in Models \cup {None} /\ scan.at \in Files \cup {None}
    BY <1>1 DEF Scan
  <1> QED BY <1>2, <1>3, HeadAndTail DEF File

\* A thread at rest, about to take the next, and at the beginning of one.
LEMMA OffTyped ==
  /\ Off \in Fetch /\ ScanOff \in Scan
  /\ [Off EXCEPT !.pc = "take"] \in Fetch
  /\ \A pc \in Pcs, left \in Seq(Files) : [Off EXCEPT !.pc = pc, !.left = left] \in Fetch
  <1>1. 0 \in 0..(Attempts - 1) /\ <<>> \in Seq(Files)
    BY SizesAssumption
  <1> QED BY <1>1 DEF Off, ScanOff, Fetch, Scan, Pcs

LEMMA FetchStepControl ==
  ASSUME Control, FetchStep
  PROVE  Control'
  <1>1. running \in Models /\ fetch.left \in Seq(Files)
    BY ThreadsTyped DEF Control, LineServed, FetchStep, Working, Holding, ControlTyped
  <1>2. UNCHANGED <<busy, running, stop, waiting, scan>>
    BY DEF FetchStep, line
  <1>3. CASE GoesOn
    <2>1. ControlTyped'
      BY <1>1, <1>2, <1>3 DEF Control, ControlTyped, GoesOn, Show, Stages
    <2>2. LineServed'
      BY <1>1, <1>2, <1>3, NoneAssumption
      DEF Control, LineServed, GoesOn, FetchStep, Working, Holding
    <2>3. NoGhosts'
      BY <1>1, <1>2, <1>3 DEF Control, ControlTyped, NoGhosts, Waits, GoesOn, Show, Working,
                              Holding, FetchStep
    <2>4. InHand'
      <3>1. CASE fetch'.left = fetch.left
        BY <1>2, <1>3, <3>1 DEF Control, InHand, GoesOn
      <3>2. CASE fetch.left # <<>> /\ fetch'.left = Tail(fetch.left) /\ fetch'.pc = "look"
        BY <1>1, <1>2, <3>2, HeadAndTail, NoneAssumption DEF Control, InHand, Holding
      <3> QED BY <1>3, <3>1, <3>2 DEF GoesOn
    <2>5. Looking'
      BY <1>2 DEF Control, Looking
    <2> QED BY <2>1, <2>2, <2>3, <2>4, <2>5 DEF Control
  <1>4. CASE Ends("ended") \/ Ends("none")
    <2>1. /\ fetch' = [Off EXCEPT !.pc = "take"] /\ fetch'.pc = "take" /\ fetch'.left = <<>>
          /\ \E stage \in {"ended", "none"} : shown' = [shown EXCEPT ![running] = stage]
      BY <1>4 DEF Ends, Off, Show
    <2>2. ControlTyped'
      BY <1>2, <2>1, OffTyped DEF Control, ControlTyped, Stages
    <2>3. LineServed'
      BY <1>2, <2>1 DEF Control, LineServed, FetchStep, Working, Holding
    <2>4. NoGhosts'
      BY <1>1, <1>2, <2>1 DEF Control, ControlTyped, NoGhosts, Waits
    <2>5. InHand' /\ Looking'
      BY <1>2, <2>1 DEF Control, InHand, Looking, Holding
    <2> QED BY <2>2, <2>3, <2>4, <2>5 DEF Control
  <1> QED BY <1>3, <1>4 DEF FetchStep

\* A step that leaves the folder as it is, and begins no writing and no stamping.
LEMMA FolderKept ==
  ASSUME Folder, UNCHANGED folder,
         \/ fetch'.pc = fetch.pc /\ fetch'.left = fetch.left
         \/ fetch'.pc \notin {"body", "rename", "stamp"},
         (scan'.pc = scan.pc /\ scan'.at = scan.at) \/ scan'.pc # "stamp"
  PROVE  Folder'
  <1>1. UNCHANGED <<part, file, stamped, swapped>>
    BY DEF folder
  <1>2. FolderTyped' /\ StampsAreTrue' /\ FilesAreWhole'
    BY <1>1 DEF Folder, FolderTyped, StampsAreTrue, FilesAreWhole
  <1>3. PartsAreLeftAlone'
    BY <1>1 DEF Folder, PartsAreLeftAlone, FetchAt, File
  <1>4. AboutToStamp'
    BY <1>1 DEF Folder, AboutToStamp, BeingStamped, FetchAt, File
  <1> QED BY <1>2, <1>3, <1>4 DEF Folder

\* Going on to another step with the same files in hand.
LEMMA TurnsOn ==
  ASSUME Control, NEW pc \in Working, fetch' = [Off EXCEPT !.pc = pc, !.left = fetch.left]
  PROVE  fetch' \in Fetch /\ fetch'.pc = pc /\ fetch'.left = fetch.left
  <1>1. fetch.left \in Seq(Files) /\ pc \in Pcs
    BY ThreadsTyped DEF Control, Working, Holding, Pcs
  <1> QED BY <1>1, OffTyped DEF Off

\* The end of one try: another, or none.
LEMMA TriedStep ==
  ASSUME Control, fetch.pc \in {"asked", "body"}, NEW progressed, Tried(progressed)
  PROVE  (GoesOn /\ fetch'.pc = "request") \/ Ends("ended")
  <1> DEFINE n == IF progressed THEN 0 ELSE fetch.fruitless + 1
  <1>1. CASE n >= Attempts
    BY <1>1 DEF Tried
  <1>2. CASE ~(n >= Attempts)
    <2>1. /\ fetch' = [fetch EXCEPT !.pc = "request", !.start = 0, !.fruitless = n]
          /\ UNCHANGED shown
      BY <1>2 DEF Tried
    <2>2. n \in 0..(Attempts - 1)
      BY <1>2, ThreadsTyped, SizesAssumption DEF Control
    <2>3. fetch' \in Fetch
      BY <2>1, <2>2 DEF Control, ControlTyped, Fetch, Pcs
    <2>4. fetch'.pc = "request" /\ fetch'.left = fetch.left /\ fetch.left # <<>>
      BY <2>1 DEF Control, ControlTyped, Fetch, InHand, Holding
    <2> QED BY <2>1, <2>3, <2>4 DEF GoesOn, Working, Holding
  <1> QED BY <1>1, <1>2

LEMMA LookAtFileStep == ASSUME IInv, LookAtFile PROVE IInv'
  <1>1. Control /\ Folder /\ fetch.pc = "look" /\ UNCHANGED <<line, scan>> /\ UNCHANGED folder
    BY DEF IInv, LookAtFile, FetchAt
  <1>2. fetch.pc \in Working /\ {"look", "hash", "request"} \subseteq Working
    BY <1>1 DEF Working, Holding
  <1>3. (GoesOn \/ Ends("ended")) /\ fetch'.pc \notin {"body", "rename", "stamp"}
    <2>1. CASE fetch.left = <<>>
      BY <2>1 DEF LookAtFile, Ends, Off
    <2>2. CASE fetch.left # <<>> /\ fetch' = [fetch EXCEPT !.left = Tail(@)] /\ UNCHANGED shown
      <3>1. Tail(fetch.left) \in Seq(Files)
        BY <1>1, <2>2, ThreadsTyped, HeadAndTail DEF Control
      <3>2. fetch' \in Fetch /\ fetch'.left = Tail(fetch.left) /\ fetch'.pc = "look"
        BY <1>1, <2>2, <3>1 DEF Control, ControlTyped, Fetch
      <3> QED BY <1>2, <2>2, <3>2 DEF GoesOn, Holding
    <2>3. CASE fetch.left # <<>> /\ Show(running, "verifying") /\ Turns("hash")
      BY <1>1, <1>2, <2>3, TurnsOn DEF GoesOn, Turns
    <2>4. CASE fetch.left # <<>> /\ Goes("request")
      BY <1>1, <1>2, <2>4, TurnsOn DEF GoesOn, Goes, Turns
    <2> QED BY <2>1, <2>2, <2>3, <2>4 DEF LookAtFile
  <1>4. Control'
    BY <1>1, <1>2, <1>3, FetchStepControl DEF FetchStep
  <1>5. Folder'
    BY <1>1, <1>3, FolderKept
  <1> QED BY <1>4, <1>5 DEF IInv

\* Files and parts that nobody writes and nobody stamps go away: those of a
\* model that is not run, or under their own name only.
LEMMA RemovedFolder ==
  ASSUME Folder, NEW files, NEW parts, Removed(files, parts),
         \/ fetch'.pc = fetch.pc /\ fetch'.left = fetch.left
         \/ fetch'.pc \notin {"body", "rename", "stamp"},
         scan' = scan,
         fetch'.pc \in {"body", "rename"} => File \in Files \ parts
  PROVE  Folder'
  <1>1. FolderTyped'
    <2>1. /\ file' \in [Files -> Contents] /\ part' \in [Files -> Int]
          /\ stamped' \subseteq Files /\ swapped' \subseteq Files
      BY DEF Folder, FolderTyped, Removed, Contents, NoPart
    <2>2. ASSUME NEW f \in Files PROVE part'[f] \in NoPart..(Size[f] + 1)
      BY SizesAssumption DEF Folder, FolderTyped, Removed, NoPart
    <2> QED BY <2>1, <2>2 DEF FolderTyped
  <1>2. StampsAreTrue' /\ FilesAreWhole'
    BY DEF Folder, FolderTyped, StampsAreTrue, FilesAreWhole, Removed
  <1>3. PartsAreLeftAlone'
    <2>1. ASSUME fetch'.pc \in {"body", "rename"}
          PROVE  fetch'.pc = fetch.pc /\ File' = File /\ part'[File] = part[File]
      BY <2>1 DEF File, Removed
    <2> QED BY <2>1 DEF Folder, PartsAreLeftAlone, FetchAt
  <1>4. AboutToStamp'
    BY DEF Folder, FolderTyped, AboutToStamp, BeingStamped, FetchAt, File, Removed
  <1> QED BY <1>1, <1>2, <1>3, <1>4 DEF Folder

LEMMA HashFileStep == ASSUME IInv, HashFile PROVE IInv'
  <1>1. Control /\ Folder /\ fetch.pc = "hash" /\ UNCHANGED <<line, scan>> /\ File \in Files
        /\ fetch.left # <<>>
    BY ThreadsTyped DEF IInv, HashFile, FetchAt, Control, InHand, Holding
  <1>2. fetch.pc \in Working /\ {"stamp", "request"} \subseteq Working
    BY <1>1 DEF Working, Holding
  <1>3. CASE file[File] = "published" /\ Goes("stamp") /\ UNCHANGED folder
    <2>1. GoesOn /\ fetch'.pc = "stamp" /\ fetch'.left = fetch.left
      BY <1>1, <1>2, <1>3, TurnsOn DEF GoesOn, Goes, Turns
    <2>2. Control'
      BY <1>1, <1>2, <2>1, FetchStepControl DEF FetchStep
    <2>3. UNCHANGED <<part, file, stamped, swapped, scan>>
      BY <1>1, <1>3 DEF folder
    <2>4. FolderTyped' /\ StampsAreTrue' /\ FilesAreWhole'
      BY <1>1, <2>3 DEF Folder, FolderTyped, StampsAreTrue, FilesAreWhole
    <2>5. PartsAreLeftAlone'
      BY <2>1 DEF PartsAreLeftAlone, FetchAt
    <2>6. AboutToStamp'
      BY <1>1, <1>3, <2>1, <2>3 DEF Folder, AboutToStamp, BeingStamped, FetchAt, File
    <2> QED BY <2>2, <2>4, <2>5, <2>6 DEF IInv, Folder
  <1>4. CASE Ends("ended") /\ UNCHANGED folder
    <2>1. Control'
      BY <1>1, <1>2, <1>4, FetchStepControl DEF FetchStep
    <2>2. Folder'
      BY <1>1, <1>4, FolderKept DEF Ends, Off
    <2> QED BY <2>1, <2>2 DEF IInv
  <1>5. CASE Removed({File}, {}) /\ Goes("request")
    <2>1. GoesOn /\ fetch'.pc = "request"
      BY <1>1, <1>2, <1>5, TurnsOn DEF GoesOn, Goes, Turns
    <2>2. Control'
      BY <1>1, <1>2, <2>1, FetchStepControl DEF FetchStep
    <2>3. Folder'
      BY <1>1, <1>5, <2>1, RemovedFolder
    <2> QED BY <2>2, <2>3 DEF IInv
  <1> QED BY <1>3, <1>4, <1>5 DEF HashFile

\* One part of another length, while nothing takes a file's name or is stamped.
LEMMA PartFolder ==
  ASSUME Folder, NEW f \in Files, NEW n \in NoPart..(Size[f] + 1),
         part' = [part EXCEPT ![f] = n], UNCHANGED <<file, stamped, swapped, scan>>,
         fetch'.pc \notin {"rename", "stamp"},
         fetch'.pc = "body" => File' = f /\ n # NoPart
  PROVE  Folder'
  <1>1. FolderTyped'
    BY SizesAssumption DEF Folder, FolderTyped, NoPart
  <1>2. StampsAreTrue' /\ FilesAreWhole' /\ PartsAreLeftAlone'
    BY DEF Folder, FolderTyped, StampsAreTrue, FilesAreWhole, PartsAreLeftAlone, FetchAt
  <1>3. AboutToStamp'
    BY DEF Folder, AboutToStamp, BeingStamped, FetchAt
  <1> QED BY <1>1, <1>2, <1>3 DEF Folder

LEMMA TryingStep == ASSUME IInv, Trying PROVE IInv'
  <1>1. ASSUME fetch.pc \in {"request", "asked", "body"}
        PROVE  /\ Control /\ Folder /\ fetch.pc \in Working /\ File \in Files /\ fetch.left # <<>>
               /\ part[File] \in NoPart..(Size[File] + 1) /\ Size[File] \in Nat \ {0}
    BY <1>1, ThreadsTyped, SizesAssumption
    DEF IInv, Control, Folder, FolderTyped, InHand, Holding, Working
  <1>2. {"request", "asked", "body", "check"} \subseteq Working
    BY DEF Working, Holding
  \* Steps that leave the folder alone and write no piece.
  <1>3. ASSUME fetch.pc \in {"request", "asked", "body"}, UNCHANGED <<folder, line, scan>>,
               \/ GoesOn /\ fetch'.pc \in {"request", "asked", "check"}
               \/ Ends("ended") \/ Ends("none")
        PROVE  IInv'
    <2>1. Control'
      BY <1>1, <1>3, FetchStepControl DEF FetchStep
    <2>2. Folder'
      BY <1>1, <1>3, FolderKept DEF Ends, Off
    <2> QED BY <2>1, <2>2 DEF IInv
  <1>4. ASSUME fetch.pc \in {"request", "asked", "body"}, Goes("check")
        PROVE  GoesOn /\ fetch'.pc = "check"
    BY <1>1, <1>2, <1>4, TurnsOn DEF GoesOn, Goes, Turns
  <1>5. CASE RequestNone
    BY <1>3, <1>4, <1>5 DEF RequestNone, FetchAt
  <1>6. CASE NoAnswer
    BY <1>1, <1>3, <1>6, TriedStep DEF NoAnswer, FetchAt
  <1>7. CASE NothingBeyond
    <2>1. fetch.pc = "asked" /\ UNCHANGED <<line, scan>> /\ UNCHANGED <<file, stamped, swapped>>
      BY <1>7 DEF NothingBeyond, FetchAt
    <2>2. CASE Goes("check") /\ UNCHANGED part
      BY <1>3, <1>4, <2>1, <2>2 DEF folder
    <2>3. CASE /\ part' = [part EXCEPT ![File] = NoPart]
               /\ fetch' = [fetch EXCEPT !.pc = "request", !.again = TRUE] /\ UNCHANGED shown
      <3>1. fetch' \in Fetch /\ fetch'.pc = "request" /\ fetch'.left = fetch.left
        BY <1>1, <2>1, <2>3 DEF Control, ControlTyped, Fetch, Pcs
      <3>2. Control'
        BY <1>1, <1>2, <2>1, <2>3, <3>1, FetchStepControl DEF FetchStep, GoesOn
      <3>3. Folder'
        <4>1. NoPart \in NoPart..(Size[File] + 1)
          BY <1>1, <2>1 DEF NoPart
        <4> QED BY <1>1, <2>1, <2>3, <3>1, <4>1, PartFolder
      <3> QED BY <3>2, <3>3 DEF IInv
    <2> QED BY <1>7, <2>2, <2>3 DEF NothingBeyond
  <1>8. ASSUME NEW resumed \in BOOLEAN, Answered(resumed) PROVE IInv'
    <2>1. fetch.pc = "asked" /\ UNCHANGED <<line, shown, scan>>
          /\ UNCHANGED <<file, stamped, swapped>>
      BY <1>8 DEF Answered, FetchAt
    <2>2. Have(File) \in Nat
      BY <1>1, <2>1 DEF Have, NoPart
    <2>3. fetch' \in Fetch /\ fetch'.pc = "body" /\ fetch'.left = fetch.left
      BY <1>1, <1>8, <2>1, <2>2 DEF Answered, Control, ControlTyped, Fetch, Pcs
    <2>4. Control'
      BY <1>1, <1>2, <2>1, <2>3, FetchStepControl DEF FetchStep, GoesOn
    <2> DEFINE n == IF resumed THEN part[File] ELSE 0
    <2>5. part' = [part EXCEPT ![File] = n]
      BY <1>8 DEF Answered
    <2>6. n \in NoPart..(Size[File] + 1) /\ n # NoPart
      BY <1>1, <1>8, <2>1 DEF Answered, Have, NoPart
    <2> HIDE DEF n
    <2>7. Folder'
      BY <1>1, <2>1, <2>3, <2>5, <2>6, PartFolder DEF File
    <2> QED BY <2>4, <2>7 DEF IInv
  <1>9. CASE Piece
    <2>1. fetch.pc = "body" /\ UNCHANGED <<line, scan>> /\ UNCHANGED <<file, stamped, swapped>>
          /\ part' = [part EXCEPT ![File] = IF @ <= Size[File] THEN @ + 1 ELSE @]
      BY <1>9 DEF Piece, FetchAt
    <2> DEFINE n == IF part[File] <= Size[File] THEN part[File] + 1 ELSE part[File]
    <2>2. n \in NoPart..(Size[File] + 1) /\ n # NoPart
      BY <1>1, <2>1 DEF NoPart
    <2>3. part' = [part EXCEPT ![File] = n]
      BY <2>1
    <2> HIDE DEF n
    <2>4. CASE Ends("none")
      <3>1. Control'
        BY <1>1, <2>1, <2>4, FetchStepControl DEF FetchStep
      <3>2. Folder'
        BY <1>1, <2>1, <2>2, <2>3, <2>4, PartFolder DEF Ends, Off
      <3> QED BY <3>1, <3>2 DEF IInv
    <2>5. CASE UNCHANGED <<fetch, shown>>
      <3>1. Control'
        BY <1>1, <2>1, <2>5, FetchStepControl DEF FetchStep, GoesOn, Control, ControlTyped
      <3>2. Folder'
        BY <1>1, <2>1, <2>2, <2>3, <2>5, PartFolder DEF File
      <3> QED BY <3>1, <3>2 DEF IInv
    <2> QED BY <1>9, <2>4, <2>5 DEF Piece
  <1>10. ASSUME NEW dropped \in BOOLEAN, BodyEnds(dropped) PROVE IInv'
    BY <1>1, <1>3, <1>4, <1>10, TriedStep DEF BodyEnds, FetchAt
  <1>11. CASE Asks
    <2>1. /\ fetch.pc = "request" /\ fetch' = [fetch EXCEPT !.pc = "asked"]
          /\ UNCHANGED <<folder, line, scan>> /\ UNCHANGED shown
      BY <1>11 DEF Asks, FetchAt
    <2>2. fetch' \in Fetch /\ fetch'.pc = "asked" /\ fetch'.left = fetch.left
      BY <1>1, <2>1 DEF Control, ControlTyped, Fetch, Pcs
    <2>3. GoesOn
      BY <1>1, <1>2, <2>1, <2>2 DEF GoesOn
    <2> QED BY <1>3, <2>1, <2>2, <2>3
  <1> QED BY <1>5, <1>6, <1>7, <1>8, <1>9, <1>10, <1>11 DEF Trying

LEMMA CheckPartStep == ASSUME IInv, CheckPart PROVE IInv'
  <1>1. /\ Control /\ Folder /\ fetch.pc = "check" /\ fetch.pc \in Working /\ "rename" \in Working
        /\ File \in Files /\ fetch.left # <<>> /\ UNCHANGED <<line, scan>>
        /\ UNCHANGED <<file, stamped, swapped>> /\ Size[File] \in Nat \ {0}
        /\ part[File] \in NoPart..(Size[File] + 1)
    BY ThreadsTyped, SizesAssumption
    DEF IInv, CheckPart, FetchAt, Control, Folder, FolderTyped, InHand, Working, Holding
  <1>2. CASE Whole(File) /\ Show(running, "verifying") /\ Turns("rename") /\ UNCHANGED part
    <2>1. GoesOn /\ fetch'.pc = "rename" /\ fetch'.left = fetch.left
      BY <1>1, <1>2, TurnsOn DEF GoesOn, Turns
    <2>2. Control'
      BY <1>1, <2>1, FetchStepControl DEF FetchStep
    <2>3. FolderTyped' /\ StampsAreTrue' /\ FilesAreWhole'
      BY <1>1, <1>2 DEF Folder, FolderTyped, StampsAreTrue, FilesAreWhole
    <2>4. PartsAreLeftAlone'
      BY <1>1, <1>2, <2>1 DEF PartsAreLeftAlone, FetchAt, File, Whole, Have
    <2>5. AboutToStamp'
      BY <1>1, <2>1 DEF Folder, AboutToStamp, BeingStamped, FetchAt
    <2> QED BY <2>2, <2>3, <2>4, <2>5 DEF IInv, Folder
  <1>3. CASE part' = [part EXCEPT ![File] = NoPart] /\ Ends("ended")
    <2>1. Control'
      BY <1>1, <1>3, FetchStepControl DEF FetchStep
    <2>2. NoPart \in NoPart..(Size[File] + 1)
      BY <1>1 DEF NoPart
    <2>3. Folder'
      BY <1>1, <1>3, <2>2, PartFolder DEF Ends, Off
    <2> QED BY <2>1, <2>3 DEF IInv
  <1> QED BY <1>2, <1>3 DEF CheckPart

LEMMA RenamePartStep == ASSUME IInv, RenamePart PROVE IInv'
  <1>1. /\ Control /\ Folder /\ fetch.pc = "rename" /\ fetch.pc \in Working /\ "stamp" \in Working
        /\ File \in Files /\ fetch.left # <<>> /\ UNCHANGED <<line, scan>>
    BY ThreadsTyped DEF IInv, RenamePart, FetchAt, Control, InHand, Working, Holding
  <1>2. GoesOn /\ fetch'.pc = "stamp" /\ fetch'.left = fetch.left
    BY <1>1, TurnsOn DEF GoesOn, Goes, Turns, RenamePart
  <1>3. Control'
    BY <1>1, <1>2, FetchStepControl DEF FetchStep
  <1>4. Whole(File)
    BY <1>1, SizesAssumption DEF Folder, PartsAreLeftAlone, FetchAt, Whole, Have, NoPart
  <1>5. /\ file' = [file EXCEPT ![File] = "published"] /\ part' = [part EXCEPT ![File] = NoPart]
        /\ stamped' = stamped \ {File} /\ swapped' = swapped \ {File}
    BY <1>4 DEF RenamePart
  <1>6. FolderTyped'
    <2>1. /\ file' \in [Files -> Contents] /\ part' \in [Files -> Int]
          /\ stamped' \subseteq Files /\ swapped' \subseteq Files
      BY <1>1, <1>5 DEF Folder, FolderTyped, NoPart, Contents
    <2>2. ASSUME NEW f \in Files PROVE part'[f] \in NoPart..(Size[f] + 1)
      <3>1. Size[f] \in Nat /\ part[f] \in NoPart..(Size[f] + 1) /\ part \in [Files -> Int]
        BY <1>1, SizesAssumption DEF Folder, FolderTyped
      <3>2. part'[f] = NoPart \/ part'[f] = part[f]
        BY <1>5, <3>1
      <3> QED BY <3>1, <3>2 DEF NoPart
    <2> QED BY <2>1, <2>2 DEF FolderTyped
  <1>7. StampsAreTrue' /\ FilesAreWhole'
    BY <1>1, <1>5 DEF Folder, FolderTyped, StampsAreTrue, FilesAreWhole
  <1>8. PartsAreLeftAlone'
    BY <1>2 DEF PartsAreLeftAlone, FetchAt
  <1>9. AboutToStamp'
    BY <1>1, <1>2, <1>5 DEF Folder, FolderTyped, AboutToStamp, BeingStamped, FetchAt, File
  <1> QED BY <1>3, <1>6, <1>7, <1>8, <1>9 DEF IInv, Folder

\* A stamp, by either thread, on the file it found to be the published one.
LEMMA StampFolder ==
  ASSUME Folder, NEW f \in Files, BeingStamped(f), Stamp(f),
         UNCHANGED <<part, file, swapped>>,
         fetch' = fetch \/ fetch'.pc = "look",
         scan' = scan \/ scan'.pc = "pick"
  PROVE  Folder'
  <1>1. FolderTyped' /\ FilesAreWhole'
    BY DEF Folder, FolderTyped, FilesAreWhole, Stamp
  <1>2. StampsAreTrue'
    BY DEF Folder, AboutToStamp, StampsAreTrue, Stamp
  <1>3. PartsAreLeftAlone'
    BY DEF Folder, PartsAreLeftAlone, FetchAt, File
  <1>4. AboutToStamp'
    BY DEF Folder, AboutToStamp, BeingStamped, FetchAt, File
  <1> QED BY <1>1, <1>2, <1>3, <1>4 DEF Folder

LEMMA StampFileStep == ASSUME IInv, StampFile PROVE IInv'
  <1>1. /\ Control /\ Folder /\ fetch.pc = "stamp" /\ fetch.pc \in Working
        /\ File \in Files /\ fetch.left # <<>> /\ UNCHANGED <<line, shown, scan>>
    BY ThreadsTyped DEF IInv, StampFile, FetchAt, Control, InHand, Working, Holding
  <1>2. Tail(fetch.left) \in Seq(Files)
    BY <1>1, ThreadsTyped, HeadAndTail DEF Control
  <1>3. fetch' \in Fetch /\ fetch'.pc = "look" /\ fetch'.left = Tail(fetch.left)
    BY <1>1, <1>2 DEF StampFile, Control, ControlTyped, Fetch, Pcs
  <1>4. Control'
    BY <1>1, <1>3, FetchStepControl DEF FetchStep, GoesOn, Working, Holding
  <1>5. Folder'
    BY <1>1, <1>3, StampFolder DEF StampFile, BeingStamped, FetchAt
  <1> QED BY <1>4, <1>5 DEF IInv

LEMMA FetchBreaksStep == ASSUME IInv, FetchBreaks PROVE IInv'
  <1>1. fetch.pc \in Working
    BY DEF FetchBreaks, Working, Holding
  <1>2. Control'
    BY <1>1, FetchStepControl DEF IInv, FetchBreaks, FetchStep
  <1>3. Folder'
    BY FolderKept DEF IInv, FetchBreaks, Ends, Off
  <1> QED BY <1>2, <1>3 DEF IInv

LEMMA TakeNextStep == ASSUME IInv, TakeNext PROVE IInv'
  <1>1. /\ Control /\ Folder /\ fetch.pc = "take" /\ UNCHANGED scan /\ UNCHANGED folder
        /\ stop' = FALSE /\ busy
    BY DEF IInv, TakeNext, FetchAt, Control, LineServed
  <1>2. CASE waiting = <<>>
    <2>1. /\ busy' = FALSE /\ running' = None /\ fetch' = Off /\ UNCHANGED <<waiting, shown>>
          /\ fetch'.pc = "off" /\ fetch'.left = <<>>
      BY <1>2 DEF TakeNext, Off
    <2>2. ControlTyped' /\ LineServed'
      BY <1>1, <1>2, <2>1, OffTyped DEF Control, ControlTyped, LineServed
    <2>3. NoGhosts' /\ InHand' /\ Looking'
      BY <1>1, <2>1 DEF Control, NoGhosts, Waits, InHand, Looking, Holding
    <2>4. Folder'
      BY <1>1, <2>1, FolderKept
    <2> QED BY <2>2, <2>3, <2>4 DEF IInv, Control
  <1>3. CASE waiting # <<>>
    <2> DEFINE m == waiting[1]
    <2>1. /\ m \in Models /\ Head(waiting) = m /\ Tail(waiting) \in Seq(Models)
          /\ 1 \in DOMAIN waiting /\ DOMAIN waiting = 1..Len(waiting)
          /\ \A i \in DOMAIN Tail(waiting) :
               i + 1 \in DOMAIN waiting /\ Tail(waiting)[i] = waiting[i + 1] /\ i \in Nat
          /\ \A i \in DOMAIN waiting :
               i # 1 => i - 1 \in DOMAIN Tail(waiting) /\ Tail(waiting)[i - 1] = waiting[i]
      BY <1>1, <1>3, HeadAndTail DEF Control, ControlTyped
    <2>2. /\ running' = m /\ waiting' = Tail(waiting) /\ shown' = [shown EXCEPT ![m] = "downloading"]
          /\ fetch' = [Off EXCEPT !.pc = "look", !.left = FilesOf[m]] /\ busy' = busy
      BY <1>3, <2>1 DEF TakeNext, Show
    <2> HIDE DEF m
    <2>3. fetch' \in Fetch /\ fetch'.pc = "look" /\ fetch'.left = FilesOf[m]
      BY <2>1, <2>2, Owners, OffTyped DEF Off, Pcs
    <2>4. ControlTyped'
      BY <1>1, <2>1, <2>2, <2>3 DEF Control, ControlTyped, Stages
    <2>5. LineServed'
      <3>1. \A i, j \in DOMAIN Tail(waiting) : Tail(waiting)[i] = Tail(waiting)[j] => i = j
        BY <1>1, <2>1 DEF Control, LineServed
      <3> QED BY <1>1, <2>1, <2>2, <2>3, <3>1, NoneAssumption DEF Control, LineServed
    <2>6. NoGhosts'
      <3>1. \A w \in Models : Waits(w) /\ w # m => Waits(w)'
        BY <2>1, <2>2 DEF Waits, m
      <3> QED BY <1>1, <2>1, <2>2, <2>3, <3>1 DEF Control, ControlTyped, NoGhosts
    <2>7. InHand' /\ Looking'
      BY <1>1, <2>1, <2>2, <2>3, Owners, NoneAssumption DEF Control, InHand, Looking, Holding
    <2>8. Folder'
      BY <1>1, <2>3, FolderKept
    <2> QED BY <2>4, <2>5, <2>6, <2>7, <2>8 DEF IInv, Control
  <1> QED BY <1>2, <1>3

-----------------------------------------------------------------------------
(* Requests.                                                               *)

LEMMA DownloadStep == ASSUME IInv, NEW m \in Models, Download(m) PROVE IInv'
  <1>1. /\ Control /\ Folder /\ UNCHANGED <<running, stop, scan>> /\ UNCHANGED folder
        /\ waiting' = Append(waiting, m) /\ busy' = TRUE /\ ~Waits(m)
    BY DEF IInv, Download
  <1>2. \/ busy /\ fetch' = fetch /\ shown' = [shown EXCEPT ![m] = "queued"]
        \/ /\ ~busy /\ shown' = [shown EXCEPT ![m] = "downloading"]
           /\ fetch' = [Off EXCEPT !.pc = "take"] /\ fetch'.pc = "take" /\ fetch'.left = <<>>
           /\ fetch.pc = "off" /\ running = None
    BY DEF IInv, Control, LineServed, Download, Show, Off
  <1>3. /\ waiting \in Seq(Models) /\ waiting' \in Seq(Models) /\ waiting' # <<>>
        /\ DOMAIN waiting = 1..Len(waiting) /\ Len(waiting) \in Nat
        /\ DOMAIN waiting' = 1..(Len(waiting) + 1) /\ waiting'[Len(waiting) + 1] = m
        /\ \A i \in DOMAIN waiting : waiting'[i] = waiting[i]
    BY <1>1 DEF Control, ControlTyped
  <1>4. \A w \in Models : Waits(w)' <=> Waits(w) \/ w = m
    BY <1>3 DEF Waits
  <1>5. ControlTyped'
    BY <1>1, <1>2, <1>3, OffTyped DEF Control, ControlTyped, Stages
  <1>6. LineServed'
    <2>1. \A i, j \in DOMAIN waiting' : waiting'[i] = waiting'[j] => i = j
      BY <1>1, <1>3 DEF Waits, Control, LineServed
    <2> QED BY <1>1, <1>2, <1>3, <2>1 DEF Control, LineServed
  <1>7. NoGhosts'
    BY <1>1, <1>2, <1>4, NoneAssumption DEF Control, ControlTyped, NoGhosts
  <1>8. InHand' /\ Looking'
    BY <1>1, <1>2 DEF Control, InHand, Looking, Holding
  <1>9. Folder'
    BY <1>1, <1>2, FolderKept
  <1> QED BY <1>5, <1>6, <1>7, <1>8, <1>9 DEF IInv, Control

\* A model that is shown to be at rest, with nothing else changed.
LEMMA ShownAtRest ==
  ASSUME Control, NEW m \in Models, shown' = [shown EXCEPT ![m] = "none"],
         UNCHANGED <<line, fetch, scan>>
  PROVE  Control'
  <1>1. UNCHANGED <<busy, running, stop, waiting>>
    BY DEF line
  <1>2. ControlTyped' /\ LineServed' /\ InHand' /\ Looking'
    BY <1>1 DEF Control, ControlTyped, LineServed, InHand, Looking, Stages
  <1>3. NoGhosts'
    BY <1>1 DEF Control, ControlTyped, NoGhosts, Waits
  <1> QED BY <1>2, <1>3 DEF Control

LEMMA DownloadFailsStep == ASSUME IInv, NEW m \in Models, DownloadFails(m) PROVE IInv'
  BY ShownAtRest, FolderKept DEF IInv, DownloadFails, Show

LEMMA StopWaitingStep == ASSUME IInv, NEW m \in Models, StopWaiting(m) PROVE IInv'
  <1>1. /\ Control /\ Folder /\ UNCHANGED <<busy, running, stop, fetch, scan>> /\ UNCHANGED folder
        /\ shown' = [shown EXCEPT ![m] = "none"] /\ waiting \in Seq(Models)
    BY DEF IInv, StopWaiting, Show, Control, ControlTyped
  <1>2. PICK at \in DOMAIN waiting :
          /\ waiting[at] = m
          /\ waiting' = SubSeq(waiting, 1, at - 1) \o SubSeq(waiting, at + 1, Len(waiting))
    BY DEF StopWaiting, LeavesTheLine
  <1>3. /\ waiting' \in Seq(Models)
        /\ \A i \in DOMAIN waiting : i # at => \E j \in DOMAIN waiting' : waiting'[j] = waiting[i]
        /\ (\A i, j \in DOMAIN waiting : waiting[i] = waiting[j] => i = j)
             => \A i, j \in DOMAIN waiting' : waiting'[i] = waiting'[j] => i = j
    <2>1. /\ at \in 1..Len(waiting) /\ waiting' \in Seq(Models) /\ Len(waiting') = Len(waiting) - 1
          /\ \A k \in 1..(Len(waiting) - 1) :
               waiting'[k] = IF k < at THEN waiting[k] ELSE waiting[k + 1]
      <3>1. at \in 1..Len(waiting)
        BY <1>1, <1>2
      <3> QED BY <1>1, <1>2, <3>1, WithoutOne, Zenon
    <2> QED BY <1>1, <2>1, OnePlaceLess, ZenonT(60)
  <1>4. waiting[at] = m /\ waiting # <<>>
    BY <1>1, <1>2
  <1>5. \A w \in Models : Waits(w) /\ w # m => Waits(w)'
    BY <1>3, <1>4 DEF Waits
  <1>6. \A i, j \in DOMAIN waiting' : waiting'[i] = waiting'[j] => i = j
    BY <1>1, <1>3 DEF Control, LineServed
  <1>7. ControlTyped'
    BY <1>1, <1>3 DEF Control, ControlTyped, Stages
  <1>8. LineServed'
    BY <1>1, <1>4, <1>6 DEF Control, LineServed
  <1>9. NoGhosts'
    BY <1>1, <1>5 DEF Control, ControlTyped, NoGhosts
  <1>10. InHand' /\ Looking'
    BY <1>1 DEF Control, InHand, Looking
  <1>11. Folder'
    BY <1>1, FolderKept
  <1> QED BY <1>7, <1>8, <1>9, <1>10, <1>11 DEF IInv, Control

LEMMA StopRunningStep == ASSUME IInv, NEW m \in Models, StopRunning(m) PROVE IInv'
  <1>1. /\ Control /\ Folder /\ UNCHANGED <<busy, running, waiting, shown, fetch, scan>>
        /\ UNCHANGED folder /\ stop' = TRUE
    BY DEF IInv, StopRunning
  <1>2. Control'
    BY <1>1 DEF Control, ControlTyped, LineServed, NoGhosts, Waits, InHand, Looking
  <1>3. Folder'
    BY <1>1, FolderKept
  <1> QED BY <1>2, <1>3 DEF IInv

\* The file in the downloads' thread's hands is none of a model it does not run.
LEMMA NotInHand ==
  ASSUME IInv, NEW m \in Models, MayDelete(m), fetch.pc \in {"body", "rename"}
  PROVE  File \in Files /\ File \notin Own(m)
  <1>1. fetch.left # <<>> /\ File \in Files /\ File = fetch.left[1] /\ 1 \in DOMAIN fetch.left
    BY ThreadsTyped DEF IInv, Control, InHand, Holding
  <1> QED BY <1>1 DEF IInv, Control, InHand, MayDelete, Own

LEMMA DeleteStep == ASSUME IInv, NEW m \in Models, Delete(m) PROVE IInv'
  <1>1. Control'
    BY ShownAtRest DEF IInv, Delete, Show
  <1>2. Folder'
    BY NotInHand, RemovedFolder DEF IInv, Delete
  <1> QED BY <1>1, <1>2 DEF IInv

LEMMA ControlKept == ASSUME Control, UNCHANGED <<line, shown, fetch, scan>> PROVE Control'
  BY DEF Control, ControlTyped, LineServed, NoGhosts, Waits, InHand, Looking, line

LEMMA DeleteFailsStep == ASSUME IInv, NEW m \in Models, DeleteFails(m) PROVE IInv'
  <1>1. Control'
    BY ControlKept DEF IInv, DeleteFails
  <1>2. PICK i \in DOMAIN FilesOf[m], j \in {0, 1} :
          Removed(First(m, i - j), First(m, i - 1))
    BY DEF DeleteFails
  <1>3. \A f \in First(m, i - 1) : f \in Own(m)
    BY Firsts
  <1>4. Folder'
    BY <1>2, <1>3, NotInHand, RemovedFolder DEF IInv, DeleteFails
  <1> QED BY <1>1, <1>4 DEF IInv

-----------------------------------------------------------------------------
(* The other thread, and the world.                                        *)

LEMMA ScanPresentStep == ASSUME IInv, ScanPresent PROVE IInv'
  <1>1. /\ Control /\ Folder /\ UNCHANGED <<line, shown, fetch>> /\ UNCHANGED folder
        /\ scan.pc = "off" /\ scan' = [ScanOff EXCEPT !.pc = "pick", !.work = Unchecked]
    BY DEF IInv, ScanPresent
  <1>2. UNCHANGED <<busy, running, stop, waiting>>
    BY <1>1 DEF line
  <1>3. scan' \in Scan /\ scan'.pc = "pick" /\ scan'.of = None
    BY <1>1 DEF ScanOff, Scan, Unchecked
  <1>4. Control'
    <2>1. ControlTyped' /\ LineServed' /\ InHand' /\ Looking'
      BY <1>1, <1>2, <1>3 DEF Control, ControlTyped, LineServed, InHand, Looking
    <2>2. NoGhosts'
      BY <1>1, <1>2, <1>3, NoneAssumption DEF Control, NoGhosts, Waits, Looking
    <2> QED BY <2>1, <2>2 DEF Control
  <1>5. Folder'
    BY <1>1, <1>3, FolderKept
  <1> QED BY <1>4, <1>5 DEF IInv

LEMMA ScanNextStep == ASSUME IInv, ScanNext PROVE IInv'
  <1>1. /\ Control /\ Folder /\ UNCHANGED <<line, fetch>> /\ UNCHANGED folder
        /\ scan.pc = "pick" /\ scan \in Scan /\ UNCHANGED <<busy, running, stop, waiting>>
    BY DEF IInv, ScanNext, Control, ControlTyped, line
  <1>2. CASE /\ scan.of # None
             /\ scan' = IF scan.work = {} THEN ScanOff ELSE [scan EXCEPT !.of = None]
             /\ Show(scan.of, "none")
    <2>1. scan' \in Scan /\ scan'.pc \in {"off", "pick"} /\ scan'.of = None /\ scan.of \in Models
      BY <1>1, <1>2, OffTyped DEF ScanOff, Scan
    <2>2. ControlTyped' /\ LineServed' /\ InHand' /\ Looking'
      BY <1>1, <1>2, <2>1 DEF Control, ControlTyped, LineServed, InHand, Looking, Show, Stages
    <2>3. NoGhosts'
      BY <1>1, <1>2, <2>1 DEF Control, ControlTyped, NoGhosts, Waits, Show
    <2>4. Folder'
      BY <1>1, <2>1, FolderKept
    <2> QED BY <2>2, <2>3, <2>4 DEF IInv, Control
  <1>3. ASSUME NEW f \in scan.work, scan.of \in {None, Owner(f)},
               scan' = [pc |-> "hash", work |-> scan.work \ {f}, of |-> Owner(f), at |-> f],
               UNCHANGED shown
        PROVE  IInv'
    <2>1. /\ scan' \in Scan /\ scan'.pc = "hash" /\ scan'.of = Owner(f) /\ scan'.at = f
          /\ f \in Files /\ Owner(f) # None
      BY <1>1, <1>3, Owners, NoneAssumption DEF Scan
    <2>2. ControlTyped' /\ LineServed' /\ InHand' /\ Looking'
      BY <1>1, <1>3, <2>1 DEF Control, ControlTyped, LineServed, InHand, Looking
    <2>3. NoGhosts'
      BY <1>1, <1>3, <2>1, NoneAssumption DEF Control, NoGhosts, Waits
    <2>4. Folder'
      BY <1>1, <2>1, FolderKept
    <2> QED BY <2>2, <2>3, <2>4 DEF IInv, Control
  <1> QED BY <1>2, <1>3 DEF ScanNext

LEMMA ScanReportsStep == ASSUME IInv, ScanReports PROVE IInv'
  <1>1. /\ Control /\ Folder /\ UNCHANGED <<line, fetch, scan>> /\ UNCHANGED folder
        /\ shown' = [shown EXCEPT ![scan.of] = "verifying"] /\ scan.of \in Models
        /\ UNCHANGED <<busy, running, stop, waiting>>
    BY ThreadsTyped DEF IInv, ScanReports, Show, Control, Looking, line
  <1>2. ControlTyped' /\ LineServed' /\ InHand' /\ Looking'
    BY <1>1 DEF Control, ControlTyped, LineServed, InHand, Looking, Stages
  <1>3. NoGhosts'
    BY <1>1 DEF Control, ControlTyped, NoGhosts, Waits
  <1>4. Folder'
    BY <1>1, FolderKept
  <1> QED BY <1>2, <1>3, <1>4 DEF IInv, Control

\* The other thread goes on with the same model.
LEMMA ScanGoesOn ==
  ASSUME Control, UNCHANGED <<line, shown, fetch>>, scan.pc \in {"hash", "stamp"},
         \/ scan' = [scan EXCEPT !.pc = "stamp"]
         \/ scan' = [scan EXCEPT !.pc = "pick", !.at = None]
  PROVE  Control'
  <1>1. scan \in Scan /\ UNCHANGED <<busy, running, stop, waiting>>
    BY DEF Control, ControlTyped, line
  <1>2. /\ scan' \in Scan /\ scan'.of = scan.of
        /\ \/ scan'.pc = "stamp" /\ scan'.at = scan.at
           \/ scan'.pc = "pick"
    BY <1>1 DEF Scan
  <1>3. ControlTyped' /\ LineServed' /\ InHand' /\ Looking'
    BY <1>1, <1>2 DEF Control, ControlTyped, LineServed, InHand, Looking
  <1>4. NoGhosts'
    BY <1>1, <1>2 DEF Control, NoGhosts, Waits
  <1> QED BY <1>3, <1>4 DEF Control

LEMMA ScanHashStep == ASSUME IInv, ScanHash PROVE IInv'
  <1>1. /\ Control /\ Folder /\ UNCHANGED <<line, shown, fetch>> /\ UNCHANGED folder
        /\ scan.pc = "hash" /\ scan \in Scan
    BY DEF IInv, ScanHash, Control, ControlTyped
  <1>2. Control'
    BY <1>1, ScanGoesOn DEF ScanHash
  <1>3. CASE file[scan.at] = "published" /\ scan' = [scan EXCEPT !.pc = "stamp"]
    <2>1. scan'.pc = "stamp" /\ scan'.at = scan.at
      BY <1>1, <1>3 DEF Scan
    <2>2. UNCHANGED <<part, file, stamped, swapped, fetch>>
      BY <1>1 DEF folder
    <2>3. FolderTyped' /\ StampsAreTrue' /\ FilesAreWhole' /\ PartsAreLeftAlone'
      BY <1>1, <2>2
      DEF Folder, FolderTyped, StampsAreTrue, FilesAreWhole, PartsAreLeftAlone, FetchAt, File
    <2>4. AboutToStamp'
      BY <1>1, <1>3, <2>1, <2>2 DEF Folder, AboutToStamp, BeingStamped, FetchAt, File
    <2> QED BY <1>2, <2>3, <2>4 DEF IInv, Folder
  <1>4. CASE scan' = [scan EXCEPT !.pc = "pick", !.at = None]
    <2>1. scan'.pc = "pick"
      BY <1>1, <1>4 DEF Scan
    <2>2. Folder'
      BY <1>1, <2>1, FolderKept
    <2> QED BY <1>2, <2>2 DEF IInv
  <1> QED BY <1>3, <1>4 DEF ScanHash

LEMMA ScanStampStep == ASSUME IInv, ScanStamp PROVE IInv'
  <1>1. /\ Control /\ Folder /\ UNCHANGED <<line, shown, fetch>> /\ UNCHANGED <<part, file, swapped>>
        /\ scan.pc = "stamp" /\ scan \in Scan /\ scan.at \in Files
        /\ scan' = [scan EXCEPT !.pc = "pick", !.at = None] /\ Stamp(scan.at)
    BY DEF IInv, ScanStamp, Control, ControlTyped, Looking
  <1>2. Control'
    BY <1>1, ScanGoesOn
  <1>3. scan'.pc = "pick" /\ BeingStamped(scan.at)
    BY <1>1 DEF Scan, BeingStamped
  <1>4. Folder'
    BY <1>1, <1>3, StampFolder
  <1> QED BY <1>2, <1>4 DEF IInv

LEMMA BringStep ==
  ASSUME IInv, NEW f \in Files, NEW content \in Contents, Bring(f, content)
  PROVE  IInv'
  <1>1. /\ Folder /\ UNCHANGED <<part, line, shown, fetch, scan>> /\ f \in Bringable
        /\ file' = [file EXCEPT ![f] = content] /\ stamped' = stamped \ {f}
        /\ swapped' = IF BeingStamped(f) /\ content # "none" THEN swapped \cup {f}
                      ELSE swapped \ {f}
    BY DEF IInv, Bring
  <1>2. Control'
    BY ControlKept DEF IInv, Bring
  <1>3. FolderTyped'
    BY <1>1 DEF Folder, FolderTyped
  <1>4. StampsAreTrue' /\ FilesAreWhole' /\ PartsAreLeftAlone'
    BY <1>1
    DEF Folder, FolderTyped, StampsAreTrue, FilesAreWhole, PartsAreLeftAlone, FetchAt, File
  <1>5. AboutToStamp'
    <2>1. \A g \in Files : BeingStamped(g)' <=> BeingStamped(g)
      BY <1>1 DEF BeingStamped, FetchAt, File
    <2> QED BY <1>1, <2>1 DEF Folder, FolderTyped, AboutToStamp
  <1> QED BY <1>2, <1>3, <1>4, <1>5 DEF IInv, Folder

LEMMA RestartStep == ASSUME IInv, Restart PROVE IInv'
  <1>1. /\ busy' = FALSE /\ running' = None /\ stop' = FALSE /\ waiting' = <<>>
        /\ shown' = [m \in Models |-> "none"] /\ fetch' = Off /\ scan' = ScanOff
        /\ stamped' \subseteq stamped /\ UNCHANGED <<part, file, swapped>> /\ Folder
    BY DEF IInv, Restart
  <1>2. /\ fetch'.pc = "off" /\ fetch'.left = <<>>
        /\ scan'.pc = "off" /\ scan'.of = None
    BY <1>1 DEF Off, ScanOff
  <1>3. ControlTyped' /\ LineServed'
    <2>1. waiting' \in Seq(Models) /\ DOMAIN waiting' = {}
      BY <1>1
    <2>2. shown' \in [Models -> Stages] /\ fetch' \in Fetch /\ scan' \in Scan
      BY <1>1, OffTyped DEF Stages
    <2>3. ControlTyped'
      BY <1>1, <2>1, <2>2 DEF ControlTyped
    <2>4. LineServed'
      BY <1>1, <1>2, <2>1 DEF LineServed
    <2> QED BY <2>3, <2>4
  <1>4. NoGhosts' /\ InHand' /\ Looking'
    BY <1>1, <1>2 DEF NoGhosts, InHand, Looking, Holding
  <1>5. FolderTyped' /\ StampsAreTrue' /\ FilesAreWhole'
    BY <1>1 DEF Folder, FolderTyped, StampsAreTrue, FilesAreWhole
  <1>6. PartsAreLeftAlone' /\ AboutToStamp'
    BY <1>2 DEF PartsAreLeftAlone, AboutToStamp, BeingStamped, FetchAt
  <1> QED BY <1>3, <1>4, <1>5, <1>6 DEF IInv, Control, Folder

-----------------------------------------------------------------------------
\* The invariant holds at the start: the folder is empty and nobody is at work.
LEMMA InitInv == Init => IInv
  <1> SUFFICES ASSUME Init PROVE IInv
    OBVIOUS
  <1>1. /\ fetch.pc = "off" /\ fetch.left = <<>> /\ scan.pc = "off" /\ scan.of = None
        /\ fetch \in Fetch /\ scan \in Scan
    BY OffTyped DEF Init, Off, ScanOff
  <1>2. waiting \in Seq(Models) /\ DOMAIN waiting = {} /\ waiting = <<>>
    BY DEF Init
  <1>3. ControlTyped
    BY <1>1, <1>2 DEF Init, ControlTyped, Stages
  <1>4. LineServed /\ NoGhosts /\ InHand /\ Looking
    BY <1>1, <1>2 DEF Init, LineServed, NoGhosts, InHand, Looking, Holding
  <1>5. FolderTyped
    BY SizesAssumption DEF Init, FolderTyped, NoPart, Contents
  <1>6. StampsAreTrue /\ FilesAreWhole /\ PartsAreLeftAlone /\ AboutToStamp
    BY <1>1 DEF Init, StampsAreTrue, FilesAreWhole, PartsAreLeftAlone, AboutToStamp,
                BeingStamped, FetchAt
  <1> QED BY <1>3, <1>4, <1>5, <1>6 DEF IInv, Control, Folder

\* Every step keeps it.
LEMMA StepInv == IInv /\ [Next]_vars => IInv'
  <1> SUFFICES ASSUME IInv, [Next]_vars PROVE IInv'
    OBVIOUS
  <1>1. CASE Request
    BY <1>1, DownloadStep, DownloadFailsStep, StopWaitingStep, StopRunningStep, DeleteStep,
       DeleteFailsStep, ScanPresentStep DEF Request
  <1>2. CASE Fetching
    BY <1>2, TakeNextStep, LookAtFileStep, HashFileStep, TryingStep, CheckPartStep,
       RenamePartStep, StampFileStep, FetchBreaksStep DEF Fetching
  <1>3. CASE Scanning
    BY <1>3, ScanNextStep, ScanReportsStep, ScanHashStep, ScanStampStep DEF Scanning
  <1>4. CASE World
    BY <1>4, BringStep, RestartStep DEF World
  <1>5. CASE UNCHANGED vars
    <2>1. UNCHANGED folder /\ UNCHANGED <<line, shown, fetch, scan>>
      BY <1>5 DEF vars
    <2> QED BY <2>1, ControlKept, FolderKept DEF IInv
  <1> QED BY <1>1, <1>2, <1>3, <1>4, <1>5 DEF Next

LEMMA Invariance == Spec => []IInv
  BY InitInv, StepInv, PTL DEF Spec

\* The folder, the line and the threads keep their types, for any catalog.
THEOREM TypeCorrect == Spec => []TypeOK
  <1>1. ControlTyped /\ FolderTyped => TypeOK
    BY Zenon DEF ControlTyped, FolderTyped, Fetch, Scan, Pcs, TypeOK
  <1>2. IInv => TypeOK
    BY <1>1 DEF IInv, Control, Folder
  <1> QED BY <1>2, Invariance, PTL

\* Whoever waits for a download is waited for by a thread: the downloads' thread
\* never ends (Catalog::download) with somebody left in the line.
THEOREM LineIsServed == Spec => []LineServed
  <1>1. IInv => LineServed
    BY DEF IInv, Control
  <1> QED BY <1>1, Invariance, PTL

\* No stage that refuses downloads or deletions is left behind by the threads
\* that show it, through stops, failures and restarts.
THEOREM NoGhostsRemain == Spec => []NoGhosts
  <1>1. IInv => NoGhosts
    BY DEF IInv, Control
  <1> QED BY <1>1, Invariance, PTL

\* A file whose stamp holds is the published one, unless it was exchanged between
\* its hash and its stamp: whatever is stopped, killed, brought or deleted.
THEOREM StampsStayTrue == Spec => []StampsAreTrue
  <1>1. IInv => StampsAreTrue
    BY DEF IInv, Folder
  <1> QED BY <1>1, Invariance, PTL

\* Under its own name a file that no person brought is whole, or not there.
THEOREM FilesStayWhole == Spec => []FilesAreWhole
  <1>1. IInv => FilesAreWhole
    BY DEF IInv, Folder
  <1> QED BY <1>1, Invariance, PTL

\* Deletions, scans and restarts leave the part that is being written alone, and
\* it takes the file's name only at its full length.
THEOREM PartsStayInPlace == Spec => []PartsAreLeftAlone
  <1>1. IInv => PartsAreLeftAlone
    BY DEF IInv, Folder
  <1> QED BY <1>1, Invariance, PTL

\* The folder holds what it seems to hold: stamps are true, names are whole files
\* and parts are left to the download that writes them (models.rs fetch and scan).
THEOREM FilesStayTrue == Spec => []FilesAreTrue
  BY StampsStayTrue, FilesStayWhole, PartsStayInPlace, PTL DEF FilesAreTrue
=============================================================================
