----------------------------- MODULE EngineProof -----------------------------
(***************************************************************************)
(* That a stop wins and that starts are rationed, for any models, any      *)
(* number of starts at a time, any card and any limits: the inductive      *)
(* invariant of Engine and the theorems that follow from it.               *)
(*                                                                         *)
(* A stop takes the status, the process and the router one after the       *)
(* other, and the supervisor goes on between them.  So the invariant says  *)
(* what the supervisor of an engine that is being stopped, or that Core    *)
(* has let go of, can still be about (Quiet): it has seen the stop, will   *)
(* see it before it starts a process again, or is in its watch, from which *)
(* only a crash leads back to a start - and that crash is then on record.  *)
(***************************************************************************)
EXTENDS Engine, FiniteSetTheorems, SequenceTheorems, TLAPS

-----------------------------------------------------------------------------
Ages == 0 .. Window

SlotRecords ==
  [model : Models \union {None}, status : Statuses, pc : Steps, child : Children,
   age : Nat, restarts : Seq(Ages), room : Nat, layers : Nat, starts : Nat,
   looks : BOOLEAN, bare : BOOLEAN]

CoreRecords ==
  [pc : Requests, held : 0 .. Loads, next : Models \union {None},
   then : {"idle", "start", "delete"}]

EngineTypeOK ==
  /\ s \in [Slots -> SlotRecords]
  /\ core \in CoreRecords
  /\ cap \in [Models -> Nat]
  /\ installed \subseteq Models

(* The inductive invariant. *)

AfterCrash == {"restarting", "respawn", "giveup", "unroute"}

\* A supervisor that is past its first crash has it on record, and never more
\* than RESTARTS of them.
Rationed(r) == /\ Len(r.restarts) <= Restarts
               /\ r.pc \in AfterCrash => r.restarts # <<>>

\* What the supervisor of a stopped engine may be about.
Quiet(r) == r.restarts = <<>> =>
              r.status = "Stopped" \/ r.pc \in {"done", "timedout", "watch", "crashed"}

\* No process is left of it.
Gone(r) == r.restarts = <<>> => r.child = "none"

Stopping == {"kill", "forget", "drop"}

\* A request names a model where it needs one, and an engine is started only
\* when none is held.
RequestIsSound ==
  /\ core.pc = "start" => core.held = 0
  /\ core.pc \in {"start", "delete"} => core.next \in Models
  /\ core.pc \in Stopping /\ core.then \in {"start", "delete"} => core.next \in Models

EngineInv ==
  /\ EngineTypeOK
  /\ RequestIsSound
  /\ \A e \in Slots : Rationed(s[e])
  /\ \A e \in Slots : core.held # e => Quiet(s[e]) /\ Gone(s[e])
  /\ core.pc \in Stopping => core.held \in Slots /\ Quiet(s[core.held])

-----------------------------------------------------------------------------
(* The operators of the model. *)

LEMMA LimitFacts ==
  /\ Loads \in Nat /\ MaxStarts \in Nat /\ Restarts \in Nat \ {0} /\ Window \in Nat \ {0}
  /\ LoadTimeout \in Nat /\ 0 \in Ages /\ Window \in Ages
  /\ 0 \notin Slots /\ Slots \subseteq Nat /\ Slots \subseteq 0 .. Loads
BY BoundsAssumption DEF Ages, Slots

LEMMA MinOfTwo ==
  ASSUME NEW a \in Int, NEW b \in Int
  PROVE  Min({a, b}) = IF a <= b THEN a ELSE b
BY DEF Min

LEMMA MaxOfTwo ==
  ASSUME NEW a \in Int, NEW b \in Int
  PROVE  Max({a, b}) = IF a >= b THEN a ELSE b
BY DEF Max

LEMMA UnlearntFacts == Unlearnt \in Nat
<1>1. PICK most \in Rooms : \A room \in Rooms : room <= most
  BY BoundsAssumption
<1>2. Max(Rooms) \in Rooms
  BY <1>1, BoundsAssumption DEF Max
<1> QED
  BY <1>2, BoundsAssumption DEF Unlearnt

\* A quarter of the layers and at least two of them, but never more than there are.
LEMMA GivenBackFacts ==
  ASSUME NEW layers \in Nat
  PROVE  GivenBack(layers) \in 0 .. layers
<1>1. layers \div 4 \in Int
  OBVIOUS
<1>2. Max({layers \div 4, 2}) \in Int /\ Max({layers \div 4, 2}) >= 2
  BY <1>1, MaxOfTwo
<1> QED
  BY <1>2, MinOfTwo DEF GivenBack

\* Those that are kept are no more than there were.
LEMMA RecentFacts ==
  ASSUME NEW e \in Slots, s[e] \in SlotRecords
  PROVE  /\ Recent(e) \in Seq(Ages)
         /\ Len(Recent(e)) \in Nat
         /\ Len(Recent(e)) <= Len(s[e].restarts)
<1> DEFINE ago == s[e].restarts
           old == {i \in DOMAIN ago : ago[i] >= Window}
<1>1. ago \in Seq(Ages) /\ Len(ago) \in Nat /\ DOMAIN ago = 1 .. Len(ago)
  BY DEF SlotRecords
<1>2. Cardinality(old) \in Nat
  <2>1. IsFiniteSet(1 .. Len(ago)) /\ old \in SUBSET (1 .. Len(ago))
    BY <1>1, FS_Interval
  <2>2. IsFiniteSet(old)
    BY <2>1, FS_Subset
  <2> QED
    BY <2>2, FS_CardinalityType
<1>3. \A i \in (1 + Cardinality(old)) .. Len(ago) : ago[i] \in Ages
  BY <1>1, <1>2
<1>4. /\ SubSeq(ago, 1 + Cardinality(old), Len(ago)) \in Seq(Ages)
      /\ Len(SubSeq(ago, 1 + Cardinality(old), Len(ago))) =
           IF 1 + Cardinality(old) <= Len(ago) THEN Len(ago) - (1 + Cardinality(old)) + 1 ELSE 0
  BY <1>1, <1>2, <1>3, SubSeqProperties
<1> QED
  BY <1>1, <1>2, <1>4 DEF Recent

LEMMA UnusedFacts ==
  /\ Unused \in SlotRecords
  /\ Unused.restarts = <<>> /\ Unused.pc = "done" /\ Unused.child = "none"
BY EmptySeq DEF Unused, SlotRecords, Statuses, Steps, Children

-----------------------------------------------------------------------------
LEMMA EngineInvInit == Init => EngineInv
<1> SUFFICES ASSUME Init PROVE EngineInv
  OBVIOUS
<1>1. EngineTypeOK
  BY UnusedFacts, UnlearntFacts, LimitFacts DEF Init, EngineTypeOK, Idle, CoreRecords, Requests
<1>2. \A e \in Slots : s[e] = Unused
  BY DEF Init
<1>3. Len(<<>>) <= Restarts
  BY LimitFacts
<1> QED
  BY <1>1, <1>2, <1>3, UnusedFacts
  DEF EngineInv, Init, Idle, RequestIsSound, Rationed, Quiet, Gone, Stopping, AfterCrash

-----------------------------------------------------------------------------
(* A step of a supervisor or of a process changes one start, and leaves    *)
(* what a stop has made of it.                                             *)

LEMMA SlotStep ==
  ASSUME EngineInv, NEW e \in Slots, NEW r \in SlotRecords, Becomes(e, r),
         Rationed(r),
         Quiet(s[e]) => Quiet(r),
         Quiet(s[e]) /\ Gone(s[e]) => Gone(r),
         core' = core, cap' \in [Models -> Nat], installed' \subseteq Models
  PROVE  EngineInv'
<1> USE DEF EngineInv
<1>1. s' = [s EXCEPT ![e] = r] /\ s \in [Slots -> SlotRecords]
  BY DEF Becomes, EngineTypeOK
<1>2. EngineTypeOK' /\ RequestIsSound'
  BY <1>1 DEF EngineTypeOK, RequestIsSound
<1>3. \A d \in Slots : s'[d] = IF d = e THEN r ELSE s[d]
  BY <1>1
<1>4. \A d \in Slots : Rationed(s'[d]) /\ (core.held # d => Quiet(s'[d]) /\ Gone(s'[d]))
  BY <1>3
<1>5. core.pc \in Stopping => core.held \in Slots /\ Quiet(s'[core.held])
  BY <1>3
<1> QED
  BY <1>2, <1>4, <1>5

\* Where a step leaves the record of crashes, the status and the process as
\* they were.
LEMMA GoesStep ==
  ASSUME EngineInv, NEW e \in Slots, NEW pc \in Steps, Goes(e, pc),
         UNCHANGED Elsewhere,
         s[e].restarts = <<>> => pc \notin AfterCrash,
         s[e].status = "Stopped" \/ s[e].pc \notin {"done", "timedout", "watch", "crashed"}
                                 \/ pc \in {"done", "timedout", "watch", "crashed"}
  PROVE  EngineInv'
<1> DEFINE r == [s[e] EXCEPT !.pc = pc]
<1>1. s[e] \in SlotRecords
  BY DEF EngineInv, EngineTypeOK
<1>2. r \in SlotRecords /\ r.pc = pc /\ r.restarts = s[e].restarts /\ r.status = s[e].status /\ r.child = s[e].child
  BY <1>1 DEF SlotRecords
<1>3. Becomes(e, r)
  BY DEF Goes
<1> HIDE DEF r
<1>4. Rationed(r) /\ (Quiet(s[e]) => Quiet(r)) /\ (Gone(s[e]) => Gone(r))
  BY <1>2 DEF EngineInv, Rationed, Quiet, Gone
<1> QED
  BY <1>2, <1>3, <1>4, SlotStep DEF EngineInv, EngineTypeOK, Elsewhere, Aside

LEMMA ReturnsStep ==
  ASSUME EngineInv, NEW e \in Slots, NEW status \in Statuses, NEW child \in Children,
         Returns(e, status, child), child \in {s[e].child, "none"},
         UNCHANGED <<core, cap, installed>>
  PROVE  EngineInv'
<1> DEFINE r == [Unused EXCEPT !.model = s[e].model, !.bare = s[e].bare, !.status = status,
                               !.child = child, !.restarts = s[e].restarts]
<1>1. s[e] \in SlotRecords
  BY DEF EngineInv, EngineTypeOK
<1>2. r \in SlotRecords /\ r.pc = "done" /\ r.restarts = s[e].restarts /\ r.child = child
  BY <1>1 DEF SlotRecords, Unused, Steps
<1>3. Becomes(e, r)
  BY DEF Returns
<1> HIDE DEF r
<1>4. Rationed(r) /\ Quiet(r) /\ (Gone(s[e]) => Gone(r))
  BY <1>2 DEF EngineInv, Rationed, Quiet, Gone, AfterCrash
<1> QED
  BY <1>2, <1>3, <1>4, SlotStep DEF EngineInv, EngineTypeOK

\* Status, place and process change; the rest stays.
LEMMA ChangesStep ==
  ASSUME EngineInv, NEW e \in Slots, NEW r \in SlotRecords, Becomes(e, r),
         r.restarts = s[e].restarts,
         s[e].restarts = <<>> => /\ r.pc \notin AfterCrash
                                 /\ Quiet(s[e]) => Quiet(r)
                                 /\ Quiet(s[e]) /\ Gone(s[e]) => Gone(r),
         UNCHANGED Elsewhere
  PROVE  EngineInv'
<1>1. Rationed(r) /\ (Quiet(s[e]) => Quiet(r)) /\ (Quiet(s[e]) /\ Gone(s[e]) => Gone(r))
  BY DEF EngineInv, Rationed, Quiet, Gone
<1> QED
  BY <1>1, SlotStep DEF EngineInv, EngineTypeOK, Elsewhere, Aside

-----------------------------------------------------------------------------
(* The supervisor, an action at a time. *)

LEMMA SlotTypes ==
  ASSUME EngineInv, NEW e \in Slots
  PROVE  /\ s[e] \in SlotRecords /\ s[e].status \in Statuses /\ s[e].child \in Children
         /\ s[e].restarts \in Seq(Ages) /\ s[e].layers \in Nat /\ s[e].room \in Nat
         /\ s[e].starts \in Nat
         /\ "none" \in Children /\ "Stopped" \in Statuses /\ "Failed" \in Statuses
BY DEF EngineInv, EngineTypeOK, SlotRecords, Statuses, Children

LEMMA PollsInv == ASSUME NEW e \in Slots, EngineInv, Polls(e) PROVE EngineInv'
<1> USE SlotTypes DEF Polls, At, Elsewhere, Aside
<1>1. CASE s[e].status = "Stopped"
  BY <1>1, ReturnsStep
<1>2. CASE s[e].status # "Stopped"
  BY <1>2, GoesStep DEF Steps, AfterCrash
<1> QED
  BY <1>1, <1>2

LEMMA AsksInv == ASSUME NEW e \in Slots, EngineInv, Asks(e) PROVE EngineInv'
<1> USE SlotTypes DEF Asks, At
<1>1. CASE Goes(e, "loaded") \/ Goes(e, "wait")
  BY <1>1, GoesStep DEF Steps, AfterCrash
<1>2. CASE Becomes(e, [s[e] EXCEPT !.status = "Failed", !.pc = "timedout"])
  <2> DEFINE r == [s[e] EXCEPT !.status = "Failed", !.pc = "timedout"]
  <2>1. r \in SlotRecords /\ r.restarts = s[e].restarts /\ r.pc = "timedout" /\ r.child = s[e].child
    BY DEF SlotRecords, Steps, Statuses
  <2>2. Becomes(e, r)
    BY <1>2
  <2> HIDE DEF r
  <2> QED
    BY <2>1, <2>2, ChangesStep DEF Quiet, Gone, AfterCrash
<1> QED
  BY <1>1, <1>2

LEMMA TimesOutInv == ASSUME NEW e \in Slots, EngineInv, TimesOut(e) PROVE EngineInv'
BY SlotTypes, ReturnsStep DEF TimesOut, Elsewhere, Aside

\* look_after_load: layers are given back, or the supervisor goes on.
LEMMA LooksInv ==
  ASSUME NEW e \in Slots, EngineInv, NEW off \in 0 .. s[e].layers, NEW then \in {"failing", "warm"},
         s[e].pc \in {"gaveup", "loaded"}, Looks(e, off, then),
         UNCHANGED <<core, router, installed>>
  PROVE  /\ EngineInv'
         /\ s[e].starts < s'[e].starts =>
              s'[e].layers < s[e].layers /\ s'[e].starts <= MaxStarts
<1> USE SlotTypes
<1>1. CASE ~s[e].looks \/ off = 0 \/ s[e].starts >= MaxStarts
  <2>1. Goes(e, then) /\ cap' = cap
    BY <1>1 DEF Looks
  <2>2. EngineInv'
    BY <2>1, GoesStep DEF Steps, AfterCrash, Elsewhere, Aside
  <2>3. s'[e].starts = s[e].starts
    BY <2>1 DEF Goes, Becomes, EngineInv, EngineTypeOK, SlotRecords
  <2> QED
    BY <2>2, <2>3
<1>2. CASE ~(~s[e].looks \/ off = 0 \/ s[e].starts >= MaxStarts)
  <2> DEFINE learnt == s[e].layers - off
             r == [s[e] EXCEPT !.layers = Fit(s[e].room, learnt), !.starts = @ + 1, !.pc = "again"]
  <2>1. learnt \in Nat /\ learnt < s[e].layers /\ s[e].starts < MaxStarts
    BY <1>2, LimitFacts
  <2>2. Fit(s[e].room, learnt) \in Nat /\ Fit(s[e].room, learnt) < s[e].layers
    BY <2>1 DEF Fit
  <2>3. /\ r \in SlotRecords /\ r.restarts = s[e].restarts /\ r.pc = "again"
        /\ r.status = s[e].status /\ r.child = s[e].child
        /\ r.layers = Fit(s[e].room, learnt) /\ r.starts = s[e].starts + 1
    <3> DEFINE fewer == Fit(s[e].room, learnt)
               more == s[e].starts + 1
    <3>1. more \in Nat /\ fewer \in Nat
      BY <2>2
    <3> HIDE DEF fewer, more
    <3>2. LET q == [s[e] EXCEPT !.layers = fewer, !.starts = more, !.pc = "again"]
          IN  /\ q \in SlotRecords /\ q.restarts = s[e].restarts /\ q.pc = "again"
              /\ q.status = s[e].status /\ q.child = s[e].child
              /\ q.layers = fewer /\ q.starts = more
      BY <3>1 DEF SlotRecords, Steps
    <3> QED
      BY <3>2 DEF fewer, more
  <2>4. Becomes(e, r) /\ cap' = [cap EXCEPT ![s[e].model] = learnt]
    BY <1>2 DEF Looks
  <2> HIDE DEF r, learnt
  <2>5. cap' \in [Models -> Nat]
    BY <2>1, <2>4 DEF EngineInv, EngineTypeOK
  <2>6. Rationed(r) /\ (Quiet(s[e]) => Quiet(r)) /\ (Gone(s[e]) => Gone(r))
    BY <2>3 DEF EngineInv, Rationed, Quiet, Gone, AfterCrash
  <2>7. EngineInv'
    BY <2>3, <2>4, <2>5, <2>6, SlotStep DEF EngineInv, EngineTypeOK
  <2>8. s'[e] = r
    BY <2>4 DEF Becomes, EngineInv, EngineTypeOK
  <2> QED
    BY <2>1, <2>2, <2>3, <2>7, <2>8, LimitFacts
<1> QED
  BY <1>1, <1>2

LEMMA StartAgainInv == ASSUME NEW e \in Slots, EngineInv, StartAgain(e) PROVE EngineInv'
<1> USE SlotTypes DEF StartAgain, At
<1>1. CASE s[e].status = "Stopped"
  BY <1>1, ReturnsStep DEF Elsewhere, Aside
<1>2. ASSUME s[e].status # "Stopped", NEW child \in {"loading", "none"}, NEW pc \in {"wait", "failing"},
             Becomes(e, [s[e] EXCEPT !.child = child, !.pc = pc])
      PROVE  EngineInv'
  <2> DEFINE r == [s[e] EXCEPT !.child = child, !.pc = pc]
  <2>1. r \in SlotRecords /\ r.restarts = s[e].restarts /\ r.pc = pc /\ r.status = s[e].status
    BY <1>2 DEF SlotRecords, Steps, Children
  <2>2. Becomes(e, r)
    BY <1>2
  <2>3. s[e].restarts = <<>> => ~Quiet(s[e])
    BY <1>2 DEF Quiet
  <2> HIDE DEF r
  <2> QED
    BY <2>1, <2>2, <2>3, ChangesStep DEF AfterCrash
<1> QED
  BY <1>1, <1>2

LEMMA FailsInv == ASSUME NEW e \in Slots, EngineInv, Fails(e) PROVE EngineInv'
BY SlotTypes, ReturnsStep DEF Fails, Elsewhere, Aside

LEMMA WarmsUpInv == ASSUME NEW e \in Slots, EngineInv, WarmsUp(e) PROVE EngineInv'
<1> USE SlotTypes DEF WarmsUp, At
<1>1. CASE s[e].status = "Stopped"
  BY <1>1, ReturnsStep DEF Elsewhere, Aside
<1>2. CASE s[e].status # "Stopped"
  BY <1>2, GoesStep DEF Steps, AfterCrash
<1> QED
  BY <1>1, <1>2

\* The router is nobody's business here: Publishes and Unroutes change it.
LEMMA PublishesInv == ASSUME NEW e \in Slots, EngineInv, Publishes(e) PROVE EngineInv'
<1> DEFINE r == [s[e] EXCEPT !.pc = "ready"]
<1>1. /\ r \in SlotRecords /\ r.restarts = s[e].restarts /\ r.pc = "ready"
      /\ r.status = s[e].status /\ r.child = s[e].child
  BY SlotTypes DEF SlotRecords, Steps
<1>2. Becomes(e, r) /\ s[e].pc = "publish"
  BY DEF Publishes, Goes, At
<1> HIDE DEF r
<1>3. Rationed(r) /\ (Quiet(s[e]) => Quiet(r)) /\ (Gone(s[e]) => Gone(r))
  BY <1>1, <1>2 DEF EngineInv, Rationed, Quiet, Gone, AfterCrash
<1> QED
  BY <1>1, <1>2, <1>3, SlotStep DEF EngineInv, EngineTypeOK, Publishes, Aside

LEMMA SaysReadyInv == ASSUME NEW e \in Slots, EngineInv, SaysReady(e) PROVE EngineInv'
<1> DEFINE r == [s[e] EXCEPT !.status = "Ready", !.pc = "watch"]
<1>1. /\ r \in SlotRecords /\ r.restarts = s[e].restarts /\ r.pc = "watch"
      /\ r.child = s[e].child
  BY SlotTypes DEF SlotRecords, Steps, Statuses
<1>2. Becomes(e, r)
  BY DEF SaysReady
<1> HIDE DEF r
<1> QED
  BY <1>1, <1>2, ChangesStep DEF SaysReady, Quiet, Gone, AfterCrash

LEMMA WatchesInv == ASSUME NEW e \in Slots, EngineInv, Watches(e) PROVE EngineInv'
<1> USE SlotTypes DEF Watches, At
<1>1. CASE Returns(e, "Stopped", s[e].child)
  BY <1>1, ReturnsStep DEF Elsewhere, Aside
<1>2. CASE Goes(e, "crashed")
  BY <1>2, GoesStep DEF Steps, AfterCrash
<1> QED
  BY <1>1, <1>2

\* The crash is put on record, or there are RESTARTS of them on record.
LEMMA CrashesInv == ASSUME NEW e \in Slots, EngineInv, Crashes(e) PROVE EngineInv'
<1> USE SlotTypes
<1>1. /\ Recent(e) \in Seq(Ages) /\ Len(Recent(e)) \in Nat
      /\ Len(Recent(e)) <= Len(s[e].restarts) /\ Len(s[e].restarts) <= Restarts
  BY RecentFacts DEF EngineInv, Rationed
<1>2. ASSUME NEW kept \in Seq(Ages), NEW pc \in {"giveup", "restarting"},
             kept # <<>>, Len(kept) <= Restarts,
             Becomes(e, [s[e] EXCEPT !.restarts = kept, !.pc = pc])
      PROVE  EngineInv'
  <2> DEFINE r == [s[e] EXCEPT !.restarts = kept, !.pc = pc]
  <2>1. r \in SlotRecords /\ r.restarts = kept /\ r.pc = pc
    BY DEF SlotRecords, Steps
  <2>2. Becomes(e, r)
    BY <1>2
  <2> HIDE DEF r
  <2>3. Rationed(r) /\ Quiet(r) /\ Gone(r)
    BY <1>2, <2>1 DEF Rationed, Quiet, Gone
  <2> QED
    BY <2>1, <2>2, <2>3, SlotStep DEF EngineInv, EngineTypeOK, Crashes, Elsewhere, Aside
<1>3. CASE Len(Recent(e)) >= Restarts
  <2>1. Recent(e) # <<>>
    <3>1. Len(<<>>) = 0
      BY EmptySeq
    <3> QED
      BY <1>3, <3>1, LimitFacts
  <2>2. Becomes(e, [s[e] EXCEPT !.restarts = Recent(e), !.pc = "giveup"])
    BY <1>3 DEF Crashes
  <2>3. Len(Recent(e)) <= Restarts
    <3>1. Len(s[e].restarts) \in Nat
      OBVIOUS
    <3> QED
      BY <1>1, <3>1, LimitFacts
  <2> QED
    BY <1>1, <1>2, <2>1, <2>2, <2>3
<1>4. CASE ~(Len(Recent(e)) >= Restarts)
  <2> DEFINE kept == Append(Recent(e), 0)
  <2>1. kept \in Seq(Ages) /\ kept # <<>> /\ Len(kept) = Len(Recent(e)) + 1
    BY <1>1, LimitFacts, AppendProperties
  <2>2. Len(kept) <= Restarts
    BY <1>1, <1>4, <2>1, LimitFacts
  <2>3. Becomes(e, [s[e] EXCEPT !.restarts = kept, !.pc = "restarting"])
    BY <1>4 DEF Crashes
  <2> HIDE DEF kept
  <2> QED
    BY <1>2, <2>1, <2>2, <2>3
<1> QED
  BY <1>3, <1>4

\* After a crash, whatever is done is done by a supervisor with a crash on record.
LEMMA AfterCrashInv ==
  ASSUME NEW e \in Slots, EngineInv, Restarting(e) \/ Respawns(e) \/ GivesUp(e)
  PROVE  EngineInv'
<1> USE SlotTypes DEF Restarting, Respawns, GivesUp, At
<1>1. s[e].restarts # <<>>
  BY DEF EngineInv, Rationed, AfterCrash
<1>2. ASSUME NEW r \in SlotRecords, Becomes(e, r), r.restarts = s[e].restarts
      PROVE  EngineInv'
  BY <1>1, <1>2, ChangesStep
<1>3. CASE Restarting(e)
  <2>1. LET r == [s[e] EXCEPT !.status = "Loading", !.pc = "respawn"]
        IN  r \in SlotRecords /\ r.restarts = s[e].restarts
    BY DEF SlotRecords, Statuses, Steps
  <2> QED
    BY <1>2, <1>3, <2>1
<1>4. CASE Respawns(e)
  <2>1. LET r == [s[e] EXCEPT !.child = "loading", !.pc = "wait"]
        IN  r \in SlotRecords /\ r.restarts = s[e].restarts
    BY DEF SlotRecords, Children, Steps
  <2>2. LET r == [s[e] EXCEPT !.pc = "giveup"]
        IN  r \in SlotRecords /\ r.restarts = s[e].restarts
    BY DEF SlotRecords, Steps
  <2> QED
    BY <1>2, <1>4, <2>1, <2>2 DEF Goes
<1>5. CASE GivesUp(e)
  <2>1. LET r == [s[e] EXCEPT !.status = "Failed", !.pc = "unroute"]
        IN  r \in SlotRecords /\ r.restarts = s[e].restarts
    BY DEF SlotRecords, Statuses, Steps
  <2> QED
    BY <1>2, <1>5, <2>1
<1> QED
  BY <1>3, <1>4, <1>5

LEMMA UnroutesInv == ASSUME NEW e \in Slots, EngineInv, Unroutes(e) PROVE EngineInv'
BY SlotTypes, ReturnsStep DEF Unroutes, Aside

LEMMA GivesBackInv ==
  ASSUME NEW e \in Slots, EngineInv, GaveUp(e) \/ Loaded(e)
  PROVE  /\ EngineInv'
         /\ s[e].starts < s'[e].starts =>
              s'[e].layers < s[e].layers /\ s'[e].starts <= MaxStarts
BY SlotTypes, LooksInv, GivenBackFacts DEF GaveUp, Loaded, At

LEMMA ProcessInv == ASSUME NEW e \in Slots, EngineInv, Answers(e) \/ Dies(e) PROVE EngineInv'
<1>1. PICK child \in Children : /\ Becomes(e, [s[e] EXCEPT !.child = child])
                                /\ s[e].child # "none"
  BY DEF Answers, Dies, Alive, Children
<1> DEFINE r == [s[e] EXCEPT !.child = child]
<1>2. /\ r \in SlotRecords /\ r.restarts = s[e].restarts /\ r.pc = s[e].pc
      /\ r.status = s[e].status
  BY SlotTypes DEF SlotRecords
<1>3. UNCHANGED Elsewhere
  BY DEF Answers, Dies
<1> HIDE DEF r
<1>4. s[e].restarts = <<>> => r.pc \notin AfterCrash
  BY <1>2 DEF EngineInv, Rationed
<1> QED
  BY <1>1, <1>2, <1>3, <1>4, ChangesStep DEF r, Quiet, Gone

-----------------------------------------------------------------------------
(* Time passes for every start at once. *)

LEMMA TickRecord ==
  ASSUME NEW r \in SlotRecords, NEW age \in Nat,
         NEW q, q = [r EXCEPT !.age = age,
                              !.restarts = [i \in DOMAIN @ |-> Min({@[i] + 1, Window})]]
  PROVE  /\ q \in SlotRecords
         /\ Rationed(r) => Rationed(q)
         /\ Quiet(r) => Quiet(q)
         /\ Gone(r) => Gone(q)
         /\ q.starts = r.starts
<1> DEFINE older == [i \in DOMAIN r.restarts |-> Min({r.restarts[i] + 1, Window})]
<1>1. r.restarts \in Seq(Ages) /\ Len(r.restarts) \in Nat /\ DOMAIN r.restarts = 1 .. Len(r.restarts)
  BY DEF SlotRecords
<1>2. \A i \in 1 .. Len(r.restarts) : Min({r.restarts[i] + 1, Window}) \in Ages
  <2> SUFFICES ASSUME NEW i \in 1 .. Len(r.restarts) PROVE Min({r.restarts[i] + 1, Window}) \in Ages
    OBVIOUS
  <2>1. r.restarts[i] \in 0 .. Window
    BY <1>1, ElementOfSeq DEF Ages
  <2>2. r.restarts[i] + 1 \in Int /\ Window \in Int
    BY <2>1, LimitFacts
  <2>3. Min({r.restarts[i] + 1, Window}) =
          IF r.restarts[i] + 1 <= Window THEN r.restarts[i] + 1 ELSE Window
    BY <2>2, MinOfTwo
  <2> QED
    BY <2>1, <2>3, LimitFacts DEF Ages
<1>3. older \in [1 .. Len(r.restarts) -> Ages]
  BY <1>1, <1>2
<1>4. older \in Seq(Ages) /\ Len(older) = Len(r.restarts)
  BY <1>1, <1>3
<1>5. older = <<>> <=> r.restarts = <<>>
  BY <1>1, <1>4, EmptySeq
<1> HIDE DEF older
<1>6. q = [r EXCEPT !.age = age, !.restarts = older]
  BY DEF older
<1>7. /\ q \in SlotRecords /\ q.restarts = older /\ q.pc = r.pc /\ q.status = r.status
      /\ q.child = r.child /\ q.starts = r.starts
  BY <1>4, <1>6 DEF SlotRecords
<1> QED
  BY <1>4, <1>5, <1>7 DEF Rationed, Quiet, Gone

LEMMA TickInv == EngineInv /\ Tick => EngineInv' /\ \A e \in Slots : s'[e].starts = s[e].starts
<1> SUFFICES ASSUME EngineInv, Tick
             PROVE  EngineInv' /\ \A e \in Slots : s'[e].starts = s[e].starts
  OBVIOUS
<1>1. ASSUME NEW e \in Slots
      PROVE  /\ s'[e] \in SlotRecords /\ Rationed(s'[e])
             /\ Quiet(s[e]) => Quiet(s'[e])
             /\ Gone(s[e]) => Gone(s'[e])
             /\ s'[e].starts = s[e].starts
  <2> DEFINE age == IF At(e, "done") THEN s[e].age ELSE Min({s[e].age + 1, LoadTimeout + 1})
  <2>1. s[e] \in SlotRecords /\ s[e].age \in Nat /\ Rationed(s[e])
    BY DEF EngineInv, EngineTypeOK, SlotRecords
  <2>2. age \in Nat
    BY <2>1, MinOfTwo, LimitFacts
  <2>3. s'[e] = [s[e] EXCEPT !.age = age,
                             !.restarts = [i \in DOMAIN @ |-> Min({@[i] + 1, Window})]]
    BY DEF Tick
  <2> HIDE DEF age
  <2> QED
    BY <2>1, <2>2, <2>3, TickRecord, ZenonT(30)
<1>2. s' \in [Slots -> SlotRecords]
  BY <1>1 DEF Tick
<1>3. core' = core /\ cap' = cap /\ installed' = installed
  BY DEF Tick, Elsewhere, Aside
<1>4. EngineTypeOK' /\ RequestIsSound'
  BY <1>2, <1>3 DEF EngineInv, EngineTypeOK, RequestIsSound
<1> QED
  BY <1>1, <1>3, <1>4 DEF EngineInv

-----------------------------------------------------------------------------
(* Core's thread. *)

\* A step of Core that leaves every start alone.
LEMMA CoreOnlyStep ==
  ASSUME EngineInv, s' = s, core' \in CoreRecords, core'.held = core.held,
         cap' \in [Models -> Nat], installed' \subseteq Models, RequestIsSound',
         core'.pc \in Stopping => core.pc \in Stopping
  PROVE  EngineInv'
BY DEF EngineInv, EngineTypeOK

\* The first act of a stop: from here on the supervisor is quiet.
LEMMA StopBeginsInv ==
  ASSUME EngineInv, NEW then \in {"idle", "start", "delete"}, NEW m \in Models \union {None},
         then # "idle" => m \in Models, core.pc = "idle", StopBegins(then, m),
         UNCHANGED <<router, Aside>>
  PROVE  EngineInv' /\ \A e \in Slots : s'[e].starts = s[e].starts
<1> USE DEF EngineInv
<1>0. core \in CoreRecords /\ s \in [Slots -> SlotRecords] /\ cap' = cap /\ installed' = installed
  BY DEF EngineTypeOK, Aside
<1>1. CASE core.held = 0
  <2>1. core' = [core EXCEPT !.pc = then, !.next = m] /\ s' = s
    BY <1>1 DEF StopBegins
  <2>2. core' \in CoreRecords /\ core'.pc = then /\ core'.next = m /\ core'.held = core.held
    BY <1>0, <2>1 DEF CoreRecords, Requests
  <2>3. RequestIsSound'
    BY <1>1, <2>2 DEF RequestIsSound, Stopping
  <2> QED
    BY <1>0, <2>1, <2>2, <2>3, CoreOnlyStep DEF EngineTypeOK, Stopping
<1>2. CASE core.held # 0
  <2> DEFINE h == core.held
             r == [s[h] EXCEPT !.status = "Stopped"]
  <2>1. h \in Slots /\ s[h] \in SlotRecords
    BY <1>0, <1>2, LimitFacts DEF CoreRecords, Slots
  <2>2. /\ r \in SlotRecords /\ r.status = "Stopped" /\ r.restarts = s[h].restarts
        /\ r.pc = s[h].pc /\ r.starts = s[h].starts
    BY <2>1 DEF SlotRecords, Statuses
  <2>3. s' = [s EXCEPT ![h] = r] /\ core' = [core EXCEPT !.pc = "kill", !.next = m, !.then = then]
    BY <1>2 DEF StopBegins, Becomes
  <2> HIDE DEF r
  <2>4. core' \in CoreRecords /\ core'.pc = "kill" /\ core'.held = h /\ core'.next = m /\ core'.then = then
    BY <1>0, <2>3 DEF CoreRecords, Requests
  <2> HIDE DEF h
  <2>5. Rationed(r) /\ Quiet(r)
    BY <2>1, <2>2 DEF Rationed, Quiet
  <2>6. \A e \in Slots : s'[e] = IF e = h THEN r ELSE s[e]
    BY <1>0, <2>3
  <2>7. EngineTypeOK' /\ RequestIsSound'
    BY <1>0, <2>1, <2>2, <2>3, <2>4 DEF EngineTypeOK, RequestIsSound, Stopping
  <2>8. \A e \in Slots : e # h => Quiet(s[e]) /\ Gone(s[e])
    BY DEF h
  <2> QED
    BY <2>1, <2>2, <2>4, <2>5, <2>6, <2>7, <2>8
<1> QED
  BY <1>1, <1>2

\* The process is taken: by a stop, by Drop, or by Core that goes away.
LEMMA TakesProcess ==
  ASSUME EngineInv, core.held \in Slots,
         Becomes(core.held, [s[core.held] EXCEPT !.child = "none"]),
         core' \in CoreRecords, RequestIsSound',
         core'.held = core.held \/ (core'.held = 0 /\ core.pc \in Stopping),
         core'.pc \in Stopping => core'.held = core.held /\ core.pc \in Stopping,
         UNCHANGED <<cap, installed>>
  PROVE  EngineInv' /\ \A e \in Slots : s'[e].starts = s[e].starts
<1> USE DEF EngineInv
<1> DEFINE h == core.held
           r == [s[h] EXCEPT !.child = "none"]
<1>1. s \in [Slots -> SlotRecords] /\ s[h] \in SlotRecords /\ h \in Slots
  BY DEF EngineTypeOK
<1>2. /\ r \in SlotRecords /\ r.status = s[h].status /\ r.restarts = s[h].restarts
      /\ r.pc = s[h].pc /\ r.child = "none" /\ r.starts = s[h].starts
  BY <1>1 DEF SlotRecords, Children
<1>3. s' = [s EXCEPT ![h] = r]
  BY DEF Becomes
<1> HIDE DEF r
<1>4. Rationed(r) /\ Gone(r) /\ (Quiet(s[h]) => Quiet(r))
  BY <1>1, <1>2 DEF Rationed, Quiet, Gone
<1>5. \A e \in Slots : s'[e] = IF e = h THEN r ELSE s[e]
  BY <1>1, <1>3
<1>6. EngineTypeOK'
  BY <1>1, <1>2, <1>3 DEF EngineTypeOK
<1>7. core.pc \in Stopping => Quiet(r)
  BY <1>4
<1>8. \A e \in Slots : core'.held # e => Quiet(s'[e]) /\ Gone(s'[e])
  BY <1>4, <1>5, <1>7
<1> QED
  BY <1>1, <1>2, <1>4, <1>5, <1>6, <1>7, <1>8

\* Nobody starts again.
NoStarts == \A e \in Slots : s'[e].starts \in {s[e].starts, 0}

LEMMA RequestsInv ==
  ASSUME EngineInv, NEW m \in Models, LoadModel(m) \/ DeleteModel(m) \/ UnloadModel
  PROVE  EngineInv' /\ NoStarts
<1>1. core.pc = "idle" /\ UNCHANGED <<router, Aside>>
  BY DEF LoadModel, DeleteModel, UnloadModel
<1>2. CASE StopBegins("start", m) \/ StopBegins("delete", m)
  BY <1>1, <1>2, StopBeginsInv DEF NoStarts
<1>3. CASE StopBegins("idle", None)
  BY <1>1, <1>3, StopBeginsInv DEF NoStarts
<1>4. CASE core' = [core EXCEPT !.pc = "delete", !.next = m] /\ UNCHANGED s
  <2>1. core \in CoreRecords
    BY DEF EngineInv, EngineTypeOK
  <2>2. core' \in CoreRecords /\ core'.pc = "delete" /\ core'.next = m /\ core'.held = core.held
    BY <1>4, <2>1 DEF CoreRecords, Requests
  <2>3. RequestIsSound' /\ core'.pc \notin Stopping
    BY <2>2 DEF RequestIsSound, Stopping
  <2> QED
    BY <1>1, <1>4, <2>2, <2>3, CoreOnlyStep DEF NoStarts, EngineInv, EngineTypeOK, Aside
<1> QED
  BY <1>2, <1>3, <1>4 DEF LoadModel, DeleteModel, UnloadModel

LEMMA StopKillsInv == EngineInv /\ StopKills => EngineInv' /\ NoStarts
<1> SUFFICES ASSUME EngineInv, StopKills PROVE EngineInv' /\ NoStarts
  OBVIOUS
<1>1. core \in CoreRecords /\ core.pc \in Stopping /\ core.held \in Slots
  BY DEF EngineInv, EngineTypeOK, StopKills, Stopping
<1>2. /\ core' \in CoreRecords /\ core'.pc = "forget" /\ core'.held = core.held
      /\ core'.next = core.next /\ core'.then = core.then
  BY <1>1 DEF StopKills, CoreRecords, Requests
<1>3. RequestIsSound'
  BY <1>1, <1>2 DEF EngineInv, RequestIsSound, Stopping
<1> QED
  BY <1>1, <1>2, <1>3, TakesProcess DEF StopKills, Aside, NoStarts

LEMMA StopForgetsInv == EngineInv /\ StopForgets => EngineInv' /\ NoStarts
<1> SUFFICES ASSUME EngineInv, StopForgets PROVE EngineInv' /\ NoStarts
  OBVIOUS
<1>1. core \in CoreRecords /\ core.pc \in Stopping
  BY DEF EngineInv, EngineTypeOK, StopForgets, Stopping
<1>2. /\ core' \in CoreRecords /\ core'.pc = "drop" /\ core'.held = core.held
      /\ core'.next = core.next /\ core'.then = core.then
  BY <1>1 DEF StopForgets, CoreRecords, Requests
<1>3. RequestIsSound'
  BY <1>1, <1>2 DEF EngineInv, RequestIsSound, Stopping
<1>4. s' = s /\ cap' = cap /\ installed' = installed
  BY DEF StopForgets, Aside
<1> QED
  BY <1>1, <1>2, <1>3, <1>4, CoreOnlyStep DEF EngineInv, EngineTypeOK, NoStarts

LEMMA DropsInv == EngineInv /\ Drops => EngineInv' /\ NoStarts
<1> SUFFICES ASSUME EngineInv, Drops PROVE EngineInv' /\ NoStarts
  OBVIOUS
<1>1. core \in CoreRecords /\ core.pc \in Stopping /\ core.held \in Slots
  BY DEF EngineInv, EngineTypeOK, Drops, Stopping
<1>2. /\ core' \in CoreRecords /\ core'.pc = core.then /\ core'.held = 0
      /\ core'.next = core.next /\ core'.pc \in {"idle", "start", "delete"}
  <2>1. 0 \in 0 .. Loads /\ core.then \in {"idle", "start", "delete"} /\ core.then \in Requests
    BY <1>1, LimitFacts DEF CoreRecords, Requests
  <2>2. core' = [core EXCEPT !.pc = core.then, !.held = 0]
    BY DEF Drops
  <2> QED
    BY <1>1, <2>1, <2>2 DEF CoreRecords
<1>3. RequestIsSound' /\ core'.pc \notin Stopping
  BY <1>1, <1>2 DEF EngineInv, RequestIsSound, Stopping
<1> QED
  BY <1>1, <1>2, <1>3, TakesProcess DEF Drops, Aside, NoStarts

LEMMA IdleFacts ==
  /\ Idle \in CoreRecords /\ Idle.pc = "idle" /\ Idle.held = 0
  /\ \A e \in Slots : [Idle EXCEPT !.held = e] \in CoreRecords /\ [Idle EXCEPT !.held = e].held = e
                      /\ [Idle EXCEPT !.held = e].pc = "idle"
BY LimitFacts DEF Idle, CoreRecords, Requests

LEMMA FitFacts ==
  ASSUME NEW room \in Nat, NEW learnt \in Nat
  PROVE  Fit(room, learnt) \in Nat
BY DEF Fit

\* Core lets go of no engine here: a load drops the one it holds before it starts another.
LEMMA StartsInv ==
  ASSUME EngineInv, Starts
  PROVE  EngineInv' /\ \A e \in Slots : s'[e].starts = s[e].starts \/ s[e].pc = "done"
<1> USE DEF EngineInv
<1>0. s \in [Slots -> SlotRecords] /\ core.next \in Models /\ cap \in [Models -> Nat]
  BY DEF EngineTypeOK, RequestIsSound, Starts
<1>1. PICK e \in Slots, room \in Rooms, bare \in BOOLEAN :
        /\ Free(e)
        /\ Becomes(e, [Unused EXCEPT !.model = core.next, !.status = "Loading", !.pc = "wait",
                         !.child = "loading", !.room = room, !.layers = Fit(room, cap[core.next]),
                         !.starts = 1, !.looks = Fit(room, cap[core.next]) > 0, !.bare = bare])
        /\ core' = [Idle EXCEPT !.held = e]
  BY DEF Starts
<1> DEFINE layers == Fit(room, cap[core.next])
           looks == layers > 0
           r == [Unused EXCEPT !.model = core.next, !.status = "Loading", !.pc = "wait",
                         !.child = "loading", !.room = room, !.layers = layers,
                         !.starts = 1, !.looks = looks, !.bare = bare]
<1>2. layers \in Nat /\ room \in Nat /\ looks \in BOOLEAN
  <2>1. room \in Nat /\ cap[core.next] \in Nat
    BY <1>0, BoundsAssumption
  <2>2. layers \in Nat
    BY <2>1, FitFacts
  <2>3. looks \in BOOLEAN
    OBVIOUS
  <2> QED
    BY <2>1, <2>2, <2>3
<1>3. s' = [s EXCEPT ![e] = r]
  BY <1>1 DEF Becomes
<1> HIDE DEF layers, looks
<1>4. r \in SlotRecords /\ r.restarts = <<>> /\ r.pc = "wait"
  BY <1>0, <1>2, UnusedFacts DEF SlotRecords, Unused, Statuses, Steps, Children
<1> HIDE DEF r
<1>5. Rationed(r)
  BY <1>4, LimitFacts, EmptySeq DEF Rationed, AfterCrash
<1>6. \A d \in Slots : s'[d] = IF d = e THEN r ELSE s[d]
  BY <1>0, <1>3
<1>7. core' \in CoreRecords /\ core'.pc = "idle" /\ core'.held = e
  BY <1>1, IdleFacts
<1>8. EngineTypeOK' /\ RequestIsSound'
  BY <1>0, <1>3, <1>4, <1>7 DEF EngineTypeOK, RequestIsSound, Starts, Aside, Stopping
<1>9. \A d \in Slots : core'.held # d => Quiet(s'[d]) /\ Gone(s'[d])
  BY <1>6, <1>7, LimitFacts DEF RequestIsSound, Starts
<1> QED
  BY <1>1, <1>5, <1>6, <1>7, <1>8, <1>9 DEF Free, Stopping

LEMMA OtherCoreInv ==
  ASSUME EngineInv, NEW m \in Models, StartFails \/ Deletes \/ SelectModel(m)
  PROVE  EngineInv' /\ NoStarts
<1>0. core \in CoreRecords /\ core.held \in 0 .. Loads /\ s' = s
  BY DEF EngineInv, EngineTypeOK, CoreRecords, StartFails, Deletes, SelectModel
<1>1. /\ core' \in CoreRecords /\ core'.pc = "idle" /\ core'.held = core.held
  <2>1. CASE StartFails
    BY <2>1, IdleFacts DEF StartFails, EngineInv, RequestIsSound
  <2>2. CASE Deletes
    BY <1>0, <2>2 DEF Deletes, CoreRecords, Requests
  <2>3. CASE SelectModel(m)
    BY <1>0, <2>3 DEF SelectModel
  <2> QED
    BY <2>1, <2>2, <2>3
<1>2. cap' \in [Models -> Nat] /\ installed' \subseteq Models
  <2>1. cap \in [Models -> Nat] /\ installed \subseteq Models
    BY DEF EngineInv, EngineTypeOK
  <2>2. CASE Deletes
    BY <2>1, <2>2, UnlearntFacts DEF Deletes
  <2>3. CASE StartFails \/ SelectModel(m)
    BY <2>1, <2>3 DEF StartFails, SelectModel, Aside
  <2> QED
    BY <2>2, <2>3
<1>3. RequestIsSound' /\ core'.pc \notin Stopping
  BY <1>1 DEF RequestIsSound, Stopping
<1>4. EngineInv'
  BY <1>0, <1>1, <1>2, <1>3, CoreOnlyStep
<1>5. NoStarts
  BY <1>0 DEF NoStarts
<1> QED
  BY <1>4, <1>5

LEMMA ShutdownInv == EngineInv /\ Shutdown => EngineInv' /\ NoStarts
<1> SUFFICES ASSUME EngineInv, Shutdown PROVE EngineInv' /\ NoStarts
  OBVIOUS
<1>0. core \in CoreRecords /\ UNCHANGED <<cap, installed>>
  BY DEF EngineInv, EngineTypeOK, Shutdown, Aside
<1>1. core' \in CoreRecords /\ core'.pc = "gone" /\ core'.held = core.held
  BY <1>0 DEF Shutdown, CoreRecords, Requests
<1>2. RequestIsSound' /\ core'.pc \notin Stopping
  BY <1>1 DEF RequestIsSound, Stopping
<1>3. CASE core.held = 0
  BY <1>0, <1>1, <1>2, <1>3, CoreOnlyStep DEF Shutdown, NoStarts, EngineInv, EngineTypeOK
<1>4. CASE core.held # 0
  <2>1. core.held \in Slots
    BY <1>0, <1>4, LimitFacts DEF CoreRecords, Slots
  <2>2. Becomes(core.held, [s[core.held] EXCEPT !.child = "none"])
    BY <1>4 DEF Shutdown
  <2>3. EngineInv' /\ \A e \in Slots : s'[e].starts = s[e].starts
    BY <1>0, <1>1, <1>2, <2>1, <2>2, TakesProcess
  <2> QED
    BY <2>3 DEF NoStarts
<1> QED
  BY <1>3, <1>4

LEMMA ProcessEndsInv == EngineInv /\ ProcessEnds => EngineInv' /\ NoStarts
<1> SUFFICES ASSUME EngineInv, ProcessEnds PROVE EngineInv' /\ NoStarts
  OBVIOUS
<1>0. core \in CoreRecords /\ s \in [Slots -> SlotRecords] /\ cap' = cap /\ installed' = installed
  BY DEF EngineInv, EngineTypeOK, ProcessEnds, Aside
<1>1. core' \in CoreRecords /\ core'.pc = "ended" /\ core'.held = core.held
  BY <1>0 DEF ProcessEnds, CoreRecords, Requests
<1>2. RequestIsSound' /\ core'.pc \notin Stopping
  BY <1>1 DEF RequestIsSound, Stopping
<1>3. PICK job \in BOOLEAN :
        s' = [e \in Slots |-> [s[e] EXCEPT !.pc = "done", !.child = IF job THEN "none" ELSE @]]
  BY DEF ProcessEnds
<1>4. ASSUME NEW e \in Slots
      PROVE  /\ s'[e] \in SlotRecords /\ s'[e].starts = s[e].starts
             /\ Rationed(s'[e]) /\ Quiet(s'[e]) /\ (Gone(s[e]) => Gone(s'[e]))
  <2> DEFINE child == IF job THEN "none" ELSE s[e].child
  <2>1. s'[e] = [s[e] EXCEPT !.pc = "done", !.child = child]
    BY <1>3
  <2>2. child \in {"none", s[e].child} /\ child \in Children /\ s[e] \in SlotRecords
    BY <1>0 DEF SlotRecords, Children
  <2> HIDE DEF child
  <2>3. /\ s'[e] \in SlotRecords /\ s'[e].starts = s[e].starts /\ s'[e].pc = "done"
        /\ s'[e].child = child /\ s'[e].restarts = s[e].restarts
    BY <2>1, <2>2 DEF SlotRecords, Steps
  <2>4. Rationed(s'[e]) /\ Quiet(s'[e]) /\ (Gone(s[e]) => Gone(s'[e]))
    BY <2>2, <2>3 DEF EngineInv, Rationed, Quiet, Gone, AfterCrash
  <2> QED
    BY <2>3, <2>4
<1>5. s' \in [Slots -> SlotRecords]
  BY <1>3, <1>4
<1> QED
  BY <1>0, <1>1, <1>2, <1>4, <1>5 DEF EngineInv, EngineTypeOK, NoStarts

-----------------------------------------------------------------------------
(* Every step. *)

\* What a supervisor does other than looking after a load never counts a start.
LEMMA SupervisesStarts ==
  ASSUME EngineInv, NEW e \in Slots, Supervises(e), ~GaveUp(e), ~Loaded(e)
  PROVE  NoStarts
<1>0. s \in [Slots -> SlotRecords] /\ s[e] \in SlotRecords
  BY DEF EngineInv, EngineTypeOK
<1>1. ASSUME NEW r, Becomes(e, r), r.starts \in {s[e].starts, 0} PROVE NoStarts
  BY <1>0, <1>1 DEF Becomes, NoStarts
<1>2. ASSUME NEW pc, Goes(e, pc) PROVE NoStarts
  <2>1. [s[e] EXCEPT !.pc = pc].starts = s[e].starts
    BY <1>0 DEF SlotRecords
  <2> QED
    BY <1>1, <1>2, <2>1 DEF Goes
<1>3. ASSUME NEW status, NEW child, Returns(e, status, child) PROVE NoStarts
  <2>1. [Unused EXCEPT !.model = s[e].model, !.bare = s[e].bare, !.status = status,
                       !.child = child, !.restarts = s[e].restarts].starts = 0
    BY DEF Unused
  <2> QED
    BY <1>1, <1>3, <2>1 DEF Returns
<1>4. ASSUME NEW status, NEW pc, Becomes(e, [s[e] EXCEPT !.status = status, !.pc = pc]) PROVE NoStarts
  <2>1. [s[e] EXCEPT !.status = status, !.pc = pc].starts = s[e].starts
    BY <1>0 DEF SlotRecords
  <2> QED
    BY <1>1, <1>4, <2>1
<1>5. ASSUME NEW child, NEW pc, Becomes(e, [s[e] EXCEPT !.child = child, !.pc = pc]) PROVE NoStarts
  <2>1. [s[e] EXCEPT !.child = child, !.pc = pc].starts = s[e].starts
    BY <1>0 DEF SlotRecords
  <2> QED
    BY <1>1, <1>5, <2>1
<1>6. ASSUME NEW kept, NEW pc, Becomes(e, [s[e] EXCEPT !.restarts = kept, !.pc = pc]) PROVE NoStarts
  <2>1. [s[e] EXCEPT !.restarts = kept, !.pc = pc].starts = s[e].starts
    BY <1>0 DEF SlotRecords
  <2> QED
    BY <1>1, <1>6, <2>1
<1>7. CASE Polls(e) \/ TimesOut(e) \/ Fails(e) \/ WarmsUp(e) \/ Publishes(e) \/ Watches(e) \/ Unroutes(e)
  BY <1>2, <1>3, <1>7 DEF Polls, TimesOut, Fails, WarmsUp, Publishes, Watches, Unroutes
<1>8. CASE Asks(e) \/ SaysReady(e) \/ Restarting(e) \/ GivesUp(e)
  BY <1>2, <1>4, <1>8 DEF Asks, SaysReady, Restarting, GivesUp
<1>9. CASE StartAgain(e) \/ Respawns(e)
  BY <1>2, <1>3, <1>5, <1>9 DEF StartAgain, Respawns
<1>10. CASE Crashes(e)
  BY <1>6, <1>10 DEF Crashes
<1> QED
  BY <1>7, <1>8, <1>9, <1>10 DEF Supervises

LEMMA SupervisesInv ==
  ASSUME EngineInv, NEW e \in Slots, Supervises(e)
  PROVE  EngineInv'
BY PollsInv, AsksInv, TimesOutInv, GivesBackInv, StartAgainInv, FailsInv, WarmsUpInv,
   PublishesInv, SaysReadyInv, WatchesInv, CrashesInv, AfterCrashInv, UnroutesInv
DEF Supervises

LEMMA NoStartsIsFewer == EngineInv /\ NoStarts => FewerLayersEachStart
<1>1. EngineInv => \A e \in Slots : s[e].starts \in Nat
  BY DEF EngineInv, EngineTypeOK, SlotRecords
<1> QED
  BY <1>1 DEF NoStarts, FewerLayersEachStart

LEMMA EngineInvNext == EngineInv /\ [Next]_vars => EngineInv' /\ FewerLayersEachStart
<1> SUFFICES ASSUME EngineInv, [Next]_vars PROVE EngineInv' /\ FewerLayersEachStart
  OBVIOUS
<1>0. \A e \in Slots : s[e].starts \in Nat
  BY DEF EngineInv, EngineTypeOK, SlotRecords
<1>1. CASE UNCHANGED vars
  <2>1. EngineInv'
    BY <1>1 DEF vars, EngineInv, EngineTypeOK, RequestIsSound
  <2>2. NoStarts
    BY <1>1 DEF vars, NoStarts
  <2> QED
    BY <2>1, <2>2, NoStartsIsFewer
<1>2. CASE \E m \in Models : LoadModel(m) \/ DeleteModel(m) \/ SelectModel(m)
  BY <1>2, RequestsInv, OtherCoreInv, NoStartsIsFewer
<1>3. CASE UnloadModel
  <2>1. EngineInv' /\ \A e \in Slots : s'[e].starts = s[e].starts
    BY <1>3, StopBeginsInv DEF UnloadModel
  <2> QED
    BY <2>1, NoStartsIsFewer DEF NoStarts
<1>4. CASE StopKills \/ StopForgets \/ Drops \/ Shutdown \/ ProcessEnds
  BY <1>4, StopKillsInv, StopForgetsInv, DropsInv, ShutdownInv, ProcessEndsInv, NoStartsIsFewer
<1>5. CASE Starts
  BY <1>0, <1>5, StartsInv DEF FewerLayersEachStart
<1>6. CASE StartFails \/ Deletes
  <2>1. PICK m : m \in Models
    BY <1>6 DEF StartFails, Deletes, EngineInv, RequestIsSound
  <2> QED
    BY <1>6, <2>1, OtherCoreInv, NoStartsIsFewer
<1>7. ASSUME NEW e \in Slots, Supervises(e) PROVE EngineInv' /\ FewerLayersEachStart
  <2>1. CASE GaveUp(e) \/ Loaded(e)
    <3>1. \A d \in Slots : d # e => s'[d] = s[d]
      BY <2>1 DEF GaveUp, Loaded, Looks, Goes, Becomes, EngineInv, EngineTypeOK
    <3>2. /\ EngineInv'
          /\ s[e].starts < s'[e].starts =>
              s'[e].layers < s[e].layers /\ s'[e].starts <= MaxStarts
      BY <2>1, GivesBackInv
    <3> QED
      BY <1>0, <3>1, <3>2 DEF FewerLayersEachStart
  <2>2. CASE ~GaveUp(e) /\ ~Loaded(e)
    BY <1>7, <2>2, SupervisesInv, SupervisesStarts, NoStartsIsFewer
  <2> QED
    BY <2>1, <2>2
<1>8. ASSUME NEW e \in Slots, Answers(e) \/ Dies(e) PROVE EngineInv' /\ FewerLayersEachStart
  <2>1. EngineInv'
    BY <1>8, ProcessInv
  <2>2. NoStarts
    <3>1. PICK child \in {"up", "dead"} : s' = [s EXCEPT ![e] = [s[e] EXCEPT !.child = child]]
      BY <1>8 DEF Answers, Dies, Becomes
    <3>2. s \in [Slots -> SlotRecords] /\ [s[e] EXCEPT !.child = child].starts = s[e].starts
      BY DEF EngineInv, EngineTypeOK, SlotRecords
    <3> QED
      BY <3>1, <3>2 DEF NoStarts
  <2> QED
    BY <2>1, <2>2, NoStartsIsFewer
<1>9. CASE Tick
  BY <1>9, TickInv, NoStartsIsFewer DEF NoStarts
<1> QED
  BY <1>1, <1>2, <1>3, <1>4, <1>5, <1>6, <1>7, <1>8, <1>9 DEF Next, CoreActs

LEMMA EngineIsInvariant == Spec => []EngineInv
BY EngineInvInit, EngineInvNext, PTL DEF Spec

\* No more restarts are on record than RESTARTS, so no more are within the window.
LEMMA InvRations == EngineInv => RestartsAreRationed
<1> SUFFICES ASSUME EngineInv, NEW e \in Slots
             PROVE  Cardinality({i \in DOMAIN s[e].restarts : s[e].restarts[i] < Window}) <= Restarts
  BY DEF RestartsAreRationed
<1> DEFINE ago == s[e].restarts
           late == {i \in DOMAIN ago : ago[i] < Window}
<1>1. /\ Len(ago) \in Nat /\ DOMAIN ago = 1 .. Len(ago)
  BY SlotTypes
<1>2. Len(ago) <= Restarts /\ Restarts \in Nat
  BY LimitFacts DEF EngineInv, Rationed
<1>3. late \in SUBSET (1 .. Len(ago)) /\ IsFiniteSet(1 .. Len(ago)) /\ Cardinality(1 .. Len(ago)) = Len(ago)
  BY <1>1, FS_Interval, SMTT(30)
<1>4. IsFiniteSet(late) /\ Cardinality(late) <= Len(ago)
  BY <1>3, FS_Subset
<1>5. Cardinality(late) \in Nat
  BY <1>4, FS_CardinalityType
<1> QED
  BY <1>1, <1>2, <1>4, <1>5

-----------------------------------------------------------------------------
\* The starts, Core's request and what was learnt keep their types, however
\* stops, supervisors and processes interleave.
THEOREM EngineTypeCorrect == Spec => []EngineTypeOK
BY EngineIsInvariant, PTL DEF EngineInv

\* An engine that Core has let go of, and that was never restarted after a
\* crash, has no process left: Engine::stop and Drop against start_again of a
\* supervisor that may be anywhere, for any number of engines let go of.
THEOREM StopAlwaysWins == Spec => []StopWins
<1>1. EngineInv => StopWins
  BY DEF EngineInv, StopWins, Gone
<1> QED
  BY <1>1, EngineIsInvariant, PTL

\* Each start again asks the card for fewer layers and there are at most STARTS
\* of them (look_after_load), and no more than RESTARTS restarts are within the
\* window (supervise), for every limit, card and number of layers.
THEOREM StartsStayRationed == Spec => StartsAreRationed
<1>1. EngineInv => RestartsAreRationed
  BY InvRations
<1>2. EngineInv /\ [Next]_vars => FewerLayersEachStart
  BY EngineInvNext
<1> QED
  BY <1>1, <1>2, EngineIsInvariant, PTL DEF Spec, StartsAreRationed
=============================================================================
