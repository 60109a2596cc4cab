------------------------------ MODULE ViewsProof ------------------------------
(***************************************************************************)
(* What people see of a document.                                          *)
(*                                                                         *)
(* The first part is about frames on one document, for any number of them  *)
(* and any number of edits, undos, lost messages and restarts: a frame     *)
(* that lost nothing and has nothing on its way shows what Core shows;     *)
(* what people did in frames is in the history, and what they undid stays  *)
(* away.                                                                   *)
(*                                                                         *)
(* The second part is about the surfaces of a desktop window, for any      *)
(* board and any number of edits: when nothing is on its way, a surface    *)
(* that runs shows the document that Core holds.                           *)
(*                                                                         *)
(* The third part is about one person's chats, for any workspaces and any  *)
(* files: what they and the answers wrote is saved, in its chat and in the *)
(* workspace of that chat, until they delete it, and files with it.        *)
(***************************************************************************)
EXTENDS Replicas, Client, Chats, SequenceTheorems, FiniteSetTheorems,
        WellFoundedInduction, TLAPS

-----------------------------------------------------------------------------
(* What the variables hold.                                                *)

Docs == [doc : SUBSET Nat, waiting : SUBSET Nat]
Messages == [have : SUBSET Nat, brings : SUBSET Nat]
States == [heard : BOOLEAN, theirs : SUBSET Nat, unacked : SUBSET Nat,
           told : SUBSET Nat, flying : BOOLEAN]
Changes == [adds : SUBSET Nat, takes : SUBSET (Nat \X Nat), on : SUBSET Nat, typed : BOOLEAN]

\* A change stands on a whole document: whatever it names was made before it,
\* on nothing that it does not name as well, and it takes away only what it
\* names.  Of a frame there is one item to a change.
GoodLog(l) ==
  /\ l \in Seq(Changes)
  /\ \A i \in DOMAIN l :
       /\ l[i].on \subseteq DOMAIN l /\ i \notin l[i].on
       /\ l[i].adds \subseteq DOMAIN l
       /\ \A j \in l[i].on : l[j].on \subseteq l[i].on
       /\ \A it \in l[i].takes : it[1] \in l[i].on
       /\ l[i].typed => l[i].adds = {i} /\ l[i].takes = {}

\* A document is changes with their ground.
GoodDoc(l, d) ==
  /\ d \in Docs
  /\ d.doc \subseteq DOMAIN l /\ d.waiting \subseteq DOMAIN l
  /\ \A i \in d.doc : l[i].on \subseteq d.doc

DocsOK ==
  /\ GoodDoc(log, core)
  /\ commits \in Seq(Docs) /\ \A i \in DOMAIN commits : GoodDoc(log, commits[i])
  /\ head \in Nat /\ head <= Len(commits)
  /\ copy \in [Peers -> Docs] /\ \A p \in Peers : GoodDoc(log, copy[p])

SeenOK ==
  /\ DOMAIN states \subseteq Peers
  /\ seen \in Seq(Peers)
  /\ \A i \in DOMAIN seen : seen[i] \in DOMAIN states
  /\ \A i, j \in DOMAIN seen : seen[i] = seen[j] => i = j

EndsOK ==
  /\ \A p \in DOMAIN states : states[p] \in States
  /\ frame \in [Peers -> {"new", "open", "closed"}]
  /\ end \in [Peers -> States]
  /\ posted \in [Peers -> SUBSET Messages]
  /\ sent \in [Peers -> Seq(Messages)]
  /\ \A p \in Peers : frame[p] = "new" => copy[p] = Empty
  /\ restarts \in Nat

-----------------------------------------------------------------------------
(* The two ends of the protocol.                                           *)

\* Core's end for one frame: the frame was told of the whole document, and
\* either holds it or was sent it last.
EndOf(doc, s, out, theirs) ==
  /\ s.heard /\ s.told = doc
  /\ s.flying \/ s.theirs = doc
  /\ s.theirs \subseteq theirs
  /\ s.flying /\ out # <<>> => out[Len(out)].have = doc
CoreEnd(p) == p \in DOMAIN states => EndOf(core.doc, states[p], sent[p], copy[p].doc)

\* The frame's end.
FrameEnd(p) ==
  frame[p] = "open" =>
    /\ end[p].told = copy[p].doc
    /\ end[p].flying \/ (end[p].heard /\ end[p].theirs = copy[p].doc)

\* Nothing says more than its sender has.
Honest(p) ==
  /\ \A m \in posted[p] : m.have \subseteq copy[p].doc /\ m.brings \subseteq copy[p].doc
  /\ \A i \in DOMAIN sent[p] : sent[p][i].have \subseteq core.doc /\ sent[p][i].brings \subseteq core.doc

\* A frame that lost no message has one to come, told Core all it has and was
\* not heard yet, or is no further than Core.
Knows(p) ==
  frame[p] = "open" /\ p \notin lost =>
    \/ sent[p] # <<>>
    \/ \E m \in posted[p] : m.have = copy[p].doc
    \/ p \in DOMAIN states /\ copy[p].doc = core.doc
    \/ p \notin DOMAIN states /\ (copy[p].doc \subseteq core.doc \/ posted[p] = {})

SyncInv == \A p \in Peers : CoreEnd(p) /\ FrameEnd(p) /\ Honest(p) /\ Knows(p)

-----------------------------------------------------------------------------
(* The history.  Until Core restarts its document holds whatever the       *)
(* history does, and every change that is not a frame's.                   *)

Whole ==
  restarts = 0 =>
    /\ undone \subseteq core.doc
    /\ \A i \in DOMAIN commits : commits[i].doc \subseteq core.doc
    /\ \A i \in DOMAIN log : ~log[i].typed => i \in core.doc
    /\ \A i \in DOMAIN log : log[i].adds \subseteq log[i].on \cup {i}

ReplicasTyped == GoodLog(log) /\ DocsOK /\ SeenOK /\ EndsOK
HistoryInv == Whole /\ EditsAndUndosStay
ReplicasInv == ReplicasTyped /\ SyncInv /\ HistoryInv

-----------------------------------------------------------------------------
(* The operators of the model.                                             *)

IsIn(x, order) == \E i \in DOMAIN order : order[i] = x
Distinct(order) == \A i, j \in DOMAIN order : order[i] = order[j] => i = j

\* What is after the one taken out moves up.
LEMMA Cut ==
  ASSUME NEW T, NEW s \in Seq(T), NEW i \in 1..Len(s)
  PROVE  /\ RemoveAt(s, i) \in Seq(T) /\ Len(RemoveAt(s, i)) = Len(s) - 1
         /\ \A j \in 1..(Len(s) - 1) : RemoveAt(s, i)[j] = IF j < i THEN s[j] ELSE s[j + 1]
<1>1. /\ Len(s) \in Nat /\ i \in Nat \ {0} /\ i <= Len(s)
      /\ \A j \in 1..Len(s) : s[j] \in T
  BY LenProperties, ElementOfSeq
<1>2. \A j \in 1..(i - 1) : s[j] \in T
  BY <1>1
<1>3. \A j \in (i + 1)..Len(s) : s[j] \in T
  BY <1>1
<1>4. /\ SubSeq(s, 1, i - 1) \in Seq(T) 
      /\ Len(SubSeq(s, 1, i - 1)) = IF 1 <= i - 1 THEN (i - 1) - 1 + 1 ELSE 0
      /\ \A j \in 1..((i - 1) - 1 + 1) : SubSeq(s, 1, i - 1)[j] = s[1 + j - 1]
  BY <1>1, <1>2, SubSeqProperties
<1>5. /\ SubSeq(s, i + 1, Len(s)) \in Seq(T) 
      /\ Len(SubSeq(s, i + 1, Len(s))) = IF i + 1 <= Len(s) THEN Len(s) - (i + 1) + 1 ELSE 0
      /\ \A j \in 1..(Len(s) - (i + 1) + 1) : SubSeq(s, i + 1, Len(s))[j] = s[i + 1 + j - 1]
  BY <1>1, <1>3, SubSeqProperties
<1>6. PICK one, two : one = SubSeq(s, 1, i - 1) /\ two = SubSeq(s, i + 1, Len(s))
  OBVIOUS
<1>7. one \in Seq(T) /\ Len(one) = i - 1 /\ \A j \in 1..(i - 1) : one[j] = s[j]
  BY <1>1, <1>4, <1>6
<1>8. two \in Seq(T) /\ Len(two) = Len(s) - i /\ \A j \in 1..(Len(s) - i) : two[j] = s[i + j]
  BY <1>1, <1>5, <1>6
<1>9. /\ one \o two \in Seq(T) /\ Len(one \o two) = Len(one) + Len(two)
      /\ \A j \in 1..(Len(one) + Len(two)) : (one \o two)[j] = IF j <= Len(one) THEN one[j] ELSE two[j - Len(one)]
  BY <1>7, <1>8, ConcatProperties
<1>10. Len(one) + Len(two) = Len(s) - 1
  BY <1>1, <1>7, <1>8
<1>11. ASSUME NEW j \in 1..(Len(s) - 1) PROVE (one \o two)[j] = IF j < i THEN s[j] ELSE s[j + 1]
  <2>1. (one \o two)[j] = IF j <= i - 1 THEN one[j] ELSE two[j - (i - 1)]
    BY <1>7, <1>9, <1>10, <1>11
  <2>2. CASE j < i
    BY <1>1, <1>7, <2>1, <2>2
  <2>3. CASE j >= i
    <3>1. j - (i - 1) \in 1..(Len(s) - i) /\ i + (j - (i - 1)) = j + 1
      BY <1>1, <1>11, <2>3
    <3>2. two[j - (i - 1)] = s[j + 1]
      BY <1>8, <3>1
    <3> QED
      BY <1>1, <2>1, <2>3, <3>2
  <2> QED
    <3>1. j \in Nat /\ (j < i \/ j >= i)
      BY <1>1, <1>11
    <3> QED
      BY <3>1, <2>2, <2>3
<1>12. RemoveAt(s, i) = one \o two
  BY <1>6, Zenon DEF RemoveAt
<1>13. one \o two \in Seq(T) /\ Len(one \o two) = Len(s) - 1
  BY <1>9, <1>10
<1> QED
  BY ONLY <1>11, <1>12, <1>13, Zenon

\* The named one is out, the others are where they were.
LEMMA Removed ==
  ASSUME NEW T, NEW order \in Seq(T), Distinct(order), NEW e
  PROVE  /\ RemoveFirst(order, e) \in Seq(T) /\ Distinct(RemoveFirst(order, e))
         /\ \A x : IsIn(x, RemoveFirst(order, e)) <=> IsIn(x, order) /\ x # e
<1>1. Len(order) \in Nat /\ DOMAIN order = 1..Len(order) /\ \A j \in 1..Len(order) : order[j] \in T
  BY LenProperties, ElementOfSeq
<1>2. CASE ~ \E i \in 1..Len(order) : order[i] = e
  BY <1>1, <1>2 DEF RemoveFirst, IsIn
<1>3. CASE \E i \in 1..Len(order) : order[i] = e
  <2> DEFINE I == {i \in 1..Len(order) : order[i] = e}
             at == SelectInSeq(order, LAMBDA v : v = e)
             out == RemoveAt(order, at)
  <2>1. PICK i \in 1..Len(order) : order[i] = e
    BY <1>3
  <2>2. I = {i}
    BY <1>1, <2>1 DEF Distinct
  <2>3. at = i
    BY <2>1, <2>2 DEF SelectInSeq, Min
  <2>4. RemoveFirst(order, e) = RemoveAt(order, i)
    BY <1>3, <2>3 DEF RemoveFirst
  <2>5. PICK all : all = RemoveAt(order, i)
    OBVIOUS
  <2> HIDE DEF I, at, out
  <2>9. /\ all \in Seq(T) /\ DOMAIN all = 1..(Len(order) - 1)
        /\ \A j \in 1..(Len(order) - 1) : all[j] = IF j < i THEN order[j] ELSE order[j + 1]
    <3>1. /\ RemoveAt(order, i) \in Seq(T) /\ Len(RemoveAt(order, i)) = Len(order) - 1
          /\ \A j \in 1..(Len(order) - 1) : RemoveAt(order, i)[j] = IF j < i THEN order[j] ELSE order[j + 1]
      BY <2>1, Cut
    <3> QED
      BY <2>5, <3>1, LenProperties
  <2>10. Distinct(all)
    <3>1. ASSUME NEW j \in 1..(Len(order) - 1), NEW k \in 1..(Len(order) - 1), all[j] = all[k] PROVE j = k
      <4>1. PICK a, b : a = (IF j < i THEN j ELSE j + 1) /\ b = (IF k < i THEN k ELSE k + 1)
        OBVIOUS
      <4>2. a \in DOMAIN order /\ b \in DOMAIN order /\ order[a] = all[j] /\ order[b] = all[k]
        BY <1>1, <2>1, <2>9, <3>1, <4>1
      <4>3. a = b
        BY <3>1, <4>2 DEF Distinct
      <4> QED
        BY <1>1, <2>1, <3>1, <4>1, <4>3
    <3> QED
      BY <2>9, <3>1 DEF Distinct
  <2>11. ASSUME NEW x PROVE IsIn(x, all) <=> IsIn(x, order) /\ x # e
    <3>1. ASSUME NEW j \in DOMAIN order, order[j] = x, x # e PROVE IsIn(x, all)
      <4>1. j # i
        BY <2>1, <3>1
      <4>2. CASE j < i
        BY <1>1, <2>1, <2>9, <3>1, <4>2 DEF IsIn
      <4>3. CASE j > i
        <5>1. j - 1 \in DOMAIN all /\ all[j - 1] = order[j]
          BY <1>1, <2>1, <2>9, <4>3
        <5> QED
          BY <3>1, <5>1 DEF IsIn
      <4> QED
        BY <1>1, <2>1, <4>1, <4>2, <4>3
    <3>2. ASSUME NEW j \in DOMAIN all, all[j] = x PROVE IsIn(x, order) /\ x # e
      <4>1. PICK k \in DOMAIN order : k # i /\ x = order[k]
        BY <1>1, <2>1, <2>9, <3>2
      <4> QED
        BY <1>1, <2>1, <4>1 DEF IsIn, Distinct
    <3> QED
      BY <3>1, <3>2 DEF IsIn
  <2> QED
    BY <2>4, <2>5, <2>9, <2>10, <2>11
<1> QED
  BY <1>2, <1>3

\* Whoever was heard from is last, and at most the oldest made room.
LEMMA PutFacts ==
  ASSUME SeenOK, NEW p \in Peers
  PROVE  /\ PutReplica(p) \in Seq(Peers) /\ Distinct(PutReplica(p)) /\ IsIn(p, PutReplica(p))
         /\ \A q : IsIn(q, PutReplica(p)) => q = p \/ q \in DOMAIN states
<1>1. PICK others : others = RemoveFirst(seen, p)
  OBVIOUS
<1>2. /\ others \in Seq(Peers) /\ Distinct(others)
      /\ \A x : IsIn(x, others) <=> IsIn(x, seen) /\ x # p
  BY <1>1, Removed DEF SeenOK, Distinct
<1>3. PICK rest : rest = IF Len(others) >= MaxReplicas THEN Tail(others) ELSE others
  OBVIOUS
<1>4. Len(others) \in Nat /\ DOMAIN others = 1..Len(others) /\ MaxReplicas \in Nat \ {0}
  BY <1>2, LenProperties, ReplicaBounds
<1>5. rest \in Seq(Peers) /\ Distinct(rest) /\ \A x : IsIn(x, rest) => IsIn(x, others)
  <2>1. CASE Len(others) < MaxReplicas
    BY <1>2, <1>3, <1>4, <2>1
  <2>2. CASE Len(others) >= MaxReplicas
    <3>1. rest = Tail(others) /\ others # <<>>
      BY <1>2, <1>3, <1>4, <2>2
    <3>2. /\ rest \in Seq(Peers) /\ DOMAIN rest = 1..(Len(others) - 1)
          /\ \A i \in 1..(Len(others) - 1) : rest[i] = others[i + 1]
      <4>1. /\ rest \in Seq(Peers) /\ Len(rest) = Len(others) - 1
            /\ \A i \in 1..Len(rest) : rest[i] = others[i + 1]
        BY <1>2, <3>1, HeadTailProperties
      <4> QED
        BY <4>1, LenProperties
    <3>3. ASSUME NEW i \in DOMAIN rest, NEW j \in DOMAIN rest, rest[i] = rest[j] PROVE i = j
      <4>1. /\ i + 1 \in DOMAIN others /\ others[i + 1] = rest[i]
            /\ j + 1 \in DOMAIN others /\ others[j + 1] = rest[j]
        BY <1>4, <3>2
      <4>2. i + 1 = j + 1
        BY <1>2, <3>3, <4>1 DEF Distinct
      <4> QED
        BY <3>2, <4>2
    <3>4. ASSUME NEW x, NEW i \in DOMAIN rest, rest[i] = x PROVE IsIn(x, others)
      <4>1. i + 1 \in DOMAIN others /\ others[i + 1] = x
        BY <1>4, <3>2, <3>4
      <4> QED
        BY <4>1 DEF IsIn
    <3> QED
      BY <3>2, <3>3, <3>4 DEF IsIn, Distinct
  <2> QED
    BY <1>4, <2>1, <2>2
<1>6. PICK order : order = Append(rest, p)
  OBVIOUS
<1>7. PutReplica(p) = order
  BY <1>1, <1>3, <1>6 DEF PutReplica
<1>8. /\ order \in Seq(Peers) /\ Len(rest) \in Nat /\ DOMAIN rest = 1..Len(rest)
      /\ DOMAIN order = 1..(Len(rest) + 1)
      /\ order[Len(rest) + 1] = p /\ \A i \in 1..Len(rest) : order[i] = rest[i]
  BY <1>5, <1>6
<1>9. ~IsIn(p, rest)
  BY <1>2, <1>5
<1>10. Distinct(order)
  BY <1>5, <1>8, <1>9 DEF Distinct, IsIn
<1>11. IsIn(p, order)
  BY <1>8 DEF IsIn
<1>12. ASSUME NEW q, IsIn(q, order) PROVE q = p \/ q \in DOMAIN states
  <2>1. q = p \/ IsIn(q, rest)
    BY <1>8, <1>12 DEF IsIn
  <2>2. IsIn(q, rest) => IsIn(q, seen)
    BY <1>2, <1>5
  <2> QED
    BY <2>1, <2>2 DEF SeenOK, IsIn
<1> QED
  BY <1>7, <1>8, <1>10, <1>11, <1>12

-----------------------------------------------------------------------------
(* Documents.                                                              *)

Extends(l, longer) ==
  DOMAIN l \subseteq DOMAIN longer /\ \A i \in DOMAIN l : longer[i] = l[i]

\* What changes arrive with is theirs, and a document grows by it.
LEMMA ArrivedFacts ==
  ASSUME NEW d, GoodDoc(log, d), NEW ids, ids \subseteq DOMAIN log, GoodLog(log)
  PROVE  GoodDoc(log, Arrived(d, ids)) /\ d.doc \subseteq Arrived(d, ids).doc
<1>1. PICK all : all = d.doc \cup d.waiting \cup ids
  OBVIOUS
<1>2. PICK grounded : grounded = {i \in all : log[i].on \subseteq all}
  OBVIOUS
<1>3. PICK a : a = [doc |-> grounded, waiting |-> all \ grounded]
  OBVIOUS
<1>4. Arrived(d, ids) = a
  BY <1>1, <1>2, <1>3, Zenon DEF Arrived
<1>5. all \subseteq DOMAIN log /\ DOMAIN log \subseteq Nat
  BY <1>1, LenProperties DEF GoodDoc, GoodLog
<1>6. a \in Docs /\ a.doc \subseteq DOMAIN log /\ a.waiting \subseteq DOMAIN log
  BY <1>2, <1>3, <1>5 DEF Docs
<1>7. ASSUME NEW i \in grounded, NEW j \in log[i].on PROVE j \in grounded
  <2>1. j \in all /\ i \in DOMAIN log
    BY <1>2, <1>5, <1>7
  <2>2. log[j].on \subseteq log[i].on
    BY <1>7, <2>1 DEF GoodLog
  <2> QED
    BY <1>2, <1>7, <2>1, <2>2
<1>8. d.doc \subseteq grounded
  BY <1>1, <1>2 DEF GoodDoc
<1> QED
  BY <1>3, <1>4, <1>6, <1>7, <1>8 DEF GoodDoc

\* A document is as good in a longer log.
LEMMA DocKeeps ==
  ASSUME NEW l, NEW longer, Extends(l, longer), NEW d, GoodDoc(l, d)
  PROVE  GoodDoc(longer, d)
BY DEF Extends, GoodDoc

\* One more change, on top of a whole document.
LEMMA ChangeFacts ==
  ASSUME GoodLog(log), NEW d, GoodDoc(log, d),
         NEW adds \in SUBSET (DOMAIN log \cup {New}),
         NEW takes \in SUBSET (Nat \X Nat), \A it \in takes : it[1] \in d.doc,
         NEW typed \in BOOLEAN, typed => adds = {New} /\ takes = {},
         Change(d, adds, takes, typed)
  PROVE  /\ GoodLog(log') /\ Extends(log, log') /\ GoodDoc(log', With(d))
         /\ New \in Nat /\ New \notin DOMAIN log /\ DOMAIN log' = DOMAIN log \cup {New}
         /\ log'[New] = [adds |-> adds, takes |-> takes, on |-> d.doc, typed |-> typed]
         /\ With(d).doc = d.doc \cup {New} /\ New \notin d.doc
<1>1. PICK c : c = [adds |-> adds, takes |-> takes, on |-> d.doc, typed |-> typed]
  OBVIOUS
<1>2. PICK n : n = New
  OBVIOUS
<1>3. /\ Len(log) \in Nat /\ DOMAIN log = 1..Len(log) /\ n = Len(log) + 1
      /\ log \in Seq(Changes)
  BY <1>2, LenProperties DEF New, GoodLog
<1>4. n \in Nat /\ n \notin DOMAIN log /\ DOMAIN log \cup {n} = 1..n
  BY <1>3
<1>5. c \in Changes /\ c.adds = adds /\ c.takes = takes /\ c.on = d.doc /\ c.typed = typed
  BY <1>1, <1>2, <1>3, <1>4 DEF Changes, GoodDoc, Docs
<1>6. log' = Append(log, c)
  BY <1>1 DEF Change
<1>7. /\ log' \in Seq(Changes) /\ DOMAIN log' = 1..n /\ log'[n] = c
      /\ \A i \in 1..Len(log) : log'[i] = log[i]
  BY <1>3, <1>5, <1>6
<1>8. Extends(log, log')
  BY <1>3, <1>4, <1>7 DEF Extends
<1>9. ASSUME NEW i \in DOMAIN log'
      PROVE  /\ log'[i].on \subseteq DOMAIN log' /\ i \notin log'[i].on
             /\ log'[i].adds \subseteq DOMAIN log'
             /\ \A j \in log'[i].on : log'[j].on \subseteq log'[i].on
             /\ \A it \in log'[i].takes : it[1] \in log'[i].on
             /\ log'[i].typed => log'[i].adds = {i} /\ log'[i].takes = {}
  <2>1. CASE i = n
    <3>1. d.doc \subseteq DOMAIN log /\ \A j \in d.doc : log[j].on \subseteq d.doc
      BY DEF GoodDoc
    <3>2. log'[i] = c
      BY <1>7, <2>1
    <3> QED
      BY <1>2, <1>3, <1>4, <1>5, <1>7, <2>1, <3>1, <3>2
  <2>2. CASE i \in DOMAIN log
    <3>1. log'[i] = log[i]
      BY <1>3, <1>7, <2>2
    <3>2. /\ log[i].on \subseteq DOMAIN log /\ i \notin log[i].on
          /\ log[i].adds \subseteq DOMAIN log
          /\ \A j \in log[i].on : log[j].on \subseteq log[i].on
          /\ \A it \in log[i].takes : it[1] \in log[i].on
          /\ log[i].typed => log[i].adds = {i} /\ log[i].takes = {}
      BY <2>2 DEF GoodLog
    <3> QED
      BY <1>3, <1>7, <1>4, <3>1, <3>2
  <2> QED
    BY <1>4, <1>7, <1>9, <2>1, <2>2
<1>10. GoodLog(log')
  BY <1>7, <1>9 DEF GoodLog
<1>11. PICK w : w = [d EXCEPT !.doc = @ \cup {n}]
  OBVIOUS
<1>12. w \in Docs /\ w.doc = d.doc \cup {n} /\ w.waiting = d.waiting
  BY <1>4, <1>11 DEF GoodDoc, Docs
<1>13. w = With(d)
  BY <1>2, <1>11 DEF With
<1>14. GoodDoc(log', w)
  <2>1. d.doc \subseteq DOMAIN log /\ d.waiting \subseteq DOMAIN log /\ \A i \in d.doc : log[i].on \subseteq d.doc
    BY DEF GoodDoc
  <2>2. ASSUME NEW i \in w.doc PROVE log'[i].on \subseteq w.doc
    <3>1. CASE i = n
      BY <1>5, <1>7, <1>12, <3>1
    <3>2. CASE i \in d.doc
      BY <1>3, <1>7, <1>12, <2>1, <3>2
    <3> QED
      BY <1>12, <2>2, <3>1, <3>2
  <2> QED
    BY <1>3, <1>4, <1>7, <1>12, <2>1, <2>2 DEF GoodDoc
<1>15. d.doc \subseteq DOMAIN log
  BY DEF GoodDoc
<1> QED
  BY <1>1, <1>2, <1>4, <1>7, <1>8, <1>10, <1>12, <1>13, <1>14, <1>15

-----------------------------------------------------------------------------
(* What a document shows.                                                  *)

\* The same, of any log and set of changes: each item with its change, and the
\* items alone.
Puts(l, doc) == {it \in UNION {{i} \X l[i].adds : i \in doc} : \A j \in doc : it \notin l[j].takes}
Shown(l, doc) == {it[2] : it \in Puts(l, doc)}

\* A change put the item there, and none takes it from that change.
Shows(l, doc, x) == \E i \in doc : x \in l[i].adds /\ \A j \in doc : <<i, x>> \notin l[j].takes

LEMMA ContentIs ==
  ASSUME NEW d
  PROVE  Standing(d) = Puts(log, d.doc) /\ Content(d) = Shown(log, d.doc)
BY Zenon DEF Content, Standing, Shown, Puts

LEMMA ShownFacts ==
  ASSUME NEW l, NEW doc
  PROVE  /\ \A it : it \in Puts(l, doc) <=>
                    \E i \in doc : \E x \in l[i].adds : it = <<i, x>> /\ \A j \in doc : it \notin l[j].takes
         /\ \A x : x \in Shown(l, doc) <=> Shows(l, doc, x)
<1>1. ASSUME NEW it
      PROVE  it \in Puts(l, doc) <=>
               \E i \in doc : \E x \in l[i].adds : it = <<i, x>> /\ \A j \in doc : it \notin l[j].takes
  BY DEF Puts
<1>2. ASSUME NEW x, x \in Shown(l, doc) PROVE Shows(l, doc, x)
  <2>1. PICK it \in Puts(l, doc) : x = it[2]
    BY <1>2 DEF Shown
  <2>2. PICK i \in doc : \E y \in l[i].adds : it = <<i, y>> /\ \A j \in doc : it \notin l[j].takes
    BY <1>1, <2>1
  <2> QED
    BY <2>1, <2>2 DEF Shows
<1>3. ASSUME NEW x, Shows(l, doc, x) PROVE x \in Shown(l, doc)
  <2>1. PICK i \in doc : x \in l[i].adds /\ \A j \in doc : <<i, x>> \notin l[j].takes
    BY <1>3 DEF Shows
  <2>2. <<i, x>> \in Puts(l, doc)
    BY <1>1, <2>1
  <2>3. <<i, x>>[2] = x
    OBVIOUS
  <2> QED
    BY <2>2, <2>3 DEF Shown
<1> QED
  BY <1>1, <1>2, <1>3

\* A document shows the same in a longer log.
LEMMA ShownKeeps ==
  ASSUME NEW l, NEW longer, Extends(l, longer), NEW doc, doc \subseteq DOMAIN l
  PROVE  Shown(longer, doc) = Shown(l, doc)
<1>1. \A x : Shows(longer, doc, x) <=> Shows(l, doc, x)
  BY DEF Extends, Shows
<1>2. /\ \A x : x \in Shown(longer, doc) <=> Shows(longer, doc, x)
      /\ \A x : x \in Shown(l, doc) <=> Shows(l, doc, x)
  BY ShownFacts
<1>3. \A x : x \in Shown(longer, doc) <=> x \in Shown(l, doc)
  BY ONLY <1>1, <1>2, Zenon
<1>4. \A S, T : (\A x : x \in S <=> x \in T) => S = T
  OBVIOUS
<1> QED
  BY ONLY <1>3, <1>4, Zenon

-----------------------------------------------------------------------------
(* Reconciling and merging.                                                *)

\* One change makes a document show exactly the target.
LEMMA ReconciledShows ==
  ASSUME NEW l, GoodLog(l), NEW longer, Extends(l, longer), NEW d, GoodDoc(l, d),
         NEW n, n \notin DOMAIN l, NEW target,
         longer[n].adds = target \ Shown(l, d.doc),
         \A it : it \in longer[n].takes <=> it \in Puts(l, d.doc) /\ it[2] \notin target
  PROVE  Shown(longer, d.doc \cup {n}) = target
<1> DEFINE doc == d.doc
           all == doc \cup {n}
<1>1. doc \subseteq DOMAIN l /\ n \notin doc
  BY DEF GoodDoc
<1>2. /\ \A i \in doc : longer[i] = l[i]
      /\ \A i \in doc : \A it \in longer[i].takes : it[1] \in DOMAIN l
  BY <1>1 DEF Extends, GoodLog
<1>3. \A it \in longer[n].takes : it[1] \in doc /\ it[2] \notin target
  BY ShownFacts
<1> HIDE DEF all
<1>4. ASSUME NEW x \in target PROVE Shows(longer, all, x)
  <2>1. CASE x \in longer[n].adds
    <3>1. \A j \in all : <<n, x>> \notin longer[j].takes
      BY <1>1, <1>2, <1>3 DEF all
    <3> QED
      BY <2>1, <3>1 DEF Shows, all
  <2>2. CASE x \in Shown(l, doc)
    <3>1. PICK i \in doc : x \in l[i].adds /\ \A j \in doc : <<i, x>> \notin l[j].takes
      BY <2>2, ShownFacts DEF Shows
    <3>2. \A j \in all : <<i, x>> \notin longer[j].takes
      BY <1>2, <1>3, <1>4, <3>1 DEF all
    <3> QED
      BY <1>2, <3>1, <3>2 DEF Shows, all
  <2> QED
    BY <1>4, <2>1, <2>2
<1>5. ASSUME NEW x, Shows(longer, all, x) PROVE x \in target
  <2>1. PICK i \in all : x \in longer[i].adds /\ \A j \in all : <<i, x>> \notin longer[j].takes
    BY <1>5 DEF Shows
  <2>2. CASE i = n
    BY <2>1, <2>2
  <2>3. CASE i \in doc
    <3>1. x \in l[i].adds /\ \A j \in doc : <<i, x>> \notin l[j].takes
      BY <1>2, <2>1, <2>3 DEF all
    <3>2. <<i, x>> \in Puts(l, doc)
      BY <2>3, <3>1, ShownFacts
    <3>3. <<i, x>> \notin longer[n].takes
      BY <2>1 DEF all
    <3> QED
      BY <3>2, <3>3
  <2> QED
    BY <2>1, <2>2, <2>3 DEF all
<1>6. \A x : x \in Shown(longer, all) <=> Shows(longer, all, x)
  BY ShownFacts
<1>7. \A x : x \in Shown(longer, all) <=> x \in target
  BY ONLY <1>4, <1>5, <1>6, Zenon
<1>8. \A S, T : (\A x : x \in S <=> x \in T) => S = T
  OBVIOUS
<1>9. Shown(longer, all) = target
  BY ONLY <1>7, <1>8, Zenon
<1> QED
  BY <1>9 DEF all

\* The changes people make in frames bring what they say and take nothing.
LEMMA MergedShows ==
  ASSUME NEW l, GoodLog(l), NEW doc, NEW more, doc \subseteq more, more \subseteq DOMAIN l,
         \A i \in more \ doc : l[i].typed
  PROVE  Shown(l, more) \subseteq Shown(l, doc) \cup (more \ doc)
<1> SUFFICES ASSUME NEW x, Shows(l, more, x), x \notin more \ doc PROVE Shows(l, doc, x)
  BY ShownFacts
<1>1. PICK i \in more : x \in l[i].adds /\ \A j \in more : <<i, x>> \notin l[j].takes
  BY DEF Shows
<1>2. i \in doc
  BY <1>1 DEF GoodLog
<1> QED
  BY <1>1, <1>2 DEF Shows

-----------------------------------------------------------------------------
(* One message.                                                            *)

\* An end of the protocol once it said what it has to say.
After(d, s) == IF Quiet(d, s) THEN s ELSE Said(d, s)

LEMMA MessageFacts ==
  ASSUME NEW d \in Docs, NEW s \in States
  PROVE  /\ Message(d, s) \in Messages
         /\ Message(d, s).have = d.doc /\ Message(d, s).brings \subseteq d.doc
BY DEF Message, Messages, Owed, Docs, States

LEMMA AfterFacts ==
  ASSUME NEW d \in Docs, NEW s \in States
  PROVE  /\ After(d, s) \in States /\ After(d, s).told = d.doc
         /\ After(d, s).heard = s.heard /\ After(d, s).theirs = s.theirs
         /\ After(d, s).flying \/ (s.heard /\ s.theirs = d.doc)
         /\ Quiet(d, s) => After(d, s) = s
<1>1. CASE Quiet(d, s)
  BY <1>1 DEF After, Quiet, States
<1>2. CASE ~Quiet(d, s)
  <2>1. PICK missing : missing = Owed(d, s)
    OBVIOUS
  <2>2. PICK w : w = [s EXCEPT !.told = d.doc, !.flying = TRUE, !.unacked = @ \cup missing]
    OBVIOUS
  <2>3. missing \in SUBSET Nat
    BY <2>1 DEF Owed, Docs
  <2>4. /\ w \in States /\ w.told = d.doc /\ w.flying
        /\ w.heard = s.heard /\ w.theirs = s.theirs
    BY <2>2, <2>3 DEF States, Docs
  <2>5. After(d, s) = w
    BY <1>2, <2>1, <2>2 DEF After, Said
  <2> QED
    BY <1>2, <2>4, <2>5
<1> QED
  BY <1>1, <1>2

LEMMA HeardFacts ==
  ASSUME NEW d, NEW s \in States, NEW m \in Messages
  PROVE  /\ Heard(d, s, m) \in States
         /\ Heard(d, s, m).heard /\ ~Heard(d, s, m).flying /\ Heard(d, s, m).theirs = m.have
<1>1. PICK told : told = IF m.brings = {} /\ m.have = d.doc THEN m.have ELSE s.told
  OBVIOUS
<1>2. PICK w : w = [s EXCEPT !.heard = TRUE, !.theirs = m.have, !.flying = FALSE,
                            !.unacked = @ \ m.have, !.told = told]
  OBVIOUS
<1>3. told \in SUBSET Nat
  BY <1>1 DEF States, Messages
<1>4. w \in States /\ w.heard /\ ~w.flying /\ w.theirs = m.have
  BY <1>2, <1>3 DEF States, Messages
<1>5. Heard(d, s, m) = w
  BY <1>1, <1>2 DEF Heard
<1> QED
  BY <1>4, <1>5

LEMMA FreshFacts == Fresh \in States /\ ~Fresh.heard /\ ~Fresh.flying
BY DEF Fresh, States

\* What a queue holds after one more, and after its first is gone.
LEMMA Queued ==
  ASSUME NEW out \in Seq(Messages), NEW m \in Messages
  PROVE  /\ Append(out, m) \in Seq(Messages) /\ Append(out, m) # <<>>
         /\ Append(out, m)[Len(Append(out, m))] = m
         /\ \A i \in DOMAIN Append(out, m) : Append(out, m)[i] = m \/ \E j \in DOMAIN out : Append(out, m)[i] = out[j]
OBVIOUS

LEMMA Dequeued ==
  ASSUME NEW out \in Seq(Messages), out # <<>>
  PROVE  /\ Tail(out) \in Seq(Messages) /\ Head(out) = out[1] /\ 1 \in DOMAIN out /\ Head(out) \in Messages
         /\ Tail(out) # <<>> => Tail(out)[Len(Tail(out))] = out[Len(out)]
         /\ Tail(out) = <<>> => out[Len(out)] = Head(out)
         /\ \A i \in DOMAIN Tail(out) : \E j \in DOMAIN out : Tail(out)[i] = out[j]
<1>1. Len(out) \in Nat \ {0} /\ DOMAIN out = 1..Len(out)
  BY LenProperties, EmptySeq
<1>2. PICK rest : rest = Tail(out)
  OBVIOUS
<1>3. /\ rest \in Seq(Messages) /\ Len(rest) = Len(out) - 1 /\ DOMAIN rest = 1..(Len(out) - 1)
      /\ \A i \in 1..(Len(out) - 1) : rest[i] = out[i + 1]
  <2>1. /\ rest \in Seq(Messages) /\ Len(rest) = Len(out) - 1
        /\ \A i \in 1..Len(rest) : rest[i] = out[i + 1]
    BY <1>2, HeadTailProperties
  <2> QED
    BY <2>1, LenProperties
<1>4. Head(out) = out[1] /\ 1 \in DOMAIN out /\ Head(out) \in Messages
  BY <1>1, HeadTailProperties
<1>5. rest # <<>> => rest[Len(rest)] = out[Len(out)]
  <2>1. rest # <<>> => Len(rest) # 0
    BY <1>3, EmptySeq
  <2>2. Len(out) - 1 # 0 => Len(out) - 1 \in 1..(Len(out) - 1) /\ (Len(out) - 1) + 1 = Len(out)
    BY <1>1
  <2> QED
    BY <1>3, <2>1, <2>2
<1>6. rest = <<>> => Len(out) = 1
  <2>1. rest = <<>> => Len(rest) = 0
    BY EmptySeq
  <2>2. Len(rest) = Len(out) - 1
    BY <1>3
  <2>3. Len(out) \in Nat
    BY <1>1
  <2>4. Len(out) - 1 = 0 => Len(out) = 1
    BY <2>3
  <2> QED
    BY <2>1, <2>2, <2>4, Zenon
<1>7. ASSUME NEW i \in DOMAIN rest PROVE \E j \in DOMAIN out : rest[i] = out[j]
  <2>1. i + 1 \in DOMAIN out /\ rest[i] = out[i + 1]
    BY <1>1, <1>3
  <2> QED
    BY <2>1
<1> QED
  BY <1>2, <1>3, <1>4, <1>5, <1>6, <1>7

-----------------------------------------------------------------------------
(* Telling, flushing and reconciling.                                      *)

\* A queue once an end said what it has to say.
Out(d, s, out) == IF Quiet(d, s) THEN out ELSE Append(out, Message(d, s))

LEMMA OutFacts ==
  ASSUME NEW d \in Docs, NEW s \in States, NEW out \in Seq(Messages)
  PROVE  /\ Out(d, s, out) \in Seq(Messages)
         /\ Quiet(d, s) => Out(d, s, out) = out
         /\ ~Quiet(d, s) => Out(d, s, out) # <<>> /\ Out(d, s, out)[Len(Out(d, s, out))].have = d.doc
         /\ out # <<>> => Out(d, s, out) # <<>>
         /\ \A i \in DOMAIN Out(d, s, out) :
              \/ Out(d, s, out)[i].have = d.doc /\ Out(d, s, out)[i].brings \subseteq d.doc
              \/ \E j \in DOMAIN out : Out(d, s, out)[i] = out[j]
<1>1. PICK m : m = Message(d, s)
  OBVIOUS
<1>2. m \in Messages /\ m.have = d.doc /\ m.brings \subseteq d.doc
  BY <1>1, MessageFacts
<1>3. CASE Quiet(d, s)
  BY <1>3 DEF Out
<1>4. CASE ~Quiet(d, s)
  <2>1. PICK all : all = Append(out, m)
    OBVIOUS
  <2>2. /\ all \in Seq(Messages) /\ all # <<>> /\ all[Len(all)] = m
        /\ \A i \in DOMAIN all : all[i] = m \/ \E j \in DOMAIN out : all[i] = out[j]
    BY <1>2, <2>1, Queued
  <2>3. Out(d, s, out) = all
    BY <1>1, <1>4, <2>1 DEF Out
  <2> QED
    BY <1>2, <1>4, <2>2, <2>3
<1> QED
  BY <1>3, <1>4

\* Whom Core tells, and what the others keep.
LEMMA SyncFacts ==
  ASSUME NEW d, NEW known, NEW peers, DOMAIN known \subseteq Peers, SyncReplicas(d, known, peers)
  PROVE  /\ DOMAIN states' = DOMAIN known
         /\ \A q \in DOMAIN known : states'[q] = IF q \in peers THEN After(d, known[q]) ELSE known[q]
         /\ sent' = [q \in Peers |-> IF q \in peers /\ q \in DOMAIN known
                                     THEN Out(d, known[q], sent[q]) ELSE sent[q]]
<1>1. PICK missing : missing = {q \in peers \cap DOMAIN known : ~ Quiet(d, known[q])}
  OBVIOUS
<1>2. /\ states' = [q \in DOMAIN known |-> IF q \in missing THEN Said(d, known[q]) ELSE known[q]]
      /\ sent' = [q \in Peers |-> IF q \in missing THEN Append(sent[q], Message(d, known[q])) ELSE sent[q]]
  BY <1>1, Zenon DEF SyncReplicas
<1>3. ASSUME NEW q \in DOMAIN known
      PROVE  states'[q] = IF q \in peers THEN After(d, known[q]) ELSE known[q]
  BY <1>1, <1>2 DEF After
<1>4. ASSUME NEW q \in Peers
      PROVE  sent'[q] = IF q \in peers /\ q \in DOMAIN known
                        THEN Out(d, known[q], sent[q]) ELSE sent[q]
  BY <1>1, <1>2 DEF Out
<1> QED
  BY <1>2, <1>3, <1>4

\* A frame's end after it flushed, and its messages.
LEMMA FlushFacts ==
  ASSUME NEW p \in Peers, end \in [Peers -> States], posted \in [Peers -> SUBSET Messages],
         NEW d \in Docs, NEW s \in States, Flush(p, d, s)
  PROVE  /\ end' \in [Peers -> States] /\ posted' \in [Peers -> SUBSET Messages]
         /\ end'[p] = After(d, s)
         /\ \A q \in Peers : q # p => end'[q] = end[q] /\ posted'[q] = posted[q]
         /\ posted[p] \subseteq posted'[p]
         /\ \A m \in posted'[p] : m \in posted[p] \/ (m.have = d.doc /\ m.brings \subseteq d.doc)
         /\ ~Quiet(d, s) => \E m \in posted'[p] : m.have = d.doc
<1>1. PICK m : m = Message(d, s)
  OBVIOUS
<1>2. m \in Messages /\ m.have = d.doc /\ m.brings \subseteq d.doc
  BY <1>1, MessageFacts
<1>3. PICK a : a = After(d, s)
  OBVIOUS
<1>4. a \in States
  BY <1>3, AfterFacts
<1>5. end' = [end EXCEPT ![p] = a]
  BY <1>3 DEF Flush, After
<1>6. CASE Quiet(d, s)
  BY <1>3, <1>4, <1>5, <1>6 DEF Flush
<1>7. CASE ~Quiet(d, s)
  <2>1. posted' = [posted EXCEPT ![p] = @ \cup {m}]
    BY <1>1, <1>7 DEF Flush
  <2> QED
    BY <1>2, <1>3, <1>4, <1>5, <2>1
<1> QED
  BY <1>6, <1>7

\* Core's document is made to show the target, by a change of its own.
LEMMA ReconcileFacts ==
  ASSUME GoodLog(log), GoodDoc(log, core),
         NEW target \in SUBSET (DOMAIN log \cup {New}), Reconcile(target)
  PROVE  /\ GoodLog(log') /\ Extends(log, log') /\ GoodDoc(log', core')
         /\ Shown(log', core'.doc) = target
         /\ \/ /\ UNCHANGED <<log, core, states, sent>> /\ target = Content(core)
            \/ /\ core' = With(core) /\ core'.doc = core.doc \cup {New} /\ New \notin DOMAIN log
               /\ DOMAIN log' = DOMAIN log \cup {New}
               /\ ~log'[New].typed /\ log'[New].adds \subseteq target /\ log'[New].on = core.doc
               /\ SyncReplicas(core', states, Peers)
<1>1. PICK c, adds, takes :
        c = core /\ adds = target \ Content(core) /\ takes = {it \in Standing(core) : it[2] \notin target}
  OBVIOUS
<1>2. Content(core) = Shown(log, core.doc) /\ Standing(core) = Puts(log, core.doc)
  BY ContentIs
<1>3. CASE adds = {} /\ takes = {}
  <2>1. UNCHANGED <<log, core, states, sent>>
    BY <1>1, <1>3, Zenon DEF Reconcile
  <2>2. target \subseteq Content(core)
    BY <1>1, <1>3
  <2>3. Content(core) \subseteq target
    <3>1. \A it \in Standing(core) : it[2] \in target
      BY <1>1, <1>3
    <3> QED
      BY <3>1 DEF Content
  <2>4. Extends(log, log')
    BY <2>1 DEF Extends
  <2>5. target = Content(core)
    BY <2>2, <2>3
  <2> QED
    BY <1>2, <2>1, <2>4, <2>5
<1>4. CASE ~(adds = {} /\ takes = {})
  <2>1. Change(c, adds, takes, FALSE) /\ core' = With(c) /\ DocChanged(With(c), states)
    BY <1>1, <1>4, Zenon DEF Reconcile
  <2>2. /\ adds \in SUBSET (DOMAIN log \cup {New}) /\ GoodDoc(log, c)
    BY <1>1
  <2>3. takes \in SUBSET (Nat \X Nat) /\ \A it \in takes : it[1] \in c.doc
    <3>1. ASSUME NEW it \in takes PROVE it \in Nat \X Nat /\ it[1] \in c.doc
      <4>1. it \in Puts(log, c.doc)
        BY <1>1, <1>2
      <4>2. PICK i \in c.doc : \E x \in log[i].adds : it = <<i, x>>
        BY <4>1, ShownFacts
      <4>3. i \in Nat /\ log[i].adds \subseteq Nat
        <5>1. i \in DOMAIN log /\ DOMAIN log \subseteq Nat
          BY <2>2, LenProperties DEF GoodDoc, GoodLog
        <5> QED
          BY <5>1 DEF GoodLog
      <4> QED
        BY <4>2, <4>3
    <3> QED
      BY <3>1
  <2>4. /\ GoodLog(log') /\ Extends(log, log') /\ GoodDoc(log', With(c))
        /\ New \in Nat /\ New \notin DOMAIN log /\ DOMAIN log' = DOMAIN log \cup {New}
        /\ log'[New] = [adds |-> adds, takes |-> takes, on |-> c.doc, typed |-> FALSE]
        /\ With(c).doc = c.doc \cup {New} /\ New \notin c.doc
    BY <2>1, <2>2, <2>3, ChangeFacts
  <2>5. PICK n : n = New
    OBVIOUS
  <2>6. /\ log'[n].adds = target \ Shown(log, c.doc)
        /\ log'[n].takes = {it \in Puts(log, c.doc) : it[2] \notin target}
        /\ ~log'[n].typed /\ log'[n].on = c.doc
    BY <1>1, <1>2, <2>4, <2>5
  <2>7. Shown(log', c.doc \cup {n}) = target
    <3>1. PICK l, longer : l = log /\ longer = log'
      OBVIOUS
    <3>2. /\ GoodLog(l) /\ Extends(l, longer) /\ GoodDoc(l, c) /\ n \notin DOMAIN l
          /\ longer[n].adds = target \ Shown(l, c.doc)
          /\ \A it : it \in longer[n].takes <=> it \in Puts(l, c.doc) /\ it[2] \notin target
      BY <2>2, <2>4, <2>5, <2>6, <3>1
    <3>3. Shown(longer, c.doc \cup {n}) = target
      BY <3>2, ReconciledShows
    <3> QED
      BY <3>1, <3>3
  <2>8. SyncReplicas(With(c), states, Peers)
    BY <2>1 DEF DocChanged
  <2>9. log'[n].adds \subseteq target
    BY <2>6
  <2> QED
    BY <1>1, <2>1, <2>4, <2>5, <2>6, <2>7, <2>8, <2>9
<1> QED
  BY <1>3, <1>4

-----------------------------------------------------------------------------
(* Core tells the frames.                                                  *)

LEMMA SyncTyped ==
  ASSUME NEW d \in Docs, NEW known, DOMAIN known \subseteq Peers, \A q \in DOMAIN known : known[q] \in States,
         sent \in [Peers -> Seq(Messages)], NEW peers, SyncReplicas(d, known, peers)
  PROVE  /\ \A q \in DOMAIN states' : states'[q] \in States
         /\ sent' \in [Peers -> Seq(Messages)]
         /\ \A q \in Peers : sent[q] # <<>> => sent'[q] # <<>>
         /\ \A q \in Peers : \A i \in DOMAIN sent'[q] :
              \/ sent'[q][i].have = d.doc /\ sent'[q][i].brings \subseteq d.doc
              \/ \E j \in DOMAIN sent[q] : sent'[q][i] = sent[q][j]
<1>1. /\ DOMAIN states' = DOMAIN known
      /\ \A q \in DOMAIN known : states'[q] = IF q \in peers THEN After(d, known[q]) ELSE known[q]
      /\ sent' = [q \in Peers |-> IF q \in peers /\ q \in DOMAIN known
                                  THEN Out(d, known[q], sent[q]) ELSE sent[q]]
  BY SyncFacts
<1>2. \A q \in DOMAIN states' : states'[q] \in States
  BY <1>1, AfterFacts
<1>3. ASSUME NEW q \in Peers
      PROVE  /\ sent'[q] \in Seq(Messages) /\ (sent[q] # <<>> => sent'[q] # <<>>)
             /\ \A i \in DOMAIN sent'[q] :
                  \/ sent'[q][i].have = d.doc /\ sent'[q][i].brings \subseteq d.doc
                  \/ \E j \in DOMAIN sent[q] : sent'[q][i] = sent[q][j]
  <2>1. CASE q \in peers /\ q \in DOMAIN known
    <3>1. PICK o, k, b : o = Out(d, known[q], sent[q]) /\ k = known[q] /\ b = sent[q]
      OBVIOUS
    <3>2. k \in States /\ b \in Seq(Messages) /\ o = Out(d, k, b)
      BY <2>1, <3>1
    <3>3. /\ o \in Seq(Messages) /\ (b # <<>> => o # <<>>)
          /\ \A i \in DOMAIN o : \/ o[i].have = d.doc /\ o[i].brings \subseteq d.doc
                                \/ \E j \in DOMAIN b : o[i] = b[j]
      BY <3>2, OutFacts
    <3>4. sent'[q] = o
      BY <1>1, <2>1, <3>1
    <3> QED
      BY ONLY <3>1, <3>3, <3>4
  <2>2. CASE ~(q \in peers /\ q \in DOMAIN known)
    <3>1. sent'[q] = sent[q]
      BY <1>1, <2>2
    <3> QED
      BY <3>1
  <2> QED
    BY <2>1, <2>2
<1>4. sent' \in [Peers -> Seq(Messages)]
  BY <1>1, <1>3
<1> QED
  BY <1>2, <1>3, <1>4

\* Whoever is told is told of this document.
LEMMA ToldEnd ==
  ASSUME NEW d \in Docs, NEW s \in States, NEW out \in Seq(Messages), NEW theirs,
         s.heard, s.theirs \subseteq theirs,
         Quiet(d, s) => (s.flying /\ out # <<>> => out[Len(out)].have = d.doc)
  PROVE  EndOf(d.doc, After(d, s), Out(d, s, out), theirs)
<1>1. PICK a, o : a = After(d, s) /\ o = Out(d, s, out)
  OBVIOUS
<1>2. /\ a.told = d.doc /\ a.heard = s.heard /\ a.theirs = s.theirs
      /\ a.flying \/ (s.heard /\ s.theirs = d.doc)
      /\ Quiet(d, s) => a = s
  BY <1>1, AfterFacts
<1>3. /\ Quiet(d, s) => o = out
      /\ ~Quiet(d, s) => o # <<>> /\ o[Len(o)].have = d.doc
  BY <1>1, OutFacts
<1>4. a.flying /\ o # <<>> => o[Len(o)].have = d.doc
  BY <1>2, <1>3
<1>5. EndOf(d.doc, a, o, theirs)
  BY <1>2, <1>4 DEF EndOf
<1> QED
  BY <1>1, <1>5

\* An end that was told of less has something to say.
LEMMA NotQuiet ==
  ASSUME NEW d, NEW s, s.told # d.doc
  PROVE  ~Quiet(d, s)
BY DEF Quiet

LEMMA CommitFacts ==
  ASSUME DocsOK, NEW d, Commit(d)
  PROVE  /\ head' = head + 1 /\ DOMAIN commits' = 1..(head + 1) /\ commits'[head'] = d
         /\ \A i \in 1..head : i \in DOMAIN commits /\ commits'[i] = commits[i]
         /\ d \in Docs => commits' \in Seq(Docs) /\ Len(commits') = head + 1
<1>1. /\ head \in Nat /\ head <= Len(commits) /\ commits \in Seq(Docs) /\ Len(commits) \in Nat
      /\ DOMAIN commits = 1..Len(commits)
  BY LenProperties DEF DocsOK
<1>2. PICK cut : cut = SubSeq(commits, 1, head)
  OBVIOUS
<1>3. \A i \in 1..head : commits[i] \in Docs
  BY <1>1, ElementOfSeq
<1>4. /\ cut \in Seq(Docs) /\ Len(cut) = head /\ \A i \in 1..head : cut[i] = commits[i]
  <2>1. /\ cut \in Seq(Docs)
        /\ Len(cut) = IF 1 <= head THEN head - 1 + 1 ELSE 0
        /\ \A i \in 1..(head - 1 + 1) : cut[i] = commits[1 + i - 1]
    BY <1>1, <1>2, <1>3, SubSeqProperties
  <2> QED
    BY <1>1, <2>1
<1>5. commits' = Append(cut, d) /\ head' = head + 1
  BY <1>2 DEF Commit
<1>6. DOMAIN commits' = 1..(head + 1) /\ commits'[head + 1] = d /\ \A i \in 1..head : commits'[i] = cut[i]
  BY <1>1, <1>4, <1>5
<1>7. d \in Docs => commits' \in Seq(Docs) /\ Len(commits') = head + 1
  BY <1>1, <1>4, <1>5
<1> QED
  BY <1>1, <1>4, <1>5, <1>6, <1>7

\* The commits are as good as what is committed.
LEMMA CommitKeeps ==
  ASSUME DocsOK, Extends(log, log'), NEW d, GoodDoc(log', d), Commit(d)
  PROVE  /\ commits' \in Seq(Docs) /\ \A i \in DOMAIN commits' : GoodDoc(log', commits'[i])
         /\ head' \in Nat /\ head' <= Len(commits') /\ head' > 0 /\ head' \in DOMAIN commits'
<1>1. /\ head' = head + 1 /\ DOMAIN commits' = 1..(head + 1) /\ commits'[head'] = d
      /\ \A i \in 1..head : i \in DOMAIN commits /\ commits'[i] = commits[i]
      /\ d \in Docs => commits' \in Seq(Docs) /\ Len(commits') = head + 1
  BY CommitFacts
<1>2. d \in Docs /\ head \in Nat
  BY DEF GoodDoc, DocsOK
<1>3. ASSUME NEW i \in DOMAIN commits' PROVE GoodDoc(log', commits'[i])
  <2>1. CASE i = head + 1
    BY <1>1, <2>1
  <2>2. CASE i \in 1..head
    <3>1. GoodDoc(log, commits[i])
      BY <1>1, <2>2 DEF DocsOK
    <3>2. GoodDoc(log', commits[i])
      BY <3>1, DocKeeps
    <3> QED
      BY <1>1, <2>2, <3>2
  <2>3. i = head + 1 \/ i \in 1..head
    BY <1>1, <1>2, <1>3
  <2> QED
    BY <2>1, <2>2, <2>3
<1> QED
  BY <1>1, <1>2, <1>3

\* The documents that stay as they are stay good.
LEMMA DocsKeep ==
  ASSUME DocsOK, Extends(log, log')
  PROVE  /\ GoodDoc(log', core)
         /\ \A i \in DOMAIN commits : GoodDoc(log', commits[i])
         /\ \A p \in Peers : GoodDoc(log', copy[p])
BY DocKeeps DEF DocsOK

-----------------------------------------------------------------------------
(* The frames when Core's document is reconciled.                          *)

LEMMA ReconcileSync ==
  ASSUME ReplicasTyped, SyncInv, NEW target \in SUBSET (DOMAIN log \cup {New}), Reconcile(target),
         UNCHANGED <<seen, client, posted, lost, restarts>>
  PROVE  SeenOK' /\ EndsOK' /\ SyncInv'
<1>1. /\ core'.doc = core.doc \/ (core'.doc = core.doc \cup {New} /\ New \notin core.doc)
      /\ \/ UNCHANGED <<core, states, sent>>
         \/ core'.doc = core.doc \cup {New} /\ New \notin core.doc /\ SyncReplicas(core', states, Peers)
  <2>1. \/ UNCHANGED <<log, core, states, sent>> /\ target = Content(core)
        \/ core'.doc = core.doc \cup {New} /\ New \notin DOMAIN log /\ SyncReplicas(core', states, Peers)
    BY ReconcileFacts DEF ReplicasTyped, DocsOK
  <2>2. core.doc \subseteq DOMAIN log
    BY DEF ReplicasTyped, DocsOK, GoodDoc
  <2> QED
    BY <2>1, <2>2
<1>2. CASE UNCHANGED <<core, states, sent>>
  <2>1. SeenOK'
    BY <1>2, Zenon DEF ReplicasTyped, SeenOK
  <2>2. EndsOK'
    BY <1>2 DEF ReplicasTyped, EndsOK, client
  <2>3. ASSUME NEW p \in Peers PROVE CoreEnd(p)' /\ FrameEnd(p)' /\ Honest(p)' /\ Knows(p)'
    <3>1. CoreEnd(p) /\ FrameEnd(p) /\ Honest(p) /\ Knows(p)
      BY DEF SyncInv
    <3> QED
      BY <1>2, <3>1 DEF CoreEnd, FrameEnd, Honest, Knows, client
  <2> QED
    BY <2>1, <2>2, <2>3 DEF SyncInv
<1>3. CASE core'.doc = core.doc \cup {New} /\ New \notin core.doc /\ SyncReplicas(core', states, Peers)
  <2>1. PICK d : d = core'
    OBVIOUS
  <2>2. d \in Docs
    <3>1. GoodDoc(log', core')
      BY ReconcileFacts DEF ReplicasTyped, DocsOK
    <3> QED
      BY <2>1, <3>1 DEF GoodDoc
  <2>3. /\ DOMAIN states \subseteq Peers /\ \A q \in DOMAIN states : states[q] \in States
        /\ sent \in [Peers -> Seq(Messages)] /\ SyncReplicas(d, states, Peers)
    BY <1>3, <2>1 DEF ReplicasTyped, SeenOK, EndsOK
  <2>4. /\ DOMAIN states' = DOMAIN states
        /\ \A q \in DOMAIN states : states'[q] = IF q \in Peers THEN After(d, states[q]) ELSE states[q]
        /\ sent' = [q \in Peers |-> IF q \in Peers /\ q \in DOMAIN states
                                    THEN Out(d, states[q], sent[q]) ELSE sent[q]]
    BY <2>3, SyncFacts
  <2>5. /\ \A q \in DOMAIN states' : states'[q] \in States
        /\ sent' \in [Peers -> Seq(Messages)]
        /\ \A q \in Peers : sent[q] # <<>> => sent'[q] # <<>>
        /\ \A q \in Peers : \A i \in DOMAIN sent'[q] :
             \/ sent'[q][i].have = d.doc /\ sent'[q][i].brings \subseteq d.doc
             \/ \E j \in DOMAIN sent[q] : sent'[q][i] = sent[q][j]
    BY <2>2, <2>3, SyncTyped
  <2>6. SeenOK'
    BY <2>4 DEF ReplicasTyped, SeenOK
  <2>7. EndsOK'
    BY <2>5 DEF ReplicasTyped, EndsOK, client
  <2>8. ASSUME NEW p \in Peers PROVE CoreEnd(p)' /\ FrameEnd(p)' /\ Honest(p)' /\ Knows(p)'
    <3>1. CoreEnd(p) /\ FrameEnd(p) /\ Honest(p) /\ Knows(p)
      BY DEF SyncInv
    <3>2. ASSUME p \in DOMAIN states
          PROVE  EndOf(d.doc, states'[p], sent'[p], copy[p].doc) /\ sent'[p] # <<>>
      <4>1. PICK s, out : s = states[p] /\ out = sent[p]
        OBVIOUS
      <4>2. /\ s \in States /\ out \in Seq(Messages)
            /\ states'[p] = After(d, s) /\ sent'[p] = Out(d, s, out)
        BY <2>3, <2>4, <3>2, <4>1
      <4>3. s.heard /\ s.theirs \subseteq copy[p].doc /\ s.told = core.doc
        BY <3>1, <3>2, <4>1 DEF CoreEnd, EndOf
      <4>4. ~Quiet(d, s)
        BY <1>3, <2>1, <4>3, NotQuiet
      <4>5. EndOf(d.doc, After(d, s), Out(d, s, out), copy[p].doc)
        BY <2>2, <4>2, <4>3, <4>4, ToldEnd
      <4>6. Out(d, s, out) # <<>>
        BY <2>2, <4>2, <4>4, OutFacts
      <4> QED
        BY <4>2, <4>5, <4>6
    <3>3. CoreEnd(p)'
      BY <2>1, <2>4, <3>2 DEF CoreEnd, client
    <3>4. FrameEnd(p)'
      BY <3>1 DEF FrameEnd, client
    <3>5. Honest(p)'
      BY <1>3, <2>1, <2>5, <3>1 DEF Honest, client
    <3>6. Knows(p)'
      BY <1>3, <2>4, <2>5, <3>1, <3>2 DEF Knows, client
    <3> QED
      BY <3>3, <3>4, <3>5, <3>6
  <2> QED
    BY <2>6, <2>7, <2>8 DEF SyncInv
<1> QED
  BY <1>1, <1>2, <1>3

-----------------------------------------------------------------------------
(* The history, of any log and document.                                   *)

HistoryOf(l, doc, line, at, gone, again) ==
  /\ again = 0 =>
       /\ gone \subseteq doc /\ gone \cap Shown(l, doc) = {}
       /\ \A i \in DOMAIN line : line[i].doc \subseteq doc
       /\ \A i \in DOMAIN l : ~l[i].typed => i \in doc
       /\ \A i \in DOMAIN l : l[i].adds \subseteq l[i].on \cup {i}
  /\ \A i \in doc : l[i].typed /\ i \in Shown(l, doc) => at > 0 /\ i \in Shown(l, line[at].doc)

LEMMA HistoryIs ==
  /\ HistoryInv <=> HistoryOf(log, core.doc, commits, head, undone, restarts)
  /\ HistoryInv' <=> HistoryOf(log', core'.doc, commits', head', undone', restarts')
<1>1. /\ Content(core) = Shown(log, core.doc) /\ Content(core)' = Shown(log', core'.doc)
      /\ Content(commits[head]) = Shown(log, commits[head].doc)
      /\ Content(commits[head])' = Shown(log', commits'[head'].doc)
  BY Zenon DEF Content, Standing, Shown, Puts
<1>2. HistoryInv <=> HistoryOf(log, core.doc, commits, head, undone, restarts)
  BY <1>1 DEF HistoryInv, HistoryOf, Whole, EditsAndUndosStay, UndoneStaysUndone, EditsAreKept
<1>3. HistoryInv' <=> HistoryOf(log', core'.doc, commits', head', undone', restarts')
  BY <1>1 DEF HistoryInv, HistoryOf, Whole, EditsAndUndosStay, UndoneStaysUndone, EditsAreKept
<1> QED
  BY <1>2, <1>3

\* What a good document shows is in the log, and while every item is some
\* change's own or one it names, in the document.
LEMMA ShownIn ==
  ASSUME NEW l, GoodLog(l), NEW d, GoodDoc(l, d)
  PROVE  /\ Shown(l, d.doc) \subseteq DOMAIN l
         /\ (\A i \in DOMAIN l : l[i].adds \subseteq l[i].on \cup {i}) => Shown(l, d.doc) \subseteq d.doc
<1>1. ASSUME NEW x \in Shown(l, d.doc)
      PROVE  x \in DOMAIN l /\ ((\A i \in DOMAIN l : l[i].adds \subseteq l[i].on \cup {i}) => x \in d.doc)
  <2>1. PICK i \in d.doc : x \in l[i].adds
    BY <1>1, ShownFacts DEF Shows
  <2>2. i \in DOMAIN l /\ l[i].on \subseteq d.doc
    BY DEF GoodDoc
  <2> QED
    BY <2>1, <2>2 DEF GoodLog
<1> QED
  BY <1>1

\* Nothing but the frames moved: the history is what it was.
LEMMA HistorySame ==
  ASSUME HistoryInv, UNCHANGED <<log, core, commits, head, undone, restarts>>
  PROVE  HistoryInv'
BY HistoryIs, Zenon

-----------------------------------------------------------------------------
(* Every step keeps all of it.                                             *)

\* A tool call, or a whole document from a surface.
LEMMA WriteDocKeeps ==
  ASSUME ReplicasInv, NEW commit \in BOOLEAN, WriteDoc(commit)
  PROVE  ReplicasInv'
<1> USE DEF ReplicasInv
<1>1. PICK target, n : target = Content(core) \cup {New} /\ n = New
  OBVIOUS
<1>2. /\ Reconcile(target) /\ UNCHANGED <<seen, client, posted, lost, undone, restarts>>
      /\ IF commit THEN Commit(With(core)) ELSE UNCHANGED <<commits, head>>
  BY <1>1, Zenon DEF WriteDoc
<1>3. GoodLog(log) /\ GoodDoc(log, core) /\ DocsOK
  BY DEF ReplicasTyped, DocsOK
<1>4. Content(core) = Shown(log, core.doc) /\ Content(core) \subseteq DOMAIN log
  BY <1>3, ContentIs, ShownIn
<1>5. n \in Nat /\ n \notin DOMAIN log /\ core.doc \subseteq DOMAIN log
  <2>1. Len(log) \in Nat /\ DOMAIN log = 1..Len(log)
    BY <1>3, LenProperties DEF GoodLog
  <2> QED
    BY <1>1, <1>3, <2>1 DEF New, GoodDoc
<1>6. target \in SUBSET (DOMAIN log \cup {New})
  BY <1>1, <1>4
<1>7. /\ GoodLog(log') /\ Extends(log, log') /\ GoodDoc(log', core') /\ Shown(log', core'.doc) = target
      /\ core' = With(core) /\ core'.doc = core.doc \cup {n}
      /\ DOMAIN log' = DOMAIN log \cup {n}
      /\ ~log'[n].typed /\ log'[n].adds \subseteq target /\ log'[n].on = core.doc
  BY <1>1, <1>2, <1>3, <1>4, <1>5, <1>6, ReconcileFacts
<1>8. /\ \A i \in DOMAIN commits : GoodDoc(log', commits[i])
      /\ \A p \in Peers : GoodDoc(log', copy[p])
  BY <1>3, <1>7, DocsKeep
<1>9. /\ DocsOK'
      /\ \A i \in DOMAIN commits' : commits'[i] = core' \/ (i \in DOMAIN commits /\ commits'[i] = commits[i])
      /\ \/ head' > 0 /\ commits'[head'] = core'
         \/ UNCHANGED <<commits, head>>
  <2>1. CASE commit
    <3>1. PICK d : d = core'
      OBVIOUS
    <3>2. Commit(d) /\ GoodDoc(log', d)
      BY <1>2, <1>7, <2>1, <3>1
    <3>3. /\ commits' \in Seq(Docs) /\ \A i \in DOMAIN commits' : GoodDoc(log', commits'[i])
          /\ head' \in Nat /\ head' <= Len(commits') /\ head' > 0
      BY <1>3, <1>7, <3>2, CommitKeeps
    <3>4. /\ head' = head + 1 /\ DOMAIN commits' = 1..(head + 1) /\ commits'[head'] = d
          /\ \A i \in 1..head : i \in DOMAIN commits /\ commits'[i] = commits[i]
      BY <1>3, <3>2, CommitFacts
    <3>5. DocsOK'
      BY <1>2, <1>3, <1>7, <1>8, <3>3 DEF DocsOK, client
    <3>6. ASSUME NEW i \in DOMAIN commits'
          PROVE  commits'[i] = d \/ (i \in DOMAIN commits /\ commits'[i] = commits[i])
      <4>1. head \in Nat
        BY <1>3 DEF DocsOK
      <4>2. i = head + 1 \/ i \in 1..head
        BY <3>4, <3>6, <4>1
      <4> QED
        BY <3>4, <4>2
    <3> QED
      BY <3>1, <3>3, <3>4, <3>5, <3>6
  <2>2. CASE ~commit
    <3>1. UNCHANGED <<commits, head, copy>>
      BY <1>2, <2>2 DEF client
    <3>2. DocsOK'
      BY <1>3, <1>7, <1>8, <3>1 DEF DocsOK
    <3> QED
      BY <3>1, <3>2
  <2> QED
    BY <2>1, <2>2
<1>10. SeenOK' /\ EndsOK' /\ SyncInv'
  BY <1>2, <1>6, ReconcileSync
<1>11. HistoryOf(log, core.doc, commits, head, undone, restarts)
  BY HistoryIs
<1>12. HistoryOf(log', core'.doc, commits', head', undone', restarts')
  <2>1. ASSUME restarts = 0
        PROVE  /\ undone \subseteq core'.doc /\ undone \cap target = {}
               /\ \A i \in DOMAIN commits' : commits'[i].doc \subseteq core'.doc
               /\ \A i \in DOMAIN log' : ~log'[i].typed => i \in core'.doc
               /\ \A i \in DOMAIN log' : log'[i].adds \subseteq log'[i].on \cup {i}
    <3>1. /\ undone \subseteq core.doc /\ undone \cap Shown(log, core.doc) = {}
          /\ \A i \in DOMAIN commits : commits[i].doc \subseteq core.doc
          /\ \A i \in DOMAIN log : ~log[i].typed => i \in core.doc
          /\ \A i \in DOMAIN log : log[i].adds \subseteq log[i].on \cup {i}
      BY <1>11, <2>1 DEF HistoryOf
    <3>2. Content(core) \subseteq core.doc
      BY <1>3, <1>4, <3>1, ShownIn
    <3>3. undone \subseteq core'.doc /\ undone \cap target = {}
      BY <1>1, <1>4, <1>5, <1>7, <3>1
    <3>4. \A i \in DOMAIN commits' : commits'[i].doc \subseteq core'.doc
      BY <1>7, <1>9, <3>1
    <3>5. \A i \in DOMAIN log' : ~log'[i].typed => i \in core'.doc
      BY <1>7, <3>1 DEF Extends
    <3>6. ASSUME NEW i \in DOMAIN log' PROVE log'[i].adds \subseteq log'[i].on \cup {i}
      <4>1. CASE i = n
        BY <1>1, <1>7, <3>2, <4>1
      <4>2. CASE i \in DOMAIN log
        BY <1>7, <3>1, <4>2 DEF Extends
      <4> QED
        BY <1>7, <3>6, <4>1, <4>2
    <3> QED
      BY <3>3, <3>4, <3>5, <3>6
  <2>2. ASSUME NEW i \in core'.doc, log'[i].typed, i \in target
        PROVE  head' > 0 /\ i \in Shown(log', commits'[head'].doc)
    <3>1. CASE head' > 0 /\ commits'[head'] = core'
      BY <1>7, <2>2, <3>1
    <3>2. CASE UNCHANGED <<commits, head>>
      <4>1. i \in core.doc /\ log[i].typed /\ i \in Shown(log, core.doc)
        BY <1>1, <1>4, <1>5, <1>7, <2>2 DEF Extends
      <4>2. head > 0 /\ i \in Shown(log, commits[head].doc)
        BY <1>11, <4>1 DEF HistoryOf
      <4>3. head \in DOMAIN commits
        BY <1>3, <4>2, LenProperties DEF DocsOK
      <4>4. commits[head].doc \subseteq DOMAIN log
        BY <1>3, <4>3 DEF DocsOK, GoodDoc
      <4>5. Shown(log', commits[head].doc) = Shown(log, commits[head].doc)
        BY <1>7, <4>4, ShownKeeps
      <4> QED
        BY <3>2, <4>2, <4>5
    <3> QED
      BY <1>9, <3>1, <3>2
  <2>3. /\ restarts' = restarts /\ undone' = undone /\ Shown(log', core'.doc) = target
    BY <1>2, <1>7
  <2> QED
    BY <2>1, <2>2, <2>3 DEF HistoryOf
<1>13. HistoryInv'
  BY <1>12, HistoryIs
<1>14. ReplicasTyped'
  BY <1>7, <1>9, <1>10 DEF ReplicasTyped
<1> QED
  BY <1>10, <1>13, <1>14

\* Undo and redo.
LEMMA MoveHeadKeeps ==
  ASSUME ReplicasInv, NEW to \in Nat, to <= Len(commits), MoveHead(to)
  PROVE  ReplicasInv'
<1> USE DEF ReplicasInv
<1>1. PICK target, n : target = (IF to = 0 THEN {} ELSE Content(commits[to])) /\ n = New
  OBVIOUS
<1>2. /\ Reconcile(target) /\ head' = to /\ undone' = (undone \cup Content(core)) \ target
      /\ UNCHANGED <<commits, seen, client, posted, lost, restarts>>
  BY <1>1, Zenon DEF MoveHead
<1>3. GoodLog(log) /\ GoodDoc(log, core) /\ DocsOK
  BY DEF ReplicasTyped, DocsOK
<1>4. Content(core) = Shown(log, core.doc)
  BY ContentIs
<1>5. n \in Nat /\ n \notin DOMAIN log /\ core.doc \subseteq DOMAIN log
  <2>1. Len(log) \in Nat /\ DOMAIN log = 1..Len(log)
    BY <1>3, LenProperties DEF GoodLog
  <2> QED
    BY <1>1, <1>3, <2>1 DEF New, GoodDoc
<1>6. to # 0 => /\ to \in DOMAIN commits /\ GoodDoc(log, commits[to]) /\ target = Shown(log, commits[to].doc)
                /\ commits[to].doc \subseteq DOMAIN log
  <2>1. ASSUME to # 0 PROVE to \in DOMAIN commits
    BY <1>3, <2>1, LenProperties DEF DocsOK
  <2>2. to # 0 => target = Shown(log, commits[to].doc)
    BY <1>1, ContentIs
  <2> QED
    BY <1>3, <2>1, <2>2 DEF DocsOK, GoodDoc
<1>7. target \in SUBSET DOMAIN log
  <2>1. to = 0 => target = {}
    BY <1>1
  <2>2. to # 0 => target \subseteq DOMAIN log
    BY <1>3, <1>6, ShownIn
  <2> QED
    BY <2>1, <2>2
<1>8. target \in SUBSET (DOMAIN log \cup {New})
  BY <1>7
<1>9. /\ GoodLog(log') /\ Extends(log, log') /\ GoodDoc(log', core') /\ Shown(log', core'.doc) = target
      /\ \/ UNCHANGED <<log, core>>
         \/ /\ core'.doc = core.doc \cup {n} /\ DOMAIN log' = DOMAIN log \cup {n}
            /\ ~log'[n].typed /\ log'[n].adds \subseteq target /\ log'[n].on = core.doc
  BY <1>1, <1>2, <1>3, <1>8, ReconcileFacts
<1>10. /\ \A i \in DOMAIN commits : GoodDoc(log', commits[i])
       /\ \A p \in Peers : GoodDoc(log', copy[p])
  BY <1>3, <1>9, DocsKeep
<1>11. DocsOK'
  BY <1>2, <1>3, <1>9, <1>10 DEF DocsOK, client
<1>12. SeenOK' /\ EndsOK' /\ SyncInv'
  BY <1>2, <1>8, ReconcileSync
<1>13. HistoryOf(log, core.doc, commits, head, undone, restarts)
  BY HistoryIs
<1>14. HistoryOf(log', core'.doc, commits', head', undone', restarts')
  <2>1. ASSUME restarts = 0
        PROVE  /\ undone' \subseteq core'.doc
               /\ \A i \in DOMAIN commits' : commits'[i].doc \subseteq core'.doc
               /\ \A i \in DOMAIN log' : ~log'[i].typed => i \in core'.doc
               /\ \A i \in DOMAIN log' : log'[i].adds \subseteq log'[i].on \cup {i}
    <3>1. /\ undone \subseteq core.doc
          /\ \A i \in DOMAIN commits : commits[i].doc \subseteq core.doc
          /\ \A i \in DOMAIN log : ~log[i].typed => i \in core.doc
          /\ \A i \in DOMAIN log : log[i].adds \subseteq log[i].on \cup {i}
      BY <1>13, <2>1 DEF HistoryOf
    <3>2. Content(core) \subseteq core.doc
      BY <1>3, <1>4, <3>1, ShownIn
    <3>3. core.doc \subseteq core'.doc
      BY <1>9
    <3>4. target \subseteq core.doc
      <4>1. to # 0 => target \subseteq commits[to].doc /\ commits[to].doc \subseteq core.doc
        BY <1>3, <1>6, <3>1, ShownIn
      <4> QED
        BY <1>1, <4>1
    <3>5. undone' \subseteq core'.doc
      BY <1>2, <3>1, <3>2, <3>3
    <3>6. \A i \in DOMAIN commits' : commits'[i].doc \subseteq core'.doc
      BY <1>2, <3>1, <3>3
    <3>7. \A i \in DOMAIN log' : ~log'[i].typed => i \in core'.doc
      BY <1>9, <3>1 DEF Extends
    <3>8. ASSUME NEW i \in DOMAIN log' PROVE log'[i].adds \subseteq log'[i].on \cup {i}
      <4>1. CASE i \in DOMAIN log
        BY <1>9, <3>1, <4>1 DEF Extends
      <4>2. CASE i \notin DOMAIN log
        BY <1>9, <3>4, <3>8, <4>2
      <4> QED
        BY <4>1, <4>2
    <3> QED
      BY <3>5, <3>6, <3>7, <3>8
  <2>2. undone' \cap target = {}
    BY <1>2
  <2>3. ASSUME NEW i \in target PROVE head' > 0 /\ i \in Shown(log', commits'[head'].doc)
    <3>1. to # 0
      BY <1>1, <2>3
    <3>2. Shown(log', commits[to].doc) = target
      BY <1>6, <1>9, <3>1, ShownKeeps
    <3> QED
      BY <1>2, <2>3, <3>1, <3>2
  <2>4. restarts' = restarts /\ Shown(log', core'.doc) = target
    BY <1>2, <1>9
  <2> QED
    BY <2>1, <2>2, <2>3, <2>4 DEF HistoryOf
<1>15. HistoryInv'
  BY <1>14, HistoryIs
<1>16. ReplicasTyped'
  BY <1>9, <1>11, <1>12 DEF ReplicasTyped
<1> QED
  BY <1>12, <1>15, <1>16

\* What Core's side knows when a frame's message arrives: the frame is the one
\* heard from last, and of the others nobody is new.
LEMMA DocSyncFacts ==
  ASSUME ReplicasTyped, SyncInv, NEW p \in Peers, DocSync(p)
  PROVE  \E m, d, state, known, peers :
           /\ m \in posted[p] /\ d = Arrived(core, m.brings) /\ GoodDoc(log, d) /\ core.doc \subseteq d.doc
           /\ state \in States /\ m \in Messages
           /\ DOMAIN known \subseteq Peers /\ p \in DOMAIN known /\ known[p] = Heard(d, state, m)
           /\ \A q \in DOMAIN known : q # p => q \in DOMAIN states /\ known[q] = states[q]
           /\ \A q \in DOMAIN known : known[q] \in States
           /\ p \in peers /\ (d.doc # core.doc => peers = Peers) /\ (d.doc = core.doc => peers = {p})
           /\ posted' = [posted EXCEPT ![p] = @ \ {m}] /\ core' = d
           /\ SyncReplicas(d, known, peers)
           /\ IF d.doc # core.doc THEN Commit(d) ELSE UNCHANGED <<commits, head>>
           /\ seen' \in Seq(Peers) /\ Distinct(seen')
           /\ \A i \in DOMAIN seen' : seen'[i] \in DOMAIN known
<1>1. PICK m \in posted[p] :
        LET d == Arrived(core, m.brings)
            state == IF p \in DOMAIN states THEN states[p] ELSE Fresh
            order == PutReplica(p)
            known == [q \in {order[i] : i \in DOMAIN order} |->
                        IF q = p THEN Heard(d, state, m) ELSE states[q]] IN
        /\ posted' = [posted EXCEPT ![p] = @ \ {m}]
        /\ core' = d
        /\ seen' = order
        /\ IF d.doc # core.doc
           THEN Commit(d) /\ DocChanged(d, known)
           ELSE SyncReplicas(d, known, {p}) /\ UNCHANGED <<commits, head>>
  BY Zenon DEF DocSync
<1>2. PICK d : d = Arrived(core, m.brings)
  OBVIOUS
<1>3. PICK state : state = IF p \in DOMAIN states THEN states[p] ELSE Fresh
  OBVIOUS
<1>4. PICK order : order = PutReplica(p)
  OBVIOUS
<1>5. PICK known : known = [q \in {order[i] : i \in DOMAIN order} |->
                              IF q = p THEN Heard(d, state, m) ELSE states[q]]
  OBVIOUS
<1>6. /\ posted' = [posted EXCEPT ![p] = @ \ {m}] /\ core' = d /\ seen' = order
      /\ IF d.doc # core.doc
         THEN Commit(d) /\ DocChanged(d, known)
         ELSE SyncReplicas(d, known, {p}) /\ UNCHANGED <<commits, head>>
  BY <1>1, <1>2, <1>3, <1>4, <1>5, Zenon
<1>7. /\ m \in Messages /\ m.brings \subseteq copy[p].doc
      /\ GoodLog(log) /\ GoodDoc(log, core) /\ GoodDoc(log, copy[p]) /\ SeenOK
  BY DEF ReplicasTyped, EndsOK, DocsOK, SyncInv, Honest
<1>8. m.brings \subseteq DOMAIN log
  BY <1>7 DEF GoodDoc
<1>9. GoodDoc(log, d) /\ core.doc \subseteq d.doc
  BY <1>2, <1>7, <1>8, ArrivedFacts
<1>10. state \in States
  BY <1>3, FreshFacts DEF ReplicasTyped, EndsOK
<1>11. /\ order \in Seq(Peers) /\ Distinct(order) /\ IsIn(p, order)
       /\ \A q : IsIn(q, order) => q = p \/ q \in DOMAIN states
  BY <1>4, <1>7, PutFacts
<1>12. /\ DOMAIN known = {order[i] : i \in DOMAIN order}
       /\ \A q \in DOMAIN known : known[q] = IF q = p THEN Heard(d, state, m) ELSE states[q]
  BY <1>5
<1>13. \A q : q \in DOMAIN known <=> IsIn(q, order)
  BY <1>12 DEF IsIn
<1>14. DOMAIN known \subseteq Peers /\ p \in DOMAIN known /\ \A q \in DOMAIN known : q # p => q \in DOMAIN states
  BY <1>7, <1>11, <1>13 DEF SeenOK
<1>15. known[p] = Heard(d, state, m) /\ \A q \in DOMAIN known : q # p => known[q] = states[q]
  BY <1>12, <1>14
<1>16. \A q \in DOMAIN known : known[q] \in States
  <2>1. \A q \in DOMAIN states : states[q] \in States
    BY DEF ReplicasTyped, EndsOK
  <2>2. known[p] \in States
    BY <1>7, <1>10, <1>15, HeardFacts
  <2> QED BY <1>14, <1>15, <2>1, <2>2
<1>17. \A i \in DOMAIN order : order[i] \in DOMAIN known
  BY <1>12
<1>18. PICK peers : peers = IF d.doc # core.doc THEN Peers ELSE {p}
  OBVIOUS
<1>19. /\ SyncReplicas(d, known, peers)
       /\ IF d.doc # core.doc THEN Commit(d) ELSE UNCHANGED <<commits, head>>
  BY <1>6, <1>18 DEF DocChanged
<1>20. p \in peers /\ (d.doc # core.doc => peers = Peers) /\ (d.doc = core.doc => peers = {p})
  BY <1>18
<1> QED
  BY <1>2, <1>6, <1>7, <1>9, <1>10, <1>11, <1>14, <1>15, <1>16, <1>17, <1>19, <1>20

\* A frame's message is applied, and committed when it changed the document.
LEMMA DocSyncKeeps ==
  ASSUME ReplicasInv, NEW p \in Peers, DocSync(p)
  PROVE  ReplicasInv'
<1> USE DEF ReplicasInv
<1>1. UNCHANGED <<log, client, lost, undone, restarts>>
  BY DEF DocSync
<1>2. PICK m, d, state, known, peers :
           /\ m \in posted[p] /\ d = Arrived(core, m.brings) /\ GoodDoc(log, d) /\ core.doc \subseteq d.doc
           /\ state \in States /\ m \in Messages
           /\ DOMAIN known \subseteq Peers /\ p \in DOMAIN known /\ known[p] = Heard(d, state, m)
           /\ \A q \in DOMAIN known : q # p => q \in DOMAIN states /\ known[q] = states[q]
           /\ \A q \in DOMAIN known : known[q] \in States
           /\ p \in peers /\ (d.doc # core.doc => peers = Peers) /\ (d.doc = core.doc => peers = {p})
           /\ posted' = [posted EXCEPT ![p] = @ \ {m}] /\ core' = d
           /\ SyncReplicas(d, known, peers)
           /\ IF d.doc # core.doc THEN Commit(d) ELSE UNCHANGED <<commits, head>>
           /\ seen' \in Seq(Peers) /\ Distinct(seen')
           /\ \A i \in DOMAIN seen' : seen'[i] \in DOMAIN known
  BY DocSyncFacts
<1>3. GoodLog(log) /\ GoodDoc(log, core) /\ DocsOK /\ SeenOK /\ EndsOK /\ d \in Docs
  BY <1>2 DEF ReplicasTyped, DocsOK, GoodDoc
<1>4. /\ DOMAIN states' = DOMAIN known
      /\ \A q \in DOMAIN known : states'[q] = IF q \in peers THEN After(d, known[q]) ELSE known[q]
      /\ sent' = [q \in Peers |-> IF q \in peers /\ q \in DOMAIN known
                                  THEN Out(d, known[q], sent[q]) ELSE sent[q]]
  BY <1>2, SyncFacts
<1>5. /\ \A q \in DOMAIN states' : states'[q] \in States
      /\ sent' \in [Peers -> Seq(Messages)]
      /\ \A q \in Peers : sent[q] # <<>> => sent'[q] # <<>>
      /\ \A q \in Peers : \A i \in DOMAIN sent'[q] :
           \/ sent'[q][i].have = d.doc /\ sent'[q][i].brings \subseteq d.doc
           \/ \E j \in DOMAIN sent[q] : sent'[q][i] = sent[q][j]
  BY <1>2, <1>3, SyncTyped DEF EndsOK
<1>6. /\ posted' \in [Peers -> SUBSET Messages] /\ posted'[p] = posted[p] \ {m}
      /\ \A q \in Peers : posted'[q] \subseteq posted[q] /\ (q # p => posted'[q] = posted[q])
  BY <1>2, <1>3 DEF EndsOK
<1>7. SeenOK'
  BY <1>2, <1>4 DEF SeenOK, Distinct
<1>8. EndsOK'
  BY <1>1, <1>3, <1>5, <1>6 DEF EndsOK, client
<1>9. Extends(log, log') /\ log' = log
  BY <1>1 DEF Extends
<1>10. /\ DocsOK'
       /\ d.doc # core.doc => /\ head' > 0 /\ commits'[head'] = d
                              /\ \A i \in DOMAIN commits' : i = head' \/ (i \in DOMAIN commits /\ commits'[i] = commits[i])
  <2>1. GoodDoc(log', core') /\ \A q \in Peers : GoodDoc(log', copy[q])
    BY <1>2, <1>3, <1>9 DEF DocsOK
  <2>2. CASE d.doc # core.doc
    <3>1. Commit(d) /\ GoodDoc(log', d)
      BY <1>2, <1>9, <2>2
    <3>2. /\ commits' \in Seq(Docs) /\ \A i \in DOMAIN commits' : GoodDoc(log', commits'[i])
          /\ head' \in Nat /\ head' <= Len(commits') /\ head' > 0
      BY <1>3, <1>9, <3>1, CommitKeeps
    <3>3. /\ head' = head + 1 /\ DOMAIN commits' = 1..(head + 1) /\ commits'[head'] = d
          /\ \A i \in 1..head : i \in DOMAIN commits /\ commits'[i] = commits[i]
      BY <1>3, <3>1, CommitFacts
    <3>4. head \in Nat
      BY <1>3 DEF DocsOK
    <3>5. \A i \in DOMAIN commits' : i = head' \/ i \in 1..head
      BY <3>3, <3>4
    <3> QED
      BY <1>1, <1>3, <2>1, <3>2, <3>3, <3>5 DEF DocsOK, client
  <2>3. CASE d.doc = core.doc
    BY <1>1, <1>2, <1>3, <2>1, <2>3 DEF DocsOK, client
  <2> QED
    BY <2>2, <2>3
<1>11. ASSUME NEW q \in Peers PROVE CoreEnd(q)' /\ FrameEnd(q)' /\ Honest(q)' /\ Knows(q)'
  <2>1. CoreEnd(q) /\ FrameEnd(q) /\ Honest(q) /\ Knows(q)
    BY DEF SyncInv
  <2>2. PICK s, out : s = known[q] /\ out = sent[q]
    OBVIOUS
  <2>3. out \in Seq(Messages) /\ (q \in DOMAIN known => s \in States)
    BY <1>2, <1>3, <2>2 DEF EndsOK
  <2>4. m.have \subseteq copy[p].doc
    BY <1>2 DEF SyncInv, Honest
  <2>5. q = p => s.heard /\ ~s.flying /\ s.theirs = m.have
    BY <1>2, <2>2, HeardFacts
  <2>6. ASSUME q \in DOMAIN known, q # p
        PROVE  q \in DOMAIN states /\ EndOf(core.doc, s, out, copy[q].doc)
    BY <1>2, <2>1, <2>2, <2>6 DEF CoreEnd
  <2>7. ASSUME q \in DOMAIN known, q \in peers
        PROVE  EndOf(d.doc, After(d, s), Out(d, s, out), copy[q].doc)
    <3>1. CASE q = p
      BY <1>3, <2>3, <2>4, <2>5, <2>7, <3>1, ToldEnd
    <3>2. CASE q # p
      <4>1. s.heard /\ s.told = core.doc /\ s.theirs \subseteq copy[q].doc
        BY <2>6, <2>7, <3>2 DEF EndOf
      <4>2. d.doc # core.doc
        BY <1>2, <2>7, <3>2
      <4>3. ~Quiet(d, s)
        BY <4>1, <4>2, NotQuiet
      <4> QED
        BY <1>3, <2>3, <2>7, <4>1, <4>3, ToldEnd
    <3> QED
      BY <3>1, <3>2
  <2>8. ASSUME q \in DOMAIN known, q \notin peers
        PROVE  EndOf(d.doc, s, out, copy[q].doc)
    <3>1. q # p /\ d.doc = core.doc
      BY <1>2, <2>8
    <3> QED
      BY <2>6, <2>8, <3>1
  <2>9. CoreEnd(q)'
    <3>1. ASSUME q \in DOMAIN states' PROVE EndOf(d.doc, states'[q], sent'[q], copy[q].doc)
      <4>1. q \in DOMAIN known
        BY <1>4, <3>1
      <4>2. CASE q \in peers
        BY <1>4, <2>2, <2>7, <4>1, <4>2
      <4>3. CASE q \notin peers
        BY <1>4, <2>2, <2>8, <4>1, <4>3
      <4> QED
        BY <4>2, <4>3
    <3>2. core' = d /\ copy' = copy
      BY <1>1, <1>2 DEF client
    <3> QED
      BY <3>1, <3>2, SMTT(30) DEF CoreEnd
  <2>10. FrameEnd(q)'
    BY <1>1, <2>1 DEF FrameEnd, client
  <2>11. Honest(q)'
    <3>1. /\ \A w \in posted[q] : w.have \subseteq copy[q].doc /\ w.brings \subseteq copy[q].doc
          /\ \A i \in DOMAIN sent[q] : sent[q][i].have \subseteq core.doc /\ sent[q][i].brings \subseteq core.doc
      BY <2>1 DEF Honest
    <3>2. copy' = copy /\ posted'[q] \subseteq posted[q] /\ core' = d /\ core.doc \subseteq d.doc
      BY <1>1, <1>2, <1>6 DEF client
    <3>3. \A i \in DOMAIN sent'[q] : sent'[q][i].have \subseteq d.doc /\ sent'[q][i].brings \subseteq d.doc
      BY <1>5, <3>1, <3>2
    <3> QED BY <3>1, <3>2, <3>3 DEF Honest
  <2>12. ASSUME frame[q] = "open", q \notin lost, sent'[q] = <<>>, \A w \in posted'[q] : w.have # copy[q].doc
         PROVE  \/ q \in DOMAIN states' /\ copy[q].doc = d.doc
                \/ q \notin DOMAIN states' /\ (copy[q].doc \subseteq d.doc \/ posted'[q] = {})
    <3>1. sent[q] = <<>>
      BY <1>5, <2>12
    <3>2. CASE q = p
      <4>1. q \in DOMAIN states' /\ sent'[q] = Out(d, s, out)
        BY <1>2, <1>4, <2>2, <3>2
      <4>2. Quiet(d, s)
        BY <1>2, <1>3, <2>3, <2>12, <3>2, <4>1, OutFacts
      <4>3. m.have = d.doc
        BY <2>5, <3>2, <4>2 DEF Quiet
      <4>4. d.doc \subseteq copy[q].doc
        BY <2>4, <3>2, <4>3
      <4>5. \/ m.have = copy[q].doc \/ copy[q].doc \subseteq core.doc
        BY <1>2, <1>6, <2>1, <2>12, <3>1, <3>2 DEF Knows
      <4> QED
        BY <1>2, <4>1, <4>3, <4>4, <4>5
    <3>3. CASE q # p
      <4>1. /\ posted'[q] = posted[q]
            /\ \/ q \in DOMAIN states /\ copy[q].doc = core.doc
               \/ q \notin DOMAIN states /\ (copy[q].doc \subseteq core.doc \/ posted[q] = {})
        BY <1>6, <2>1, <2>12, <3>1, <3>3 DEF Knows
      <4>2. CASE q \in DOMAIN states'
        <5>1. q \in DOMAIN known /\ q \in DOMAIN states
          BY <1>2, <1>4, <3>3, <4>2
        <5>2. ASSUME d.doc # core.doc PROVE FALSE
          <6>1. sent'[q] = Out(d, s, out)
            BY <1>2, <1>4, <2>2, <5>1, <5>2
          <6>2. s.told = core.doc
            BY <2>6, <3>3, <5>1 DEF EndOf
          <6>3. ~Quiet(d, s)
            BY <5>2, <6>2, NotQuiet
          <6> QED
            BY <1>3, <2>3, <2>12, <5>1, <6>1, <6>3, OutFacts
        <5> QED
          BY <4>1, <4>2, <5>1, <5>2
      <4>3. CASE q \notin DOMAIN states'
        BY <1>2, <4>1, <4>3
      <4> QED
        BY <4>2, <4>3
    <3> QED
      BY <3>2, <3>3
  <2>13. Knows(q)'
    BY <1>1, <1>2, <2>12 DEF Knows, client
  <2> QED
    BY <2>9, <2>10, <2>11, <2>13
<1>12. SyncInv'
  BY <1>11 DEF SyncInv
<1>13. HistoryOf(log, core.doc, commits, head, undone, restarts)
  BY HistoryIs
<1>14. HistoryOf(log, d.doc, commits', head', undone, restarts)
  <2>1. d.doc \subseteq DOMAIN log
    BY <1>2 DEF GoodDoc
  <2>2. CASE d.doc = core.doc
    BY <1>2, <1>13, <2>2
  <2>3. CASE d.doc # core.doc
    <3>1. ASSUME restarts = 0
          PROVE  /\ undone \subseteq d.doc /\ undone \cap Shown(log, d.doc) = {}
                 /\ \A i \in DOMAIN commits' : commits'[i].doc \subseteq d.doc
                 /\ \A i \in DOMAIN log : ~log[i].typed => i \in d.doc
                 /\ \A i \in DOMAIN log : log[i].adds \subseteq log[i].on \cup {i}
      <4>1. /\ undone \subseteq core.doc /\ undone \cap Shown(log, core.doc) = {}
            /\ \A i \in DOMAIN commits : commits[i].doc \subseteq core.doc
            /\ \A i \in DOMAIN log : ~log[i].typed => i \in core.doc
            /\ \A i \in DOMAIN log : log[i].adds \subseteq log[i].on \cup {i}
        BY <1>13, <3>1 DEF HistoryOf
      <4>2. \A i \in d.doc \ core.doc : log[i].typed
        BY <2>1, <4>1
      <4>3. Shown(log, d.doc) \subseteq Shown(log, core.doc) \cup (d.doc \ core.doc)
        BY <1>2, <1>3, <2>1, <4>2, MergedShows
      <4>4. \A i \in DOMAIN commits' : commits'[i].doc \subseteq d.doc
        BY <1>2, <1>10, <2>3, <4>1
      <4> QED
        BY <1>2, <4>1, <4>3, <4>4
    <3>2. head' > 0 /\ commits'[head'] = d
      BY <1>10, <2>3
    <3> QED
      BY <3>1, <3>2 DEF HistoryOf
  <2> QED
    BY <2>2, <2>3
<1>15. HistoryInv'
  BY <1>1, <1>2, <1>14, HistoryIs
<1>16. ReplicasTyped'
  BY <1>3, <1>7, <1>8, <1>9, <1>10 DEF ReplicasTyped
<1> QED
  BY <1>12, <1>15, <1>16

\* A frame closes.
LEMMA DocSyncEndKeeps ==
  ASSUME ReplicasInv, NEW p \in Peers, DocSyncEnd(p)
  PROVE  ReplicasInv'
<1> USE DEF ReplicasInv
<1>1. /\ frame' = [frame EXCEPT ![p] = "closed"]
      /\ states' = [q \in DOMAIN states \ {p} |-> states[q]]
      /\ seen' = RemoveFirst(seen, p)
      /\ sent' = [sent EXCEPT ![p] = <<>>]
      /\ UNCHANGED <<log, core, commits, head, copy, end, posted, lost, undone, restarts>>
  BY DEF DocSyncEnd
<1>2. GoodLog(log) /\ DocsOK /\ SeenOK /\ EndsOK
  BY DEF ReplicasTyped
<1>3. GoodLog(log') /\ DocsOK'
  BY <1>1, <1>2 DEF DocsOK
<1>4. SeenOK'
  <2>1. seen \in Seq(Peers) /\ Distinct(seen)
    BY <1>2 DEF SeenOK, Distinct
  <2>2. /\ seen' \in Seq(Peers) /\ Distinct(seen')
        /\ \A x : IsIn(x, seen') <=> IsIn(x, seen) /\ x # p
    BY <1>1, <2>1, Removed
  <2>3. \A i \in DOMAIN seen' : IsIn(seen'[i], seen')
    BY DEF IsIn
  <2>4. \A x : IsIn(x, seen) => x \in DOMAIN states
    BY <1>2 DEF SeenOK, IsIn
  <2>5. DOMAIN states' = DOMAIN states \ {p}
    BY <1>1
  <2>6. \A i \in DOMAIN seen' : seen'[i] \in DOMAIN states'
    BY <2>2, <2>3, <2>4, <2>5
  <2> QED
    BY <1>2, <2>2, <2>5, <2>6 DEF SeenOK, Distinct
<1>5. EndsOK'
  <2>1. sent' \in [Peers -> Seq(Messages)]
    BY <1>1, <1>2, EmptySeq DEF EndsOK
  <2> QED
    BY <1>1, <1>2, <2>1 DEF EndsOK
<1>6. ASSUME NEW q \in Peers PROVE CoreEnd(q)' /\ FrameEnd(q)' /\ Honest(q)' /\ Knows(q)'
  <2>1. CoreEnd(q) /\ FrameEnd(q) /\ Honest(q) /\ Knows(q)
    BY DEF SyncInv
  <2>2. CASE q = p
    <3>1. q \notin DOMAIN states' /\ frame'[q] # "open" /\ sent'[q] = <<>>
      BY <1>1, <1>2, <2>2 DEF EndsOK
    <3> QED
      BY <1>1, <2>1, <3>1 DEF CoreEnd, FrameEnd, Honest, Knows
  <2>3. CASE q # p
    <3>1. /\ (q \in DOMAIN states' <=> q \in DOMAIN states) /\ (q \in DOMAIN states => states'[q] = states[q])
          /\ frame'[q] = frame[q] /\ sent'[q] = sent[q]
      BY <1>1, <1>2, <2>3 DEF EndsOK
    <3> QED
      BY <1>1, <2>1, <3>1 DEF CoreEnd, FrameEnd, Honest, Knows
  <2> QED
    BY <2>2, <2>3
<1>7. HistoryInv'
  BY <1>1, HistorySame
<1> QED
  BY <1>3, <1>4, <1>5, <1>6, <1>7 DEF ReplicasTyped, SyncInv

\* A frame opens with what Core holds.
LEMMA OpenDocKeeps ==
  ASSUME ReplicasInv, NEW p \in Peers, OpenDoc(p)
  PROVE  ReplicasInv'
<1> USE DEF ReplicasInv
<1>1. /\ frame[p] = "new" /\ frame' = [frame EXCEPT ![p] = "open"] /\ copy' = [copy EXCEPT ![p] = core]
      /\ Flush(p, core, Fresh) /\ UNCHANGED <<log, server, sent, lost, undone, restarts>>
  BY DEF OpenDoc
<1>2. GoodLog(log) /\ DocsOK /\ SeenOK /\ EndsOK /\ GoodDoc(log, core) /\ core \in Docs
  BY DEF ReplicasTyped, DocsOK, GoodDoc
<1>3. PICK d : d = core
  OBVIOUS
<1>4. Fresh \in States /\ ~Quiet(d, Fresh)
  BY FreshFacts DEF Quiet
<1>5. /\ end' \in [Peers -> States] /\ posted' \in [Peers -> SUBSET Messages]
      /\ end'[p] = After(d, Fresh)
      /\ \A q \in Peers : q # p => end'[q] = end[q] /\ posted'[q] = posted[q]
      /\ posted[p] \subseteq posted'[p]
      /\ \A m \in posted'[p] : m \in posted[p] \/ (m.have = d.doc /\ m.brings \subseteq d.doc)
      /\ \E m \in posted'[p] : m.have = d.doc
  BY <1>1, <1>2, <1>3, <1>4, FlushFacts DEF EndsOK
<1>6. GoodLog(log') /\ DocsOK'
  BY <1>1, <1>2 DEF DocsOK, server
<1>7. SeenOK'
  BY <1>1, <1>2 DEF SeenOK, server
<1>8. EndsOK'
  BY <1>1, <1>2, <1>5 DEF EndsOK, server
<1>9. ASSUME NEW q \in Peers PROVE CoreEnd(q)' /\ FrameEnd(q)' /\ Honest(q)' /\ Knows(q)'
  <2>1. CoreEnd(q) /\ FrameEnd(q) /\ Honest(q) /\ Knows(q)
    BY DEF SyncInv
  <2>2. CASE q = p
    <3>1. frame'[p] = "open" /\ copy'[p] = d /\ copy[p].doc = {}
      BY <1>1, <1>2, <1>3 DEF EndsOK, DocsOK, Empty
    <3>2. After(d, Fresh).told = d.doc /\ After(d, Fresh).flying
      BY <1>2, <1>3, <1>4, AfterFacts, FreshFacts
    <3>3. CoreEnd(q)'
      BY <1>1, <2>1, <2>2, <3>1 DEF CoreEnd, EndOf, server
    <3>4. FrameEnd(q)'
      BY <1>5, <2>2, <3>1, <3>2 DEF FrameEnd
    <3>5. Honest(q)'
      BY <1>1, <1>5, <2>1, <2>2, <3>1 DEF Honest, server
    <3>6. Knows(q)'
      BY <1>5, <2>2, <3>1 DEF Knows
    <3> QED
      BY <3>3, <3>4, <3>5, <3>6
  <2>3. CASE q # p
    <3>1. frame'[q] = frame[q] /\ copy'[q] = copy[q] /\ end'[q] = end[q] /\ posted'[q] = posted[q]
      BY <1>1, <1>2, <1>5, <2>3 DEF EndsOK, DocsOK
    <3> QED
      BY <1>1, <2>1, <3>1 DEF CoreEnd, FrameEnd, Honest, Knows, server
  <2> QED
    BY <2>2, <2>3
<1>10. HistoryInv'
  BY <1>1, HistorySame DEF server
<1> QED
  BY <1>6, <1>7, <1>8, <1>9, <1>10 DEF ReplicasTyped, SyncInv

\* The person edits.
LEMMA LocalKeeps ==
  ASSUME ReplicasInv, NEW p \in Peers, Local(p)
  PROVE  ReplicasInv'
<1> USE DEF ReplicasInv
<1>1. PICK n, c, d : n = New /\ c = copy[p] /\ d = With(c)
  OBVIOUS
<1>2. /\ frame[p] = "open" /\ Change(c, {New}, {}, TRUE) /\ copy' = [copy EXCEPT ![p] = d]
      /\ Flush(p, d, end[p]) /\ UNCHANGED <<server, frame, sent, lost, undone, restarts>>
  <2>1. copy' = [copy EXCEPT ![p] = With(@)]
    BY DEF Local
  <2>2. [copy EXCEPT ![p] = With(@)] = [copy EXCEPT ![p] = With(copy[p])]
    OBVIOUS
  <2> QED
    BY <1>1, <2>1, <2>2 DEF Local
<1>3. GoodLog(log) /\ DocsOK /\ SeenOK /\ EndsOK /\ GoodDoc(log, c)
  BY <1>1 DEF ReplicasTyped, DocsOK
<1>4. /\ GoodLog(log') /\ Extends(log, log') /\ GoodDoc(log', d)
      /\ n \in Nat /\ n \notin DOMAIN log /\ DOMAIN log' = DOMAIN log \cup {n}
      /\ log'[n] = [adds |-> {n}, takes |-> {}, on |-> c.doc, typed |-> TRUE]
      /\ d.doc = c.doc \cup {n} /\ n \notin c.doc /\ d \in Docs
  <2>1. {New} \in SUBSET (DOMAIN log \cup {New}) /\ {} \in SUBSET (Nat \X Nat) /\ \A it \in {} : it[1] \in c.doc
    OBVIOUS
  <2>2. /\ GoodLog(log') /\ Extends(log, log') /\ GoodDoc(log', With(c))
        /\ New \in Nat /\ New \notin DOMAIN log /\ DOMAIN log' = DOMAIN log \cup {New}
        /\ log'[New] = [adds |-> {New}, takes |-> {}, on |-> c.doc, typed |-> TRUE]
        /\ With(c).doc = c.doc \cup {New} /\ New \notin c.doc
    BY <1>2, <1>3, <2>1, ChangeFacts
  <2> QED
    BY <1>1, <2>2 DEF GoodDoc
<1>5. PICK s : s = end[p]
  OBVIOUS
<1>6. s \in States /\ s.told = c.doc
  BY <1>1, <1>2, <1>3, <1>5 DEF EndsOK, SyncInv, FrameEnd
<1>7. ~Quiet(d, s)
  BY <1>4, <1>6, NotQuiet
<1>8. /\ end' \in [Peers -> States] /\ posted' \in [Peers -> SUBSET Messages]
      /\ end'[p] = After(d, s)
      /\ \A q \in Peers : q # p => end'[q] = end[q] /\ posted'[q] = posted[q]
      /\ posted[p] \subseteq posted'[p]
      /\ \A m \in posted'[p] : m \in posted[p] \/ (m.have = d.doc /\ m.brings \subseteq d.doc)
      /\ \E m \in posted'[p] : m.have = d.doc
  <2>1. Flush(p, d, s) /\ end \in [Peers -> States] /\ posted \in [Peers -> SUBSET Messages]
    BY <1>2, <1>3, <1>5 DEF EndsOK
  <2> QED
    BY <1>4, <1>6, <1>7, <2>1, FlushFacts
<1>9. DocsOK'
  <2>1. /\ GoodDoc(log', core) /\ \A i \in DOMAIN commits : GoodDoc(log', commits[i])
        /\ \A q \in Peers : GoodDoc(log', copy[q])
    BY <1>3, <1>4, DocsKeep
  <2>2. UNCHANGED <<core, commits, head>>
    BY <1>2 DEF server
  <2>3. copy' \in [Peers -> Docs] /\ \A q \in Peers : copy'[q] = IF q = p THEN d ELSE copy[q]
    BY <1>2, <1>3, <1>4 DEF DocsOK
  <2> QED
    BY <1>3, <1>4, <2>1, <2>2, <2>3 DEF DocsOK
<1>10. SeenOK'
  BY <1>2, <1>3 DEF SeenOK, server
<1>11. EndsOK'
  BY <1>2, <1>3, <1>8 DEF EndsOK, server
<1>12. ASSUME NEW q \in Peers PROVE CoreEnd(q)' /\ FrameEnd(q)' /\ Honest(q)' /\ Knows(q)'
  <2>1. CoreEnd(q) /\ FrameEnd(q) /\ Honest(q) /\ Knows(q)
    BY DEF SyncInv
  <2>2. CASE q = p
    <3>1. frame'[p] = "open" /\ copy'[p] = d /\ copy[p].doc \subseteq d.doc
      BY <1>1, <1>2, <1>3, <1>4 DEF DocsOK
    <3>2. /\ After(d, s).told = d.doc
          /\ After(d, s).flying \/ (After(d, s).heard /\ After(d, s).theirs = d.doc)
      BY <1>4, <1>6, AfterFacts
    <3>3. CoreEnd(q)'
      BY <1>2, <2>1, <2>2, <3>1 DEF CoreEnd, EndOf, server
    <3>4. FrameEnd(q)'
      BY <1>8, <2>2, <3>1, <3>2 DEF FrameEnd
    <3>5. Honest(q)'
      BY <1>2, <1>8, <2>1, <2>2, <3>1 DEF Honest, server
    <3>6. Knows(q)'
      BY <1>8, <2>2, <3>1 DEF Knows
    <3> QED
      BY <3>3, <3>4, <3>5, <3>6
  <2>3. CASE q # p
    <3>1. frame'[q] = frame[q] /\ copy'[q] = copy[q] /\ end'[q] = end[q] /\ posted'[q] = posted[q]
      BY <1>2, <1>3, <1>8, <2>3 DEF EndsOK, DocsOK
    <3> QED
      BY <1>2, <2>1, <3>1 DEF CoreEnd, FrameEnd, Honest, Knows, server
  <2> QED
    BY <2>2, <2>3
<1>13. HistoryInv'
  <2>1. HistoryOf(log, core.doc, commits, head, undone, restarts)
    BY HistoryIs
  <2>2. core.doc \subseteq DOMAIN log
    BY <1>3 DEF DocsOK, GoodDoc
  <2>3. Shown(log', core.doc) = Shown(log, core.doc)
    BY <1>4, <2>2, ShownKeeps
  <2>4. head > 0 => Shown(log', commits[head].doc) = Shown(log, commits[head].doc)
    <3>1. ASSUME head > 0 PROVE head \in DOMAIN commits
      BY <1>3, <3>1, LenProperties DEF DocsOK
    <3>2. head > 0 => commits[head].doc \subseteq DOMAIN log
      BY <1>3, <3>1 DEF DocsOK, GoodDoc
    <3> QED
      BY <1>4, <3>2, ShownKeeps
  <2>5. \A i \in DOMAIN log' : i # n => i \in DOMAIN log /\ log'[i] = log[i]
    BY <1>4 DEF Extends
  <2>6. log'[n].typed /\ log'[n].adds = {n}
    BY <1>4
  <2>7. HistoryOf(log', core.doc, commits, head, undone, restarts)
    BY <1>4, <2>1, <2>2, <2>3, <2>4, <2>5, <2>6 DEF HistoryOf
  <2> QED
    BY <1>2, <2>7, HistoryIs DEF server
<1> QED
  BY <1>4, <1>9, <1>10, <1>11, <1>12, <1>13 DEF ReplicasTyped, SyncInv

\* A patch arrives.
LEMMA ReceiveKeeps ==
  ASSUME ReplicasInv, NEW p \in Peers, Receive(p)
  PROVE  ReplicasInv'
<1> USE DEF ReplicasInv
<1>1. PICK m, c, d, out : m = Head(sent[p]) /\ c = copy[p] /\ d = Arrived(c, m.brings) /\ out = sent[p]
  OBVIOUS
<1>2. PICK s : s = Heard(d, end[p], m)
  OBVIOUS
<1>3. /\ frame[p] = "open" /\ out # <<>> /\ copy' = [copy EXCEPT ![p] = d] /\ Flush(p, d, s)
      /\ UNCHANGED <<log, server, frame, lost, undone, restarts>>
  BY <1>1, <1>2, Zenon DEF Receive
<1>4. sent' = [sent EXCEPT ![p] = Tail(out)]
  <2>1. sent' = [sent EXCEPT ![p] = Tail(@)]
    BY DEF Receive
  <2>2. [sent EXCEPT ![p] = Tail(@)] = [sent EXCEPT ![p] = Tail(sent[p])]
    OBVIOUS
  <2> QED
    BY <1>1, <2>1, <2>2
<1>5. GoodLog(log) /\ DocsOK /\ SeenOK /\ EndsOK /\ GoodDoc(log, core) /\ GoodDoc(log, c)
  BY <1>1 DEF ReplicasTyped, DocsOK
<1>6. out \in Seq(Messages)
  BY <1>1, <1>5 DEF EndsOK
<1>7. PICK rest : rest = Tail(out)
  OBVIOUS
<1>8. /\ rest \in Seq(Messages) /\ 1 \in DOMAIN out /\ m = out[1] /\ m \in Messages
      /\ rest # <<>> => rest[Len(rest)] = out[Len(out)]
      /\ rest = <<>> => out[Len(out)] = m
      /\ \A i \in DOMAIN rest : \E j \in DOMAIN out : rest[i] = out[j]
  BY <1>1, <1>3, <1>6, <1>7, Dequeued
<1>9. m.have \subseteq core.doc /\ m.brings \subseteq core.doc
  BY <1>1, <1>8 DEF SyncInv, Honest
<1>10. GoodDoc(log, d) /\ c.doc \subseteq d.doc /\ d \in Docs
  <2>1. m.brings \subseteq DOMAIN log
    BY <1>5, <1>9 DEF GoodDoc
  <2>2. GoodDoc(log, d) /\ c.doc \subseteq d.doc
    BY <1>1, <1>5, <2>1, ArrivedFacts
  <2> QED
    BY <2>2 DEF GoodDoc
<1>11. s \in States /\ s.heard /\ ~s.flying /\ s.theirs = m.have
  BY <1>2, <1>5, <1>8, HeardFacts DEF EndsOK
<1>12. /\ end' \in [Peers -> States] /\ posted' \in [Peers -> SUBSET Messages]
       /\ end'[p] = After(d, s)
       /\ \A q \in Peers : q # p => end'[q] = end[q] /\ posted'[q] = posted[q]
       /\ posted[p] \subseteq posted'[p]
       /\ \A w \in posted'[p] : w \in posted[p] \/ (w.have = d.doc /\ w.brings \subseteq d.doc)
       /\ ~Quiet(d, s) => \E w \in posted'[p] : w.have = d.doc
  <2>1. Flush(p, d, s) /\ end \in [Peers -> States] /\ posted \in [Peers -> SUBSET Messages]
    BY <1>3, <1>5 DEF EndsOK
  <2> QED
    BY <1>10, <1>11, <2>1, FlushFacts
<1>13. GoodLog(log') /\ DocsOK'
  <2>1. copy' \in [Peers -> Docs] /\ \A q \in Peers : copy'[q] = IF q = p THEN d ELSE copy[q]
    BY <1>3, <1>5, <1>10 DEF DocsOK
  <2> QED
    BY <1>3, <1>5, <1>10, <2>1 DEF DocsOK, server
<1>14. SeenOK'
  BY <1>3, <1>5 DEF SeenOK, server
<1>15. /\ sent' \in [Peers -> Seq(Messages)] /\ sent'[p] = rest
       /\ \A q \in Peers : q # p => sent'[q] = sent[q]
  BY <1>4, <1>5, <1>7, <1>8 DEF EndsOK
<1>16. EndsOK'
  BY <1>3, <1>5, <1>12, <1>15 DEF EndsOK, server
<1>17. ASSUME NEW q \in Peers PROVE CoreEnd(q)' /\ FrameEnd(q)' /\ Honest(q)' /\ Knows(q)'
  <2>1. CoreEnd(q) /\ FrameEnd(q) /\ Honest(q) /\ Knows(q)
    BY DEF SyncInv
  <2>2. CASE q = p
    <3>1. copy'[p] = d
      BY <1>3, <1>5 DEF DocsOK
    <3>2. /\ After(d, s).told = d.doc /\ After(d, s).heard
          /\ After(d, s).flying \/ After(d, s).theirs = d.doc
      BY <1>10, <1>11, AfterFacts
    <3>3. ASSUME p \in DOMAIN states PROVE EndOf(core.doc, states[p], out, c.doc)
      BY <1>1, <2>1, <2>2, <3>3 DEF CoreEnd
    <3>4. p \in DOMAIN states => EndOf(core.doc, states[p], rest, d.doc)
      BY <1>3, <1>8, <1>10, <3>3 DEF EndOf
    <3>5. CoreEnd(q)'
      BY <1>3, <1>15, <2>2, <3>1, <3>4 DEF CoreEnd, server
    <3>6. FrameEnd(q)'
      BY <1>12, <2>2, <3>1, <3>2 DEF FrameEnd
    <3>7. Honest(q)'
      BY <1>1, <1>3, <1>8, <1>10, <1>12, <1>15, <2>1, <2>2, <3>1 DEF Honest, server
    <3>8. ASSUME rest = <<>>, \A w \in posted'[p] : w.have # d.doc
          PROVE  \/ p \in DOMAIN states /\ d.doc = core.doc
                 \/ p \notin DOMAIN states /\ d.doc \subseteq core.doc
      <4>1. d.doc = m.have
        BY <1>11, <1>12, <3>8 DEF Quiet
      <4>2. CASE p \notin DOMAIN states
        BY <1>9, <4>1, <4>2
      <4>3. CASE p \in DOMAIN states
        <5>1. states[p].flying \/ core.doc \subseteq c.doc
          BY <3>3, <4>3 DEF EndOf
        <5>2. states[p].flying => m.have = core.doc
          BY <1>3, <1>8, <3>3, <3>8, <4>3 DEF EndOf
        <5> QED
          BY <1>9, <1>10, <4>1, <4>3, <5>1, <5>2
      <4> QED
        BY <4>2, <4>3
    <3>9. Knows(q)'
      BY <1>3, <1>15, <2>2, <3>1, <3>8 DEF Knows, server
    <3> QED
      BY <3>5, <3>6, <3>7, <3>9
  <2>3. CASE q # p
    <3>1. /\ copy'[q] = copy[q] /\ end'[q] = end[q] /\ posted'[q] = posted[q] /\ sent'[q] = sent[q]
      BY <1>3, <1>5, <1>12, <1>15, <2>3 DEF DocsOK
    <3> QED
      BY <1>3, <2>1, <3>1 DEF CoreEnd, FrameEnd, Honest, Knows, server
  <2> QED
    BY <2>2, <2>3
<1>18. HistoryInv'
  BY <1>3, HistorySame DEF server
<1> QED
  BY <1>13, <1>14, <1>16, <1>17, <1>18 DEF ReplicasTyped, SyncInv

\* A patch is lost.
LEMMA LosePatchKeeps ==
  ASSUME ReplicasInv, NEW p \in Peers, LosePatch(p)
  PROVE  ReplicasInv'
<1> USE DEF ReplicasInv
<1>1. PICK out, rest : out = sent[p] /\ rest = Tail(out)
  OBVIOUS
<1>2. /\ out # <<>> /\ lost' = lost \cup {p} /\ UNCHANGED <<log, server, client, posted, undone, restarts>>
  BY <1>1 DEF LosePatch
<1>3. sent' = [sent EXCEPT ![p] = rest]
  <2>1. sent' = [sent EXCEPT ![p] = Tail(@)]
    BY DEF LosePatch
  <2>2. [sent EXCEPT ![p] = Tail(@)] = [sent EXCEPT ![p] = Tail(sent[p])]
    OBVIOUS
  <2> QED
    BY <1>1, <2>1, <2>2
<1>4. GoodLog(log) /\ DocsOK /\ SeenOK /\ EndsOK
  BY DEF ReplicasTyped
<1>5. out \in Seq(Messages)
  BY <1>1, <1>4 DEF EndsOK
<1>6. /\ rest \in Seq(Messages)
      /\ rest # <<>> => rest[Len(rest)] = out[Len(out)]
      /\ \A i \in DOMAIN rest : \E j \in DOMAIN out : rest[i] = out[j]
  BY <1>1, <1>2, <1>5, Dequeued
<1>7. GoodLog(log') /\ DocsOK'
  BY <1>2, <1>4 DEF DocsOK, server, client
<1>8. SeenOK'
  BY <1>2, <1>4 DEF SeenOK, server
<1>9. /\ sent' \in [Peers -> Seq(Messages)] /\ sent'[p] = rest
      /\ \A q \in Peers : q # p => sent'[q] = sent[q]
  BY <1>3, <1>4, <1>6 DEF EndsOK
<1>10. EndsOK'
  BY <1>2, <1>4, <1>9 DEF EndsOK, server, client
<1>11. ASSUME NEW q \in Peers PROVE CoreEnd(q)' /\ FrameEnd(q)' /\ Honest(q)' /\ Knows(q)'
  <2>1. CoreEnd(q) /\ FrameEnd(q) /\ Honest(q) /\ Knows(q)
    BY DEF SyncInv
  <2>2. CASE q = p
    <3>1. p \in DOMAIN states => EndOf(core.doc, states[p], rest, copy[p].doc)
      BY <1>1, <1>2, <1>6, <2>1, <2>2 DEF CoreEnd, EndOf
    <3>2. CoreEnd(q)'
      BY <1>2, <1>9, <2>2, <3>1 DEF CoreEnd, server, client
    <3>3. FrameEnd(q)'
      BY <1>2, <2>1 DEF FrameEnd, client
    <3>4. Honest(q)'
      <4>1. \A i \in DOMAIN out : out[i].have \subseteq core.doc /\ out[i].brings \subseteq core.doc
        BY <1>1, <2>1, <2>2 DEF Honest
      <4>2. \A i \in DOMAIN rest : rest[i].have \subseteq core.doc /\ rest[i].brings \subseteq core.doc
        BY <1>6, <4>1
      <4>3. posted' = posted /\ copy' = copy /\ core' = core
        BY <1>2 DEF server, client
      <4> QED
        BY <1>9, <2>1, <2>2, <4>2, <4>3 DEF Honest
    <3>5. Knows(q)'
      BY <1>2, <2>2 DEF Knows
    <3> QED
      BY <3>2, <3>3, <3>4, <3>5
  <2>3. CASE q # p
    <3>1. sent'[q] = sent[q] /\ (q \in lost' <=> q \in lost)
      BY <1>2, <1>9, <2>3
    <3> QED
      BY <1>2, <2>1, <3>1 DEF CoreEnd, FrameEnd, Honest, Knows, server, client
  <2> QED
    BY <2>2, <2>3
<1>12. HistoryInv'
  BY <1>2, HistorySame DEF server
<1> QED
  BY <1>7, <1>8, <1>10, <1>11, <1>12 DEF ReplicasTyped, SyncInv

\* A request is lost.
LEMMA LosePostKeeps ==
  ASSUME ReplicasInv, NEW p \in Peers, LosePost(p)
  PROVE  ReplicasInv'
<1> USE DEF ReplicasInv
<1>1. PICK m \in posted[p] : posted' = [posted EXCEPT ![p] = @ \ {m}]
  BY DEF LosePost
<1>2. lost' = lost \cup {p} /\ UNCHANGED <<log, server, client, sent, undone, restarts>>
  BY DEF LosePost
<1>3. GoodLog(log) /\ DocsOK /\ SeenOK /\ EndsOK
  BY DEF ReplicasTyped
<1>4. /\ posted' \in [Peers -> SUBSET Messages] /\ posted'[p] \subseteq posted[p]
      /\ \A q \in Peers : q # p => posted'[q] = posted[q]
  BY <1>1, <1>3 DEF EndsOK
<1>5. GoodLog(log') /\ DocsOK'
  BY <1>2, <1>3 DEF DocsOK, server, client
<1>6. SeenOK'
  BY <1>2, <1>3 DEF SeenOK, server
<1>7. EndsOK'
  BY <1>2, <1>3, <1>4 DEF EndsOK, server, client
<1>8. ASSUME NEW q \in Peers PROVE CoreEnd(q)' /\ FrameEnd(q)' /\ Honest(q)' /\ Knows(q)'
  <2>1. CoreEnd(q) /\ FrameEnd(q) /\ Honest(q) /\ Knows(q)
    BY DEF SyncInv
  <2>2. CASE q = p
    <3>1. CoreEnd(q)' /\ FrameEnd(q)'
      <4>1. CoreEnd(q)'
        BY <1>2, <2>1 DEF CoreEnd, server, client
      <4>2. FrameEnd(q)'
        BY <1>2, <2>1 DEF FrameEnd, client
      <4> QED
        BY <4>1, <4>2
    <3>2. Honest(q)'
      BY <1>2, <1>4, <2>1, <2>2 DEF Honest, server, client
    <3>3. Knows(q)'
      BY <1>2, <2>2 DEF Knows
    <3> QED
      BY <3>1, <3>2, <3>3
  <2>3. CASE q # p
    <3>1. posted'[q] = posted[q] /\ (q \in lost' <=> q \in lost)
      BY <1>2, <1>4, <2>3
    <3> QED
      BY <1>2, <2>1, <3>1 DEF CoreEnd, FrameEnd, Honest, Knows, server, client
  <2> QED
    BY <2>2, <2>3
<1>9. HistoryInv'
  BY <1>2, HistorySame DEF server
<1> QED
  BY <1>5, <1>6, <1>7, <1>8, <1>9 DEF ReplicasTyped, SyncInv

\* Core restarts.
LEMMA RestartKeeps ==
  ASSUME ReplicasInv, Restart
  PROVE  ReplicasInv'
<1> USE DEF ReplicasInv
<1>1. /\ core' = (IF head = 0 THEN Empty ELSE commits[head])
      /\ states' = <<>> /\ seen' = <<>>
      /\ posted' = [p \in Peers |-> {}] /\ sent' = [p \in Peers |-> <<>>]
      /\ restarts' = restarts + 1
      /\ UNCHANGED <<log, commits, head, client, undone>>
  BY DEF Restart
<1>2. GoodLog(log) /\ DocsOK /\ SeenOK /\ EndsOK
  BY DEF ReplicasTyped
<1>3. head # 0 => head \in DOMAIN commits
  BY <1>2, LenProperties DEF DocsOK
<1>4. GoodDoc(log, core')
  <2>1. GoodDoc(log, Empty)
    BY DEF GoodDoc, Empty, Docs
  <2> QED
    BY <1>1, <1>2, <1>3, <2>1 DEF DocsOK
<1>5. GoodLog(log') /\ DocsOK'
  BY <1>1, <1>2, <1>4 DEF DocsOK, client
<1>6. DOMAIN states' = {} /\ DOMAIN seen' = {} /\ seen' \in Seq(Peers)
  BY <1>1, EmptySeq
<1>7. SeenOK'
  BY <1>6 DEF SeenOK
<1>8. /\ posted' \in [Peers -> SUBSET Messages] /\ sent' \in [Peers -> Seq(Messages)]
      /\ \A p \in Peers : posted'[p] = {} /\ sent'[p] = <<>> /\ DOMAIN sent'[p] = {}
  BY <1>1, EmptySeq
<1>9. EndsOK'
  BY <1>1, <1>2, <1>6, <1>8 DEF EndsOK, client
<1>10. ASSUME NEW q \in Peers PROVE CoreEnd(q)' /\ FrameEnd(q)' /\ Honest(q)' /\ Knows(q)'
  <2>1. FrameEnd(q)
    BY DEF SyncInv
  <2>2. CoreEnd(q)'
    BY <1>6 DEF CoreEnd
  <2>3. FrameEnd(q)'
    BY <1>1, <2>1 DEF FrameEnd, client
  <2>4. Honest(q)'
    BY <1>8 DEF Honest
  <2>5. Knows(q)'
    BY <1>6, <1>8 DEF Knows
  <2> QED
    BY <2>2, <2>3, <2>4, <2>5
<1>11. HistoryInv'
  <2>1. restarts' # 0
    BY <1>1, <1>2 DEF EndsOK
  <2>2. head = 0 => core'.doc = {}
    BY <1>1 DEF Empty
  <2>3. head # 0 => head > 0 /\ core' = commits[head]
    BY <1>1, <1>2 DEF DocsOK
  <2>4. HistoryOf(log', core'.doc, commits', head', undone', restarts')
    BY <1>1, <2>1, <2>2, <2>3 DEF HistoryOf
  <2> QED
    BY <2>4, HistoryIs
<1> QED
  BY <1>5, <1>7, <1>9, <1>10, <1>11 DEF ReplicasTyped, SyncInv

\* Nothing happened yet.
LEMMA ReplicasBegin == Init => ReplicasInv
<1> SUFFICES ASSUME Init PROVE ReplicasInv
  OBVIOUS
<1>1. PICK c : c = [adds |-> {1}, takes |-> {}, on |-> {}, typed |-> FALSE]
  OBVIOUS
<1>2. c \in Changes /\ c.adds = {1} /\ c.takes = {} /\ c.on = {} /\ ~c.typed
  BY <1>1 DEF Changes
<1>3. log = <<c>>
  BY <1>1 DEF Init
<1>4. log \in Seq(Changes) /\ DOMAIN log = {1} /\ log[1] = c
  BY <1>2, <1>3
<1>5. GoodLog(log)
  BY <1>2, <1>4 DEF GoodLog
<1>6. /\ FirstDoc.doc = {1} /\ GoodDoc(log, FirstDoc) /\ FirstDoc \in Docs
      /\ GoodDoc(log, Empty) /\ Empty \in Docs
  BY <1>2, <1>4 DEF GoodDoc, FirstDoc, Empty, Docs
<1>7. core = FirstDoc /\ commits = <<FirstDoc>> /\ head = 1 /\ copy = [p \in Peers |-> Empty]
  BY DEF Init
<1>8. commits \in Seq(Docs) /\ Len(commits) = 1 /\ DOMAIN commits = {1} /\ commits[1] = FirstDoc
  BY <1>6, <1>7
<1>9. DocsOK
  BY <1>6, <1>7, <1>8 DEF DocsOK
<1>10. DOMAIN states = {} /\ DOMAIN seen = {} /\ seen \in Seq(Peers)
  BY EmptySeq DEF Init
<1>11. SeenOK
  BY <1>10 DEF SeenOK
<1>12. /\ frame = [p \in Peers |-> "new"] /\ end = [p \in Peers |-> Fresh]
       /\ posted = [p \in Peers |-> {}] /\ sent = [p \in Peers |-> <<>>]
       /\ undone = {} /\ restarts = 0
  BY DEF Init
<1>13. /\ sent \in [Peers -> Seq(Messages)] /\ end \in [Peers -> States]
       /\ \A p \in Peers : posted[p] = {} /\ DOMAIN sent[p] = {} /\ frame[p] # "open"
  BY <1>12, EmptySeq, FreshFacts
<1>14. EndsOK
  BY <1>7, <1>10, <1>12, <1>13 DEF EndsOK
<1>15. SyncInv
  BY <1>10, <1>13 DEF SyncInv, CoreEnd, FrameEnd, Honest, Knows
<1>16. HistoryOf(log, core.doc, commits, head, undone, restarts)
  BY <1>2, <1>4, <1>6, <1>7, <1>8, <1>12 DEF HistoryOf
<1> QED
  BY <1>5, <1>9, <1>11, <1>14, <1>15, <1>16, HistoryIs DEF ReplicasInv, ReplicasTyped

LEMMA ReplicasStep == ReplicasInv /\ [Next]_vars => ReplicasInv'
<1> SUFFICES ASSUME ReplicasInv, [Next]_vars PROVE ReplicasInv'
  OBVIOUS
<1>1. ASSUME NEW commit \in BOOLEAN, WriteDoc(commit) PROVE ReplicasInv'
  BY <1>1, WriteDocKeeps
<1>2. CASE Undo \/ Redo
  <2>1. head \in Nat /\ head <= Len(commits) /\ Len(commits) \in Nat
    BY LenProperties DEF ReplicasInv, ReplicasTyped, DocsOK
  <2>2. CASE Undo
    <3>1. head - 1 \in Nat /\ head - 1 <= Len(commits) /\ MoveHead(head - 1)
      BY <2>1, <2>2 DEF Undo
    <3> QED
      BY <3>1, MoveHeadKeeps
  <2>3. CASE Redo
    <3>1. head + 1 \in Nat /\ head + 1 <= Len(commits) /\ MoveHead(head + 1)
      BY <2>1, <2>3 DEF Redo
    <3> QED
      BY <3>1, MoveHeadKeeps
  <2> QED
    BY <1>2, <2>2, <2>3
<1>3. CASE Restart
  BY <1>3, RestartKeeps
<1>4. ASSUME NEW p \in Peers,
             \/ OpenDoc(p) \/ Local(p) \/ Receive(p) \/ DocSync(p) \/ DocSyncEnd(p)
             \/ LosePatch(p) \/ LosePost(p)
      PROVE  ReplicasInv'
  BY <1>4, OpenDocKeeps, LocalKeeps, ReceiveKeeps, DocSyncKeeps, DocSyncEndKeeps,
     LosePatchKeeps, LosePostKeeps
<1>5. CASE UNCHANGED vars
  <2> USE DEF ReplicasInv
  <2>1. UNCHANGED <<log, core, commits, head, states, seen, frame, copy, end, posted, sent, lost, undone, restarts>>
    BY <1>5 DEF vars, server, client
  <2>2. GoodLog(log') /\ DocsOK' /\ SeenOK' /\ EndsOK'
    BY <2>1 DEF ReplicasTyped, DocsOK, SeenOK, EndsOK
  <2>3. ASSUME NEW q \in Peers PROVE CoreEnd(q)' /\ FrameEnd(q)' /\ Honest(q)' /\ Knows(q)'
    <3>1. CoreEnd(q) /\ FrameEnd(q) /\ Honest(q) /\ Knows(q)
      BY DEF SyncInv
    <3> QED
      BY <2>1, <3>1, Zenon DEF CoreEnd, FrameEnd, Honest, Knows
  <2>4. HistoryInv'
    BY <2>1, HistorySame
  <2> QED
    BY <2>2, <2>3, <2>4 DEF ReplicasTyped, SyncInv
<1> QED
  BY <1>1, <1>2, <1>3, <1>4, <1>5 DEF Next

LEMMA ReplicasAlways == Spec => []ReplicasInv
BY ReplicasBegin, ReplicasStep, PTL DEF Spec

-----------------------------------------------------------------------------

\* The variables hold what they say, whatever happened: every change stands on
\* a whole document, every document holds the ground of its changes, the head is
\* a commit, and Core keeps a sync state for every replica it remembers hearing
\* from (docs.rs, lib.rs DocSync and put_replica, replica.ts).
THEOREM ReplicasTypeCorrect == Spec => []ReplicasTyped
<1>1. ReplicasInv => ReplicasTyped
  BY DEF ReplicasInv
<1> QED
  BY <1>1, ReplicasAlways, PTL

\* A frame that Core keeps a sync state for, that lost no message and has none
\* on its way shows what Core shows, for any number of frames, edits, undos,
\* evictions and restarts (lib.rs DocSync, doc_changed; replica.ts flush).
THEOREM SettledAlwaysSame == Spec => []SettledIsSame
<1>1. ASSUME ReplicasInv, NEW p \in Peers, Settled(p), p \in DOMAIN states, p \notin lost
      PROVE  Content(copy[p]) = Content(core)
  <2>1. Knows(p) /\ FrameEnd(p) /\ CoreEnd(p)
    BY <1>1 DEF ReplicasInv, SyncInv
  <2>2. copy[p].doc = core.doc
    BY <1>1, <2>1 DEF Knows, Settled
  <2> QED
    BY <2>2, ContentIs
<1>2. ReplicasInv => SettledIsSame
  BY <1>1 DEF SettledIsSame
<1> QED
  BY <1>2, ReplicasAlways, PTL

\* What an undo took away stays away whatever frames that still hold it send,
\* until Core restarts; and what people did in frames is in the history as soon
\* as it is in the document, a restart included (lib.rs DocSync, undo; docs.rs
\* apply_json).
THEOREM EditsAndUndosAlwaysStay == Spec => []EditsAndUndosStay
<1>1. ReplicasInv => EditsAndUndosStay
  BY DEF ReplicasInv, HistoryInv
<1> QED
  BY <1>1, ReplicasAlways, PTL

-----------------------------------------------------------------------------
(*                  The surfaces of a window                               *)

(* What the variables hold.                                                *)

Requests == [id : Nat, kind : {"module", "json", "write"}, key : Keys, doc : Nat]
Letters == [id : Nat, kind : {"module", "json", "changed", "done", "error"}, key : Keys, doc : Nat]
Runners == [module : Keys \cup {"none"}, holds : Nat, last : Nat, pending : Nat,
            received : BOOLEAN, dirty : BOOLEAN]
OpenSurfaces == [runner : Runners, failed : BOOLEAN, spent : BOOLEAN]
Loads(open) == [key : open, module : Keys, nr : Nat]

WireOK ==
  /\ toCore \in Seq(Requests) /\ arrived \in Seq(Letters)
  /\ boards \in [Keys -> Nat \ {0}] /\ edits \in Nat
  /\ unsaved \in BOOLEAN /\ writing \in Nat /\ lastId \in Nat
  /\ refused \subseteq Keys

OpenOK ==
  /\ DOMAIN surfaces \subseteq Keys /\ IsFiniteSet(DOMAIN surfaces)
  /\ surfaces \in [DOMAIN surfaces -> OpenSurfaces]
  /\ loading \subseteq Loads(DOMAIN surfaces)
  /\ lastId > 0 \/ DOMAIN surfaces # {} => wanted \in DOMAIN surfaces

IdsOK ==
  /\ \A i \in DOMAIN toCore : toCore[i].id > 0 /\ toCore[i].id <= lastId
  /\ \A i, j \in DOMAIN toCore : i < j => toCore[i].id < toCore[j].id
  /\ \A i \in DOMAIN arrived : arrived[i].id <= lastId
  /\ \A i \in DOMAIN arrived, j \in DOMAIN toCore : arrived[i].id < toCore[j].id
  /\ \A i \in DOMAIN arrived : arrived[i].kind = "module" => arrived[i].id # 0

LettersOK ==
  /\ \A i \in DOMAIN toCore : toCore[i].kind = "write" => toCore[i].doc # 0
  /\ \A i \in DOMAIN arrived : arrived[i].kind = "json" => arrived[i].doc # 0

WriteOK ==
  (\E i \in DOMAIN toCore : toCore[i].kind = "write") =>
     /\ unsaved
     /\ \E i \in DOMAIN toCore : toCore[i].id = writing
     /\ \A i \in DOMAIN toCore : toCore[i].kind = "write" => toCore[i].id <= writing

RunnerOK(r) ==
  /\ r.received => r.last = (IF r.pending # 0 THEN r.pending ELSE r.holds)
  /\ ~ r.received => r.last = 0 /\ r.pending = 0
  /\ r.pending # 0 => r.dirty

RunnersOK == \A key \in DOMAIN surfaces : RunnerOK(surfaces[key].runner)

IsJson(m, key) == m.kind = "json" /\ m.key = key
Asked(key) == \E i \in DOMAIN toCore : toCore[i].kind \in {"json", "write"} /\ toCore[i].key = key
Changed == \E i \in DOMAIN arrived : arrived[i].kind = "changed"
Brought(key) ==
  \E i \in DOMAIN arrived :
     /\ IsJson(arrived[i], key) /\ arrived[i].doc = boards[key]
     /\ \A j \in DOMAIN arrived : IsJson(arrived[j], key) => j <= i
Held(key) ==
  /\ \A i \in DOMAIN arrived : ~ IsJson(arrived[i], key)
  /\ surfaces[key].runner.received /\ surfaces[key].runner.last = boards[key]

Follows(key) == Asked(key) \/ Changed \/ Brought(key) \/ Held(key)
FollowsOK == \A key \in DOMAIN surfaces \ refused : Runs(key) => Follows(key)

WindowInv == WireOK /\ OpenOK /\ IdsOK /\ LettersOK /\ WriteOK /\ RunnersOK /\ FollowsOK

-----------------------------------------------------------------------------
(* What a step does to what is on its way.                                 *)

\* n requests more, or none.
AsksMore(n) ==
  /\ lastId' = lastId + n
  /\ toCore' \in Seq(Requests) /\ Len(toCore') = Len(toCore) + n
  /\ \A i \in 1 .. Len(toCore) : toCore'[i] = toCore[i]
  /\ \A i \in 1 .. n : toCore'[Len(toCore) + i].id = lastId + i

LEMMA SendsOne ==
  ASSUME WireOK, NEW kind \in {"module", "json", "write"}, NEW key \in Keys, NEW doc \in Nat,
         Sends(kind, key, doc)
  PROVE  /\ AsksMore(1)
         /\ toCore'[Len(toCore) + 1] = Letter(lastId + 1, kind, key, doc)
         /\ Len(toCore) + 1 \in DOMAIN toCore'
<1>1. Letter(lastId + 1, kind, key, doc) \in Requests
  BY SMT DEF WireOK, Letter, Requests
<1>2. toCore' = Append(toCore, Letter(lastId + 1, kind, key, doc)) /\ lastId' = lastId + 1
  BY DEF Sends
<1> HIDE DEF Letter
<1>3. Letter(lastId + 1, kind, key, doc).id = lastId + 1
  BY DEF Letter
<1> QED BY <1>1, <1>2, <1>3, SMT DEF WireOK, AsksMore

LEMMA OldOrNew ==
  ASSUME WireOK, NEW n \in Nat, AsksMore(n), NEW i \in DOMAIN toCore'
  PROVE  \/ i \in DOMAIN toCore /\ toCore'[i] = toCore[i]
         \/ i - Len(toCore) \in 1 .. n /\ i = Len(toCore) + (i - Len(toCore))
<1>1. /\ Len(toCore) \in Nat /\ DOMAIN toCore = 1 .. Len(toCore)
      /\ Len(toCore') \in Nat /\ DOMAIN toCore' = 1 .. Len(toCore')
  BY LenProperties DEF WireOK, AsksMore
<1>2. Len(toCore') = Len(toCore) + n /\ \A k \in 1 .. Len(toCore) : toCore'[k] = toCore[k]
  BY DEF AsksMore
<1> QED BY <1>1, <1>2, SMT

LEMMA OldStay ==
  ASSUME WireOK, NEW n \in Nat, AsksMore(n)
  PROVE  \A i \in DOMAIN toCore : i \in DOMAIN toCore' /\ toCore'[i] = toCore[i]
BY SMT DEF WireOK, AsksMore

LEMMA Elements ==
  ASSUME WireOK
  PROVE  /\ \A i \in DOMAIN toCore : toCore[i] \in Requests
         /\ \A i \in DOMAIN arrived : arrived[i] \in Letters
<1>1. DOMAIN toCore = 1 .. Len(toCore) /\ DOMAIN arrived = 1 .. Len(arrived)
  BY LenProperties DEF WireOK
<1> QED BY <1>1, ElementOfSeq DEF WireOK

LEMMA SendsNone ==
  ASSUME WireOK, UNCHANGED <<toCore, lastId>>
  PROVE  AsksMore(0)
BY SMT DEF WireOK, AsksMore

\* What has arrived is what had arrived, or all but the first of it.
TakesOff == \/ arrived' = arrived
            \/ arrived # <<>> /\ arrived' = Tail(arrived)

LEMMA TakesOffFacts ==
  ASSUME WireOK, TakesOff
  PROVE  /\ arrived' \in Seq(Letters)
         /\ \A i \in DOMAIN arrived' : \E j \in DOMAIN arrived : arrived'[i] = arrived[j]
<1>1. CASE arrived' = arrived
  BY <1>1 DEF WireOK
<1>2. CASE arrived # <<>> /\ arrived' = Tail(arrived)
  <2>1. arrived \in Seq(Letters)
    BY DEF WireOK
  <2>2. /\ Tail(arrived) \in Seq(Letters) /\ Len(Tail(arrived)) = Len(arrived) - 1
        /\ \A i \in 1 .. Len(Tail(arrived)) : Tail(arrived)[i] = arrived[i + 1]
        /\ Len(arrived) \in Nat
    BY <1>2, <2>1, HeadTailProperties, LenProperties
  <2> QED BY <1>2, <2>1, <2>2, SMT
<1> QED BY <1>1, <1>2 DEF TakesOff

LEMMA IdsGoUp ==
  ASSUME WireOK, IdsOK, NEW n \in Nat, AsksMore(n), TakesOff
  PROVE  IdsOK'
<1>1. \A i \in DOMAIN arrived' : \E j \in DOMAIN arrived : arrived'[i] = arrived[j]
  BY TakesOffFacts
<1>2. \A i \in DOMAIN toCore' : \/ i \in DOMAIN toCore /\ toCore'[i] = toCore[i]
                                \/ \E k \in 1 .. n : i = Len(toCore) + k /\ toCore'[i].id = lastId + k
  BY OldOrNew DEF AsksMore
<1>3. lastId' = lastId + n /\ lastId \in Nat /\ Len(toCore) \in Nat /\ DOMAIN toCore = 1 .. Len(toCore)
  BY SMT DEF AsksMore, WireOK
<1>4. (\A i \in DOMAIN toCore : toCore[i].id > 0 /\ toCore[i].id <= lastId /\ toCore[i].id \in Nat)
      /\ \A i \in DOMAIN arrived : arrived[i].id \in Nat
  BY Elements, SMT DEF IdsOK, Requests, Letters
<1>5. \A i \in DOMAIN toCore' : toCore'[i].id > 0 /\ toCore'[i].id <= lastId'
  BY <1>2, <1>3, <1>4, SMT
<1>6. \A i, j \in DOMAIN toCore' : i < j => toCore'[i].id < toCore'[j].id
  BY <1>2, <1>3, <1>4, SMT DEF IdsOK
<1>7. \A i \in DOMAIN arrived' : arrived'[i].id <= lastId'
  BY <1>1, <1>3, <1>4, SMT DEF IdsOK
<1>8. \A i \in DOMAIN arrived', j \in DOMAIN toCore' : arrived'[i].id < toCore'[j].id
  BY <1>1, <1>2, <1>3, <1>4, SMT DEF IdsOK
<1>9. \A i \in DOMAIN arrived' : arrived'[i].kind = "module" => arrived'[i].id # 0
  BY <1>1, SMT DEF IdsOK
<1> QED BY <1>5, <1>6, <1>7, <1>8, <1>9 DEF IdsOK

\* The new requests are for modules and documents.
OnlyAsks(n) ==
  AsksMore(n) /\ \A i \in 1 .. n : toCore'[Len(toCore) + i].kind # "write"

LEMMA LettersStay ==
  ASSUME WireOK, LettersOK, NEW n \in Nat, OnlyAsks(n), TakesOff
  PROVE  LettersOK'
<1>1. \A i \in DOMAIN arrived' : \E j \in DOMAIN arrived : arrived'[i] = arrived[j]
  BY TakesOffFacts
<1>2. \A i \in DOMAIN toCore' : \/ i \in DOMAIN toCore /\ toCore'[i] = toCore[i]
                                \/ toCore'[i].kind # "write"
  <2>1. AsksMore(n) /\ \A i \in 1 .. n : toCore'[Len(toCore) + i].kind # "write"
    BY DEF OnlyAsks
  <2> QED BY <2>1, OldOrNew
<1> QED BY <1>1, <1>2, SMT DEF LettersOK

LEMMA WritesStay ==
  ASSUME WireOK, IdsOK, WriteOK, NEW n \in Nat, OnlyAsks(n), writing' = writing, unsaved' = unsaved
  PROVE  WriteOK'
<1>2. \A i \in DOMAIN toCore' : \/ i \in DOMAIN toCore /\ toCore'[i] = toCore[i]
                                \/ toCore'[i].kind # "write"
  <2>1. AsksMore(n) /\ \A i \in 1 .. n : toCore'[Len(toCore) + i].kind # "write"
    BY DEF OnlyAsks
  <2> QED BY <2>1, OldOrNew
<1>3. \A i \in DOMAIN toCore : i \in DOMAIN toCore' /\ toCore'[i] = toCore[i]
  BY OldStay DEF OnlyAsks
<1> QED BY <1>2, <1>3, SMT DEF WriteOK

\* What was asked for is still asked for, and what has arrived is there: whoever
\* followed does, when the runner did not change.
LEMMA FollowStays ==
  ASSUME WireOK, NEW n \in Nat, AsksMore(n), arrived' = arrived, boards' = boards,
         NEW key \in DOMAIN surfaces, Follows(key),
         Held(key) => Asked(key)' \/ (/\ surfaces'[key].runner.received
                                      /\ surfaces'[key].runner.last = surfaces[key].runner.last)
  PROVE  Follows(key)'
<1>1. \A i \in DOMAIN toCore : i \in DOMAIN toCore' /\ toCore'[i] = toCore[i]
  BY OldStay
<1>2. CASE Asked(key)
  BY <1>1, <1>2 DEF Asked, Follows
<1>3. CASE Changed
  BY <1>3 DEF Changed, Follows
<1>4. CASE Brought(key)
  BY <1>4 DEF Brought, Follows
<1>5. CASE Held(key)
  BY <1>5 DEF Held, Follows
<1> QED BY <1>2, <1>3, <1>4, <1>5 DEF Follows
-----------------------------------------------------------------------------
(* Runners.                                                                *)

LEMMA NoRunnerOK == NoRunner \in Runners /\ RunnerOK(NoRunner) /\ Opened \in OpenSurfaces
BY SMT DEF NoRunner, Runners, RunnerOK, Opened, OpenSurfaces

LEMMA LoadedOK ==
  ASSUME NEW module \in Keys
  PROVE  Loaded(module) \in Runners /\ RunnerOK(Loaded(module))
<1>1. /\ NoRunner \in Runners /\ NoRunner.holds = 0 /\ NoRunner.last = 0 /\ NoRunner.pending = 0
      /\ ~ NoRunner.received
  BY DEF NoRunner, Runners
<1>2. PICK w : w = [NoRunner EXCEPT !.module = module, !.dirty = TRUE]
  OBVIOUS
<1>3. w \in Runners /\ w.holds = 0 /\ w.last = 0 /\ w.pending = 0 /\ ~ w.received
  BY <1>1, <1>2 DEF Runners
<1>4. RunnerOK(w)
  BY <1>3 DEF RunnerOK
<1> QED BY <1>2, <1>3, <1>4 DEF Loaded

LEMMA SetDocOK ==
  ASSUME NEW r \in Runners, RunnerOK(r), NEW doc \in Nat \ {0}
  PROVE  /\ SetDoc(r, doc) \in Runners /\ RunnerOK(SetDoc(r, doc))
         /\ r # NoRunner => SetDoc(r, doc).received /\ SetDoc(r, doc).last = doc
<1>1. CASE r = NoRunner
  BY <1>1 DEF SetDoc
<1>2. CASE r # NoRunner
  <2>1. PICK given : given = IF r.last = doc THEN r.pending ELSE doc
    OBVIOUS
  <2>2. PICK wakes \in BOOLEAN : wakes = (r.dirty \/ r.last # doc)
    <3>1. (r.dirty \/ r.last # doc) \in BOOLEAN
      BY Zenon DEF Runners
    <3> QED BY <3>1, Zenon
  <2>3. PICK w : w = [r EXCEPT !.received = TRUE, !.last = doc, !.pending = given, !.dirty = wakes]
    OBVIOUS
  <2>4. given \in Nat
    BY <2>1 DEF Runners
  <2>5. /\ w \in Runners /\ w.received /\ w.last = doc /\ w.pending = given /\ w.dirty = wakes
        /\ w.holds = r.holds
    BY <2>3, <2>4 DEF Runners
  <2>6. SetDoc(r, doc) = w
    BY <1>2, <2>1, <2>2, <2>3, Zenon DEF SetDoc
  <2>7. r.last = doc => r.received
    BY DEF RunnerOK
  <2>8. w.pending # 0 => w.dirty
    <3>1. CASE r.last = doc
      BY <2>1, <2>2, <2>5, <3>1 DEF RunnerOK
    <3>2. CASE r.last # doc
      BY <2>2, <2>5, <3>2
    <3> QED BY <3>1, <3>2
  <2>9. w.last = IF w.pending # 0 THEN w.pending ELSE w.holds
    <3>1. CASE r.last = doc
      BY <2>1, <2>5, <2>7, <3>1 DEF RunnerOK
    <3>2. CASE r.last # doc
      BY <2>1, <2>5, <3>2
    <3> QED BY <3>1, <3>2
  <2> QED BY <2>5, <2>6, <2>8, <2>9 DEF RunnerOK
<1> QED BY <1>1, <1>2

LEMMA EnteredOK ==
  ASSUME NEW r \in Runners, RunnerOK(r), NEW edit \in Nat
  PROVE  /\ Entered(r, edit) \in Runners /\ RunnerOK(Entered(r, edit))
         /\ r.received => Entered(r, edit).received
         /\ edit = 0 \/ ~ r.received => Entered(r, edit).last = r.last
<1>1. PICK holds : holds = IF edit # 0 THEN edit ELSE IF r.pending # 0 THEN r.pending ELSE r.holds
  OBVIOUS
<1>2. PICK last : last = IF edit # 0 /\ r.received THEN edit ELSE r.last
  OBVIOUS
<1>3. PICK w : w = [r EXCEPT !.holds = holds, !.pending = 0, !.dirty = FALSE, !.last = last]
  OBVIOUS
<1>4. holds \in Nat /\ last \in Nat
  BY <1>1, <1>2 DEF Runners
<1>5. /\ w \in Runners /\ (w.received <=> r.received) /\ w.last = last /\ w.pending = 0 /\ w.holds = holds
  BY <1>3, <1>4 DEF Runners
<1>6. Entered(r, edit) = w
  BY <1>1, <1>2, <1>3 DEF Entered
<1>7. w.received => w.last = w.holds
  BY <1>1, <1>2, <1>5 DEF RunnerOK
<1>8. ~ w.received => w.last = 0
  BY <1>2, <1>5 DEF RunnerOK
<1> QED BY <1>2, <1>5, <1>6, <1>7, <1>8 DEF RunnerOK

\* One surface turns into another.
Turns(key, s) == surfaces' = [surfaces EXCEPT ![key] = s]

LEMMA TurnsInto ==
  ASSUME OpenOK, RunnersOK, NEW key \in DOMAIN surfaces, NEW s \in OpenSurfaces, RunnerOK(s.runner),
         Turns(key, s), loading' \subseteq Loads(DOMAIN surfaces), wanted' \in DOMAIN surfaces
  PROVE  /\ OpenOK' /\ RunnersOK'
         /\ DOMAIN surfaces' = DOMAIN surfaces /\ surfaces'[key] = s
         /\ \A k \in DOMAIN surfaces : k # key => surfaces'[k] = surfaces[k]
<1>1. /\ DOMAIN surfaces' = DOMAIN surfaces /\ surfaces'[key] = s
      /\ \A k \in DOMAIN surfaces : k # key => surfaces'[k] = surfaces[k]
  BY DEF Turns, OpenOK
<1>2. surfaces' \in [DOMAIN surfaces -> OpenSurfaces]
  BY DEF Turns, OpenOK
<1>3. OpenOK'
  BY <1>1, <1>2 DEF OpenOK
<1>4. RunnersOK'
  BY <1>1 DEF RunnersOK
<1> QED BY <1>1, <1>3, <1>4

\* The others run and are followed as before.
LEMMA OthersFollow ==
  ASSUME WireOK, FollowsOK, NEW n \in Nat, AsksMore(n),
         arrived' = arrived, boards' = boards, refused' = refused,
         NEW key, Runs(key)' /\ key \notin refused => Follows(key)',
         DOMAIN surfaces' \subseteq DOMAIN surfaces \cup {key},
         \A k \in DOMAIN surfaces : k # key => surfaces'[k] = surfaces[k]
  PROVE  FollowsOK'
<1> SUFFICES ASSUME NEW k \in DOMAIN surfaces', k \notin refused', Runs(k)'
             PROVE  Follows(k)'
  BY DEF FollowsOK
<1>1. CASE k = key
  BY <1>1
<1>2. CASE k # key
  <2>1. k \in DOMAIN surfaces /\ surfaces'[k] = surfaces[k]
    BY <1>2
  <2>2. Runs(k)
    BY <2>1 DEF Runs
  <2>3. Follows(k)
    BY <2>1, <2>2 DEF FollowsOK
  <2>4. Held(k) => surfaces'[k].runner.received /\ surfaces'[k].runner.last = surfaces[k].runner.last
    BY <2>1 DEF Held
  <2> QED BY <2>1, <2>3, <2>4, FollowStays
<1> QED BY <1>1, <1>2
-----------------------------------------------------------------------------
(* The steps of the window.                                                *)

\* A request is of the kinds there are, and is asked by one that is open.
LEMMA RequestSurfaceDoes ==
  ASSUME WireOK, NEW key \in Keys, RequestSurface(key)
  PROVE  wanted' = key /\ OnlyAsks(1)
<1>1. Sends("module", key, 0) /\ wanted' = key
  BY DEF RequestSurface
<1>2. AsksMore(1) /\ toCore'[Len(toCore) + 1] = Letter(lastId + 1, "module", key, 0)
  BY <1>1, SendsOne
<1>3. toCore'[Len(toCore) + 1].kind = "module"
  BY <1>2 DEF Letter
<1>4. \A i \in 1 .. 1 : i = 1
  OBVIOUS
<1> QED BY <1>1, <1>2, <1>3, <1>4 DEF OnlyAsks

\* What is left of the invariant, when the wire was only written to.
OnlyAskedMore(n) == OnlyAsks(n) /\ UNCHANGED <<arrived, boards, unsaved, writing, refused>>

LEMMA QuietKeeps ==
  ASSUME WindowInv, NEW n \in Nat, OnlyAskedMore(n), edits' \in Nat
  PROVE  WireOK' /\ IdsOK' /\ LettersOK' /\ WriteOK'
<1>1. OnlyAsks(n) /\ AsksMore(n) /\ UNCHANGED <<arrived, boards, unsaved, writing, refused>>
  BY DEF OnlyAskedMore, OnlyAsks
<1>2. WireOK /\ IdsOK /\ LettersOK /\ WriteOK
  BY DEF WindowInv
<1>3. TakesOff
  BY <1>1 DEF TakesOff
<1>4. lastId' \in Nat /\ toCore' \in Seq(Requests)
  BY <1>1, <1>2, SMT DEF AsksMore, WireOK
<1>5. WireOK'
  BY <1>1, <1>2, <1>4 DEF WireOK
<1>6. IdsOK'
  BY <1>1, <1>2, <1>3, IdsGoUp
<1>7. LettersOK'
  BY <1>1, <1>2, <1>3, LettersStay
<1>8. WriteOK'
  BY <1>1, <1>2, WritesStay
<1> QED BY <1>5, <1>6, <1>7, <1>8

LEMMA OpenStep ==
  ASSUME WindowInv, NEW key \in Keys, Open(key)
  PROVE  WindowInv'
<1>1. /\ key \notin DOMAIN surfaces /\ RequestSurface(key)
      /\ surfaces' = [k \in DOMAIN surfaces \cup {key} |-> IF k = key THEN Opened ELSE surfaces[k]]
      /\ UNCHANGED <<arrived, boards, loading, unsaved, writing, edits, refused>>
  BY DEF Open
<1>2. WireOK /\ OpenOK /\ RunnersOK /\ FollowsOK
  BY DEF WindowInv
<1>3. wanted' = key /\ OnlyAsks(1) /\ AsksMore(1)
  BY <1>1, <1>2, RequestSurfaceDoes DEF OnlyAsks
<1>4. WireOK' /\ IdsOK' /\ LettersOK' /\ WriteOK'
  BY <1>1, <1>2, <1>3, QuietKeeps DEF OnlyAskedMore, WireOK
<1>5. /\ DOMAIN surfaces' = DOMAIN surfaces \cup {key} /\ surfaces'[key] = Opened
      /\ \A k \in DOMAIN surfaces : k # key => surfaces'[k] = surfaces[k]
  BY <1>1
<1>6. OpenOK'
  <2>1. IsFiniteSet(DOMAIN surfaces \cup {key})
    BY <1>2, FS_AddElement DEF OpenOK
  <2>2. surfaces' \in [DOMAIN surfaces' -> OpenSurfaces]
    BY <1>1, <1>2, <1>5, NoRunnerOK DEF OpenOK
  <2>3. Loads(DOMAIN surfaces) \subseteq Loads(DOMAIN surfaces')
    BY <1>5 DEF Loads
  <2> QED BY <1>1, <1>2, <1>3, <1>5, <2>1, <2>2, <2>3 DEF OpenOK
<1>7. RunnersOK'
  BY <1>2, <1>5, NoRunnerOK DEF RunnersOK, Opened
<1>8. ~ Runs(key)'
  BY <1>5 DEF Runs, Opened
<1>9. FollowsOK'
  BY <1>1, <1>2, <1>3, <1>5, <1>8, OthersFollow
<1> QED BY <1>4, <1>6, <1>7, <1>9 DEF WindowInv

\* Steps in which one surface turns into another and at most some requests
\* are made.
LEMMA TurnsStep ==
  ASSUME WindowInv, NEW n \in Nat, OnlyAskedMore(n), edits' \in Nat,
         NEW key \in DOMAIN surfaces, NEW s \in OpenSurfaces, RunnerOK(s.runner), Turns(key, s),
         loading' \subseteq Loads(DOMAIN surfaces), wanted' \in DOMAIN surfaces,
         Runs(key)' /\ key \notin refused => Follows(key)'
  PROVE  WindowInv'
<1>1. WireOK' /\ IdsOK' /\ LettersOK' /\ WriteOK'
  BY QuietKeeps
<1>2. WireOK /\ OpenOK /\ RunnersOK /\ FollowsOK
  BY DEF WindowInv
<1>3. /\ OpenOK' /\ RunnersOK' /\ DOMAIN surfaces' = DOMAIN surfaces
      /\ \A k \in DOMAIN surfaces : k # key => surfaces'[k] = surfaces[k]
  BY <1>2, TurnsInto
<1>4. AsksMore(n) /\ arrived' = arrived /\ boards' = boards /\ refused' = refused
  BY DEF OnlyAskedMore, OnlyAsks
<1>5. FollowsOK'
  BY <1>2, <1>3, <1>4, OthersFollow
<1> QED BY <1>1, <1>3, <1>5 DEF WindowInv

LEMMA WithRunner ==
  ASSUME NEW s \in OpenSurfaces, NEW r \in Runners
  PROVE  /\ [s EXCEPT !.runner = r] \in OpenSurfaces
         /\ [s EXCEPT !.runner = r].runner = r
         /\ [s EXCEPT !.runner = r].failed <=> s.failed
BY DEF OpenSurfaces

LEMMA OpenIs ==
  ASSUME OpenOK, NEW key \in DOMAIN surfaces
  PROVE  /\ surfaces[key] \in OpenSurfaces /\ surfaces[key].runner \in Runners /\ key \in Keys
         /\ wanted \in DOMAIN surfaces
BY DEF OpenOK, OpenSurfaces

LEMMA CoolStep ==
  ASSUME WindowInv, NEW key \in Keys, Cool(key)
  PROVE  WindowInv'
<1>1. /\ key \in DOMAIN surfaces /\ surfaces' = [surfaces EXCEPT ![key].spent = FALSE]
      /\ UNCHANGED <<toCore, arrived, boards, loading, wanted, unsaved, writing, lastId, edits, refused>>
  BY DEF Cool
<1>2. WireOK /\ OpenOK /\ RunnersOK /\ FollowsOK
  BY DEF WindowInv
<1>3. surfaces[key] \in OpenSurfaces /\ wanted \in DOMAIN surfaces
  BY <1>1, <1>2, OpenIs
<1>4. PICK s : s = [surfaces[key] EXCEPT !.spent = FALSE]
  OBVIOUS
<1>5. s \in OpenSurfaces /\ s.runner = surfaces[key].runner /\ (s.failed <=> surfaces[key].failed)
  BY <1>3, <1>4 DEF OpenSurfaces
<1>6. Turns(key, s)
  BY <1>1, <1>4 DEF Turns
<1>7. RunnerOK(s.runner)
  BY <1>1, <1>2, <1>5 DEF RunnersOK
<1>8. OnlyAskedMore(0) /\ AsksMore(0)
  BY <1>1, <1>2, SendsNone, SMT DEF OnlyAskedMore, OnlyAsks
<1>9. DOMAIN surfaces' = DOMAIN surfaces /\ surfaces'[key] = s
  BY <1>1, <1>6 DEF Turns
<1>10. ASSUME Runs(key)', key \notin refused PROVE Follows(key)'
  <2>1. Runs(key)
    BY <1>1, <1>5, <1>9, <1>10 DEF Runs
  <2>2. Follows(key)
    BY <1>1, <1>2, <1>10, <2>1 DEF FollowsOK
  <2> QED BY <1>1, <1>2, <1>5, <1>8, <1>9, <2>2, FollowStays DEF Held
<1> QED BY <1>1, <1>2, <1>3, <1>5, <1>6, <1>7, <1>8, <1>10, TurnsStep DEF OpenOK, WireOK

LEMMA RestartStep ==
  ASSUME WindowInv, NEW key \in Keys, RestartSurface(key)
  PROVE  WindowInv'
<1>1. /\ key \in DOMAIN surfaces /\ RequestSurface(key)
      /\ surfaces' = [surfaces EXCEPT ![key] = [Opened EXCEPT !.spent = TRUE]]
      /\ UNCHANGED <<arrived, boards, loading, unsaved, writing, edits, refused>>
  BY DEF RestartSurface
<1>2. WireOK /\ OpenOK /\ RunnersOK /\ FollowsOK
  BY DEF WindowInv
<1>3. wanted' = key /\ OnlyAsks(1)
  BY <1>1, <1>2, RequestSurfaceDoes
<1>4. PICK s : s = [Opened EXCEPT !.spent = TRUE]
  OBVIOUS
<1>5. s \in OpenSurfaces /\ s.runner = NoRunner
  <2>1. Opened \in OpenSurfaces /\ Opened.runner = NoRunner
    BY NoRunnerOK DEF Opened
  <2> QED BY <1>4, <2>1 DEF OpenSurfaces
<1>6. Turns(key, s) /\ surfaces'[key] = s /\ OnlyAskedMore(1)
  BY <1>1, <1>3, <1>4 DEF Turns, OnlyAskedMore
<1>7. ~ Runs(key)'
  BY <1>5, <1>6 DEF Runs
<1> QED BY <1>1, <1>2, <1>3, <1>5, <1>6, <1>7, NoRunnerOK, TurnsStep DEF OpenOK, WireOK

LEMMA FinishLoadStep ==
  ASSUME WindowInv, NEW load \in loading, NEW works \in BOOLEAN, FinishLoad(load, works)
  PROVE  WindowInv'
<1>1. /\ loading' = loading \ {load}
      /\ surfaces' = [surfaces EXCEPT ![load.key] =
                        IF works THEN [@ EXCEPT !.runner = Loaded(load.module), !.failed = FALSE]
                        ELSE [@ EXCEPT !.failed = TRUE]]
      /\ IF works THEN Sends("json", load.key, 0) ELSE UNCHANGED <<toCore, lastId>>
      /\ UNCHANGED <<arrived, boards, wanted, unsaved, writing, edits, refused>>
  BY DEF FinishLoad
<1>2. WireOK /\ OpenOK /\ RunnersOK /\ FollowsOK
  BY DEF WindowInv
<1>3. PICK key \in DOMAIN surfaces : key = load.key
  BY <1>2 DEF OpenOK, Loads
<1>4. /\ load.module \in Keys /\ key \in Keys /\ surfaces[key] \in OpenSurfaces
      /\ RunnerOK(surfaces[key].runner) /\ wanted \in DOMAIN surfaces
  BY <1>2, OpenIs DEF OpenOK, Loads, RunnersOK
<1>5. loading' \subseteq Loads(DOMAIN surfaces) /\ edits' \in Nat /\ wanted' \in DOMAIN surfaces
  BY <1>1, <1>2, <1>4 DEF OpenOK, WireOK
<1>6. CASE works
  <2>1. PICK r \in Runners : r = Loaded(load.module)
    BY <1>4, LoadedOK
  <2>2. PICK s : s = [surfaces[key] EXCEPT !.runner = r, !.failed = FALSE]
    OBVIOUS
  <2>3. s \in OpenSurfaces /\ s.runner = r
    BY <1>4, <2>2 DEF OpenSurfaces
  <2>4. Turns(key, s)
    BY <1>1, <1>3, <1>6, <2>1, <2>2 DEF Turns
  <2>5. Sends("json", key, 0)
    BY <1>1, <1>3, <1>6
  <2>6. /\ AsksMore(1) /\ Len(toCore) + 1 \in DOMAIN toCore'
        /\ toCore'[Len(toCore) + 1] = Letter(lastId + 1, "json", key, 0)
    BY <1>2, <1>4, <2>5, SendsOne
  <2>7. toCore'[Len(toCore) + 1].kind = "json" /\ toCore'[Len(toCore) + 1].key = key
    BY <2>6 DEF Letter
  <2>8. OnlyAskedMore(1)
    <3>1. \A i \in 1 .. 1 : i = 1
      OBVIOUS
    <3> QED BY <1>1, <2>6, <2>7, <3>1 DEF OnlyAskedMore, OnlyAsks
  <2>9. Follows(key)'
    BY <2>6, <2>7 DEF Follows, Asked
  <2>10. RunnerOK(s.runner)
    BY <1>4, <2>1, <2>3, LoadedOK
  <2> QED BY <1>5, <2>3, <2>4, <2>8, <2>9, <2>10, TurnsStep
<1>7. CASE ~ works
  <2>1. PICK s : s = [surfaces[key] EXCEPT !.failed = TRUE]
    OBVIOUS
  <2>2. s \in OpenSurfaces /\ s.runner = surfaces[key].runner /\ s.failed
    BY <1>4, <2>1 DEF OpenSurfaces
  <2>3. Turns(key, s)
    BY <1>1, <1>3, <1>7, <2>1 DEF Turns
  <2>4. OnlyAskedMore(0)
    BY <1>1, <1>2, <1>7, SendsNone, SMT DEF OnlyAskedMore, OnlyAsks
  <2>5. surfaces'[key] = s
    BY <2>3 DEF Turns
  <2>6. ~ Runs(key)'
    BY <2>2, <2>5 DEF Runs
  <2> QED BY <1>4, <1>5, <2>2, <2>3, <2>4, <2>6, TurnsStep
<1> QED BY <1>6, <1>7

LEMMA BreakStep ==
  ASSUME WindowInv, NEW key \in Keys, NEW overBudget \in BOOLEAN, Break(key, overBudget)
  PROVE  WindowInv'
<1>1. PICK again \in BOOLEAN :
        /\ surfaces' = [surfaces EXCEPT ![key] =
                          [runner |-> NoRunner, failed |-> ~ again, spent |-> @.spent \/ again]]
        /\ IF again THEN RequestSurface(key) ELSE UNCHANGED <<toCore, lastId, wanted>>
  <2>1. (overBudget /\ ~ surfaces[key].spent) \in BOOLEAN
    OBVIOUS
  <2> QED BY <2>1, Zenon DEF Break
<1>2. key \in DOMAIN surfaces /\ UNCHANGED <<arrived, boards, loading, unsaved, writing, edits, refused>>
  BY DEF Break, Runs
<1>3. WireOK /\ OpenOK /\ RunnersOK /\ FollowsOK
  BY DEF WindowInv
<1>4. surfaces[key] \in OpenSurfaces /\ wanted \in DOMAIN surfaces
  BY <1>2, <1>3, OpenIs
<1>5. PICK s : s = [runner |-> NoRunner, failed |-> ~ again, spent |-> surfaces[key].spent \/ again]
  OBVIOUS
<1>6. s \in OpenSurfaces /\ s.runner = NoRunner
  BY <1>4, <1>5, NoRunnerOK DEF OpenSurfaces
<1>7. Turns(key, s) /\ surfaces'[key] = s
  BY <1>1, <1>2, <1>5, Zenon DEF Turns
<1>8. ~ Runs(key)'
  BY <1>6, <1>7 DEF Runs
<1>9. PICK n \in Nat : OnlyAskedMore(n) /\ wanted' \in DOMAIN surfaces
  <2>1. CASE again
    BY <1>1, <1>2, <1>3, <2>1, RequestSurfaceDoes DEF OnlyAskedMore
  <2>2. CASE ~ again
    <3>1. OnlyAskedMore(0)
      BY <1>1, <1>2, <1>3, <2>2, SendsNone, SMT DEF OnlyAskedMore, OnlyAsks
    <3> QED BY <1>1, <1>4, <2>2, <3>1
  <2> QED BY <2>1, <2>2
<1> QED BY <1>2, <1>3, <1>6, <1>7, <1>8, <1>9, NoRunnerOK, TurnsStep DEF OpenOK, WireOK

\* An edit is written; the number of its request is remembered.
LEMMA WriteIsRemembered ==
  ASSUME WindowInv, NEW key \in Keys, NEW doc \in Nat \ {0}, Sends("write", key, doc),
         unsaved' = TRUE, writing' = lastId + 1, edits' \in Nat,
         UNCHANGED <<arrived, boards, refused>>
  PROVE  /\ AsksMore(1) /\ WireOK' /\ IdsOK' /\ LettersOK' /\ WriteOK'
         /\ Asked(key)'
<1>1. WireOK /\ IdsOK /\ LettersOK /\ WriteOK
  BY DEF WindowInv
<1>2. /\ AsksMore(1) /\ Len(toCore) + 1 \in DOMAIN toCore'
      /\ toCore'[Len(toCore) + 1] = Letter(lastId + 1, "write", key, doc)
  BY <1>1, SendsOne
<1>3. /\ toCore'[Len(toCore) + 1].kind = "write" /\ toCore'[Len(toCore) + 1].key = key
      /\ toCore'[Len(toCore) + 1].doc = doc /\ toCore'[Len(toCore) + 1].id = lastId + 1
  BY <1>2 DEF Letter
<1>4. lastId' \in Nat /\ toCore' \in Seq(Requests) /\ lastId' = lastId + 1
  BY <1>1, <1>2, SMT DEF AsksMore, WireOK
<1>5. WireOK'
  BY <1>1, <1>4 DEF WireOK
<1>6. IdsOK'
  BY <1>1, <1>2, IdsGoUp DEF TakesOff
<1>7. \A i \in DOMAIN toCore' : \/ i \in DOMAIN toCore /\ toCore'[i] = toCore[i]
                                \/ i = Len(toCore) + 1
  <2>1. \A i \in 1 .. 1 : i = 1
    OBVIOUS
  <2> QED BY <1>1, <1>2, <2>1, OldOrNew
<1>8. LettersOK'
  BY <1>1, <1>3, <1>7 DEF LettersOK
<1>9. WriteOK'
  <2>1. \A i \in DOMAIN toCore' : toCore'[i].id <= writing'
    BY <1>4, <1>6 DEF IdsOK
  <2> QED BY <1>2, <1>3, <2>1 DEF WriteOK
<1>10. Asked(key)'
  BY <1>2, <1>3 DEF Asked
<1> QED BY <1>2, <1>5, <1>6, <1>8, <1>9, <1>10

LEMMA FrameStep ==
  ASSUME WindowInv, NEW key \in Keys, NEW edited \in BOOLEAN, Frame(key, edited)
  PROVE  WindowInv'
<1>1. PICK edit : edit = IF edited THEN edits + 1 ELSE 0
  OBVIOUS
<1>2. /\ Runs(key) /\ key \in DOMAIN surfaces
      /\ surfaces' = [surfaces EXCEPT ![key].runner = Entered(@, edit)]
      /\ edits' = (IF edited THEN edits + 1 ELSE edits)
      /\ IF edited /\ surfaces[key].runner.received
         THEN Sends("write", key, edit) /\ unsaved' = TRUE /\ writing' = lastId + 1
         ELSE UNCHANGED <<toCore, lastId, unsaved, writing>>
      /\ UNCHANGED <<arrived, boards, loading, wanted, refused>>
  BY <1>1 DEF Frame, Runs
<1>3. WireOK /\ OpenOK /\ RunnersOK /\ FollowsOK
  BY DEF WindowInv
<1>4. edit \in Nat /\ (edited => edit \in Nat \ {0}) /\ edits' \in Nat
  BY <1>1, <1>2, <1>3 DEF WireOK
<1>5. /\ surfaces[key] \in OpenSurfaces /\ surfaces[key].runner \in Runners
      /\ wanted' \in DOMAIN surfaces /\ loading' \subseteq Loads(DOMAIN surfaces)
      /\ RunnerOK(surfaces[key].runner)
  BY <1>2, <1>3, OpenIs DEF OpenOK, RunnersOK
<1>6. PICK r \in Runners : r = Entered(surfaces[key].runner, edit)
  BY <1>4, <1>5, EnteredOK
<1>7. PICK s : s = [surfaces[key] EXCEPT !.runner = r]
  OBVIOUS
<1>8. s \in OpenSurfaces /\ s.runner = r
  BY <1>5, <1>7, WithRunner
<1>9. Turns(key, s)
  BY <1>2, <1>6, <1>7 DEF Turns
<1>10. RunnerOK(s.runner)
  BY <1>4, <1>5, <1>6, <1>8, EnteredOK
<1>11. CASE edited /\ surfaces[key].runner.received
  <2>1. AsksMore(1) /\ WireOK' /\ IdsOK' /\ LettersOK' /\ WriteOK' /\ Asked(key)'
    BY <1>2, <1>4, <1>11, WriteIsRemembered
  <2>2. /\ OpenOK' /\ RunnersOK' /\ DOMAIN surfaces' = DOMAIN surfaces
        /\ \A k \in DOMAIN surfaces : k # key => surfaces'[k] = surfaces[k]
    BY <1>2, <1>3, <1>5, <1>8, <1>9, <1>10, TurnsInto
  <2>3. FollowsOK'
    BY <1>2, <1>3, <2>1, <2>2, OthersFollow DEF Follows
  <2> QED BY <2>1, <2>2, <2>3 DEF WindowInv
<1>12. CASE ~ (edited /\ surfaces[key].runner.received)
  <2>1. OnlyAskedMore(0) /\ AsksMore(0)
    BY <1>2, <1>3, <1>12, SendsNone, SMT DEF OnlyAskedMore, OnlyAsks
  <2>2. r.last = surfaces[key].runner.last /\ (surfaces[key].runner.received => r.received)
    BY <1>1, <1>4, <1>5, <1>6, <1>12, EnteredOK
  <2>3. surfaces'[key] = s
    BY <1>2, <1>9 DEF Turns
  <2>4. ASSUME key \notin refused PROVE Follows(key)'
    <3>1. Follows(key)
      BY <1>2, <1>3, <2>4 DEF FollowsOK
    <3>2. Held(key) => surfaces'[key].runner.received /\ surfaces'[key].runner.last = surfaces[key].runner.last
      BY <1>8, <2>2, <2>3 DEF Held
    <3> QED BY <1>2, <1>3, <2>1, <3>1, <3>2, FollowStays
  <2> QED BY <1>2, <1>4, <1>5, <1>8, <1>9, <1>10, <2>1, <2>4, TurnsStep
<1> QED BY <1>11, <1>12

-----------------------------------------------------------------------------
(* What arrives.                                                           *)

\* The first of what has arrived is taken in.
Takes(m) == arrived # <<>> /\ arrived' = Tail(arrived) /\ m = arrived[1]

LEMMA TakesFacts ==
  ASSUME WireOK, NEW m, Takes(m)
  PROVE  /\ 1 \in DOMAIN arrived /\ m \in Letters /\ arrived[1] = m /\ TakesOff
         /\ \A i \in DOMAIN arrived' : i \in Nat /\ i + 1 \in DOMAIN arrived /\ arrived'[i] = arrived[i + 1]
         /\ \A i \in DOMAIN arrived : i # 1 => i - 1 \in DOMAIN arrived' /\ arrived'[i - 1] = arrived[i]
         /\ DOMAIN arrived \subseteq Nat
<1>1. arrived \in Seq(Letters) /\ arrived # <<>> /\ arrived' = Tail(arrived) /\ m = arrived[1]
  BY DEF WireOK, Takes
<1>2. /\ Len(arrived) \in Nat \ {0} /\ DOMAIN arrived = 1 .. Len(arrived)
      /\ arrived' \in Seq(Letters) /\ Len(arrived') = Len(arrived) - 1
      /\ \A i \in 1 .. Len(arrived') : arrived'[i] = arrived[i + 1]
  BY <1>1, HeadTailProperties, LenProperties, EmptySeq
<1>3. DOMAIN arrived' = 1 .. Len(arrived')
  BY <1>2, LenProperties
<1>4. \A i \in DOMAIN arrived' : i \in Nat /\ i + 1 \in DOMAIN arrived /\ arrived'[i] = arrived[i + 1]
  BY <1>2, <1>3, SMT
<1>5. \A i \in DOMAIN arrived : i # 1 => i - 1 \in DOMAIN arrived' /\ arrived'[i - 1] = arrived[i]
  BY <1>2, <1>3, SMT
<1>6. 1 \in DOMAIN arrived /\ DOMAIN arrived \subseteq Nat
  BY <1>2, SMT
<1>7. m \in Letters
  BY <1>1, <1>6, Elements DEF WireOK
<1> QED BY <1>1, <1>4, <1>5, <1>6, <1>7 DEF TakesOff

\* An answer to anything but the last write of those that Core has not taken
\* leaves it unsaved; and that one is still to be answered.
LEMMA SavedKeeps ==
  ASSUME WindowInv, NEW n \in Nat, OnlyAsks(n), NEW m, Takes(m), Saved(m), UNCHANGED <<boards, edits, refused>>
  PROVE  WireOK' /\ IdsOK' /\ LettersOK' /\ WriteOK'
<1>1. WireOK /\ IdsOK /\ LettersOK /\ WriteOK
  BY DEF WindowInv
<1>2. TakesOff /\ 1 \in DOMAIN arrived /\ arrived[1] = m
  BY <1>1, TakesFacts
<1>3. AsksMore(n)
  BY DEF OnlyAsks
<1>4. writing' = (IF writing = m.id THEN 0 ELSE writing)
      /\ unsaved' = (unsaved /\ (writing = 0 \/ writing # m.id))
  BY DEF Saved
<1>5. writing' \in Nat /\ unsaved' \in BOOLEAN
  BY <1>1, <1>4, Zenon DEF WireOK
<1>6. arrived' \in Seq(Letters)
  BY <1>1, <1>2, TakesOffFacts
<1>7. lastId' \in Nat /\ toCore' \in Seq(Requests)
  BY <1>1, <1>3, SMT DEF AsksMore, WireOK
<1>8. WireOK'
  BY <1>1, <1>5, <1>6, <1>7 DEF WireOK
<1>9. IdsOK' /\ LettersOK'
  BY <1>1, <1>2, <1>3, IdsGoUp, LettersStay
<1>10. \A i \in DOMAIN toCore' : \/ i \in DOMAIN toCore /\ toCore'[i] = toCore[i]
                                 \/ toCore'[i].kind # "write"
  <2>1. \A i \in 1 .. n : toCore'[Len(toCore) + i].kind # "write"
    BY DEF OnlyAsks
  <2> QED BY <1>1, <1>3, <2>1, OldOrNew
<1>11. \A i \in DOMAIN toCore : i \in DOMAIN toCore' /\ toCore'[i] = toCore[i]
  BY <1>1, <1>3, OldStay
<1>12. ASSUME NEW i \in DOMAIN toCore', toCore'[i].kind = "write"
       PROVE  WriteOK'
  <2>1. i \in DOMAIN toCore /\ toCore[i].kind = "write"
    BY <1>10, <1>12
  <2>2. /\ unsaved /\ \E j \in DOMAIN toCore : toCore[j].id = writing
        /\ \A k \in DOMAIN toCore : toCore[k].kind = "write" => toCore[k].id <= writing
    BY <1>1, <2>1 DEF WriteOK
  <2>3. PICK j \in DOMAIN toCore : toCore[j].id = writing
    BY <2>2
  <2>4. m.id < writing /\ writing \in Nat /\ m.id \in Nat
    BY <1>1, <1>2, <2>3, Elements DEF IdsOK, WireOK, Letters
  <2>5. m.id # writing
    BY <2>4
  <2>6. writing' = writing /\ unsaved'
    BY <1>4, <2>2, <2>5, Zenon
  <2>7. \A k \in DOMAIN toCore' : toCore'[k].kind = "write" => toCore'[k].id <= writing'
    BY <1>10, <2>2, <2>6
  <2> QED BY <1>11, <2>3, <2>6, <2>7 DEF WriteOK
<1>13. WriteOK'
  BY <1>12 DEF WriteOK
<1> QED BY <1>8, <1>9, <1>13

\* What follows is still there when something of another kind was taken in.
LEMMA FollowGoesOn ==
  ASSUME WireOK, NEW n \in Nat, AsksMore(n), NEW m, Takes(m), boards' = boards,
         NEW key \in DOMAIN surfaces, Follows(key), m.kind # "changed", ~ IsJson(m, key),
         Held(key) => /\ surfaces'[key].runner.received
                      /\ surfaces'[key].runner.last = surfaces[key].runner.last
  PROVE  Follows(key)'
<1>1. /\ 1 \in DOMAIN arrived /\ arrived[1] = m /\ DOMAIN arrived \subseteq Nat
      /\ \A i \in DOMAIN arrived' : i \in Nat /\ i + 1 \in DOMAIN arrived /\ arrived'[i] = arrived[i + 1]
      /\ \A i \in DOMAIN arrived : i # 1 => i - 1 \in DOMAIN arrived' /\ arrived'[i - 1] = arrived[i]
  BY TakesFacts
<1>2. CASE Asked(key)
  <2>1. \A i \in DOMAIN toCore : i \in DOMAIN toCore' /\ toCore'[i] = toCore[i]
    BY OldStay
  <2> QED BY <1>2, <2>1 DEF Asked, Follows
<1>3. CASE Changed
  BY <1>1, <1>3 DEF Changed, Follows
<1>4. CASE Brought(key)
  <2>1. PICK i \in DOMAIN arrived :
          /\ IsJson(arrived[i], key) /\ arrived[i].doc = boards[key]
          /\ \A j \in DOMAIN arrived : IsJson(arrived[j], key) => j <= i
    BY <1>4 DEF Brought
  <2>2. i - 1 \in DOMAIN arrived' /\ arrived'[i - 1] = arrived[i]
    BY <1>1, <2>1
  <2>3. \A j \in DOMAIN arrived' : IsJson(arrived'[j], key) => j <= i - 1
    <3> SUFFICES ASSUME NEW j \in DOMAIN arrived', IsJson(arrived'[j], key) PROVE j <= i - 1
      OBVIOUS
    <3>1. j \in Nat /\ j + 1 \in DOMAIN arrived /\ IsJson(arrived[j + 1], key) /\ i \in Nat
      BY <1>1
    <3>2. j + 1 <= i
      BY <2>1, <3>1
    <3> QED BY <3>1, <3>2
  <2>4. Brought(key)'
    BY <2>1, <2>2, <2>3 DEF Brought
  <2> QED BY <2>4 DEF Follows
<1>5. CASE Held(key)
  BY <1>1, <1>5 DEF Held, Follows
<1> QED BY <1>2, <1>3, <1>4, <1>5 DEF Follows

\* The document that Core sent last is held, any earlier one will be replaced.
LEMMA FollowIsGiven ==
  ASSUME WireOK, NEW n \in Nat, AsksMore(n), NEW m, Takes(m), boards' = boards,
         NEW key \in DOMAIN surfaces, Follows(key), IsJson(m, key),
         surfaces'[key].runner.received, surfaces'[key].runner.last = m.doc
  PROVE  Follows(key)'
<1>1. /\ 1 \in DOMAIN arrived /\ arrived[1] = m /\ DOMAIN arrived \subseteq Nat
      /\ \A i \in DOMAIN arrived' : i \in Nat /\ i + 1 \in DOMAIN arrived /\ arrived'[i] = arrived[i + 1]
      /\ \A i \in DOMAIN arrived : i # 1 => i - 1 \in DOMAIN arrived' /\ arrived'[i - 1] = arrived[i]
  BY TakesFacts
<1>2. CASE Asked(key)
  <2>1. \A i \in DOMAIN toCore : i \in DOMAIN toCore' /\ toCore'[i] = toCore[i]
    BY OldStay
  <2> QED BY <1>2, <2>1 DEF Asked, Follows
<1>3. CASE Changed
  BY <1>1, <1>3 DEF Changed, Follows, IsJson
<1>4. CASE Brought(key)
  <2>1. PICK i \in DOMAIN arrived :
          /\ IsJson(arrived[i], key) /\ arrived[i].doc = boards[key]
          /\ \A j \in DOMAIN arrived : IsJson(arrived[j], key) => j <= i
    BY <1>4 DEF Brought
  <2>2. \A j \in DOMAIN arrived' : IsJson(arrived'[j], key) => j + 1 <= i /\ j \in Nat
    BY <1>1, <2>1
  <2>3. CASE i = 1
    <3>1. ASSUME NEW j \in DOMAIN arrived', IsJson(arrived'[j], key) PROVE FALSE
      <4>1. j + 1 <= 1 /\ j \in Nat /\ j + 1 \in DOMAIN arrived
        BY <1>1, <2>2, <2>3, <3>1
      <4>2. j = 0
        BY <4>1
      <4>3. 0 \notin DOMAIN arrived'
        <5>1. arrived' \in Seq(Letters)
          BY TakesFacts, TakesOffFacts
        <5> QED BY <5>1, LenProperties, SMT
      <4> QED BY <4>2, <4>3
    <3>2. Held(key)'
      BY <1>1, <2>1, <2>3, <3>1 DEF Held
    <3> QED BY <3>2 DEF Follows
  <2>4. CASE i # 1
    <3>1. i - 1 \in DOMAIN arrived' /\ arrived'[i - 1] = arrived[i] /\ i \in Nat
      BY <1>1, <2>4
    <3>2. \A j \in DOMAIN arrived' : IsJson(arrived'[j], key) => j <= i - 1
      BY <2>2, <3>1
    <3>3. Brought(key)'
      BY <2>1, <3>1, <3>2 DEF Brought
    <3> QED BY <3>3 DEF Follows
  <2> QED BY <2>3, <2>4
<1>5. CASE Held(key)
  BY <1>1, <1>5 DEF Held
<1> QED BY <1>2, <1>3, <1>4, <1>5 DEF Follows

LEMMA OthersGoOn ==
  ASSUME WireOK, FollowsOK, NEW n \in Nat, AsksMore(n), NEW m, Takes(m), boards' = boards, refused' = refused,
         m.kind # "changed", m.kind # "json", DOMAIN surfaces' = DOMAIN surfaces,
         \A k \in DOMAIN surfaces : Runs(k)' => surfaces'[k] = surfaces[k]
  PROVE  FollowsOK'
<1> SUFFICES ASSUME NEW key \in DOMAIN surfaces, key \notin refused, Runs(key)'
             PROVE  Follows(key)'
  BY DEF FollowsOK
<1>1. surfaces'[key] = surfaces[key]
  OBVIOUS
<1>2. Runs(key)
  BY <1>1 DEF Runs
<1>3. Follows(key)
  BY <1>2 DEF FollowsOK
<1>4. ~ IsJson(m, key)
  BY DEF IsJson
<1> QED BY <1>1, <1>3, <1>4, FollowGoesOn DEF Held

LEMMA TakeModuleStep ==
  ASSUME WindowInv, NEW m, Takes(m), Saved(m), TakeModule(m), UNCHANGED <<boards, wanted, edits, refused>>
  PROVE  WindowInv'
<1>1. WireOK /\ OpenOK /\ IdsOK /\ RunnersOK /\ FollowsOK
  BY DEF WindowInv
<1>2. m.kind = "module" /\ OnlyAsks(0) /\ AsksMore(0)
  BY <1>1, SendsNone, SMT DEF TakeModule, OnlyAsks
<1>3. WireOK' /\ IdsOK' /\ LettersOK' /\ WriteOK'
  BY <1>2, SavedKeeps
<1>4. m \in Letters /\ 1 \in DOMAIN arrived /\ arrived[1] = m
  BY <1>1, TakesFacts
<1>5. lastId > 0
  BY <1>1, <1>2, <1>4 DEF IdsOK, Letters, WireOK
<1>6. wanted \in DOMAIN surfaces /\ wanted' = wanted
  BY <1>1, <1>5 DEF OpenOK
<1>7. CASE m.key \in Foreign
  <2>1. surfaces' = [surfaces EXCEPT ![wanted].failed = TRUE] /\ loading' = loading
    BY <1>7 DEF TakeModule
  <2>2. PICK s : s = [surfaces[wanted] EXCEPT !.failed = TRUE]
    OBVIOUS
  <2>3. s \in OpenSurfaces /\ s.runner = surfaces[wanted].runner /\ s.failed
    BY <1>1, <1>6, <2>2, OpenIs DEF OpenSurfaces
  <2>4. Turns(wanted, s)
    BY <2>1, <2>2 DEF Turns
  <2>5. RunnerOK(s.runner)
    BY <1>1, <1>6, <2>3 DEF RunnersOK
  <2>6. /\ OpenOK' /\ RunnersOK' /\ DOMAIN surfaces' = DOMAIN surfaces /\ surfaces'[wanted] = s
        /\ \A k \in DOMAIN surfaces : k # wanted => surfaces'[k] = surfaces[k]
    BY <1>1, <1>6, <2>1, <2>3, <2>4, <2>5, TurnsInto DEF OpenOK
  <2>7. ~ Runs(wanted)'
    BY <1>6, <2>3, <2>6 DEF Runs
  <2>8. FollowsOK'
    BY <1>1, <1>2, <2>6, <2>7, OthersGoOn
  <2> QED BY <1>3, <2>6, <2>8 DEF WindowInv
<1>8. CASE m.key \notin Foreign
  <2>1. surfaces' = surfaces /\ loading' = loading \cup {[key |-> wanted, module |-> m.key, nr |-> m.id]}
    BY <1>8 DEF TakeModule
  <2>2. [key |-> wanted, module |-> m.key, nr |-> m.id] \in Loads(DOMAIN surfaces)
    BY <1>4, <1>6 DEF Loads, Letters
  <2>3. OpenOK'
    BY <1>1, <1>6, <2>1, <2>2 DEF OpenOK
  <2>4. RunnersOK'
    BY <1>1, <2>1 DEF RunnersOK
  <2>5. FollowsOK'
    BY <1>1, <1>2, <2>1, OthersGoOn
  <2> QED BY <1>3, <2>3, <2>4, <2>5 DEF WindowInv
<1> QED BY <1>7, <1>8

LEMMA TakeOtherStep ==
  ASSUME WindowInv, NEW m, Takes(m), Saved(m), TakeOther(m), UNCHANGED <<boards, wanted, edits, refused>>
  PROVE  WindowInv'
<1>1. WireOK /\ OpenOK /\ RunnersOK /\ FollowsOK
  BY DEF WindowInv
<1>2. m.kind # "changed" /\ m.kind # "json" /\ UNCHANGED <<surfaces, loading, toCore, lastId>>
  BY DEF TakeOther
<1>3. OnlyAsks(0) /\ AsksMore(0)
  BY <1>1, <1>2, SendsNone, SMT DEF OnlyAsks
<1>4. WireOK' /\ IdsOK' /\ LettersOK' /\ WriteOK'
  BY <1>3, SavedKeeps
<1>5. OpenOK' /\ RunnersOK'
  BY <1>1, <1>2 DEF OpenOK, RunnersOK
<1>6. FollowsOK'
  BY <1>1, <1>2, <1>3, OthersGoOn
<1> QED BY <1>4, <1>5, <1>6 DEF WindowInv

LEMMA TakeJsonStep ==
  ASSUME WindowInv, NEW m, Takes(m), Saved(m), TakeJson(m), UNCHANGED <<boards, wanted, edits, refused>>
  PROVE  WindowInv'
<1>1. WireOK /\ OpenOK /\ LettersOK /\ RunnersOK /\ FollowsOK
  BY DEF WindowInv
<1>2. /\ m.kind = "json" /\ surfaces' = [surfaces EXCEPT ![m.key].runner = SetDoc(@, m.doc)]
      /\ UNCHANGED <<loading, toCore, lastId>>
  BY DEF TakeJson
<1>3. OnlyAsks(0) /\ AsksMore(0)
  BY <1>1, <1>2, SendsNone, SMT DEF OnlyAsks
<1>4. WireOK' /\ IdsOK' /\ LettersOK' /\ WriteOK'
  BY <1>3, SavedKeeps
<1>5. m.doc \in Nat \ {0}
  BY <1>1, <1>2, TakesFacts DEF LettersOK, Letters
<1>6. CASE m.key \in DOMAIN surfaces
  <2>1. PICK key \in DOMAIN surfaces : key = m.key
    BY <1>6
  <2>2. /\ surfaces[key] \in OpenSurfaces /\ surfaces[key].runner \in Runners
        /\ wanted' \in DOMAIN surfaces /\ loading' \subseteq Loads(DOMAIN surfaces)
        /\ RunnerOK(surfaces[key].runner)
    BY <1>1, <1>2, OpenIs DEF OpenOK, RunnersOK
  <2>3. PICK r \in Runners : r = SetDoc(surfaces[key].runner, m.doc)
    BY <1>5, <2>2, SetDocOK
  <2>4. PICK s : s = [surfaces[key] EXCEPT !.runner = r]
    OBVIOUS
  <2>5. s \in OpenSurfaces /\ s.runner = r /\ (s.failed <=> surfaces[key].failed)
    BY <2>2, <2>4, WithRunner
  <2>6. Turns(key, s)
    BY <1>2, <2>1, <2>3, <2>4 DEF Turns
  <2>7. RunnerOK(s.runner)
    BY <1>5, <2>2, <2>3, <2>5, SetDocOK
  <2>8. /\ OpenOK' /\ RunnersOK' /\ DOMAIN surfaces' = DOMAIN surfaces /\ surfaces'[key] = s
        /\ \A k \in DOMAIN surfaces : k # key => surfaces'[k] = surfaces[k]
    BY <1>1, <2>2, <2>5, <2>6, <2>7, TurnsInto
  <2>9. ASSUME NEW k \in DOMAIN surfaces, k \notin refused, Runs(k)' PROVE Follows(k)'
    <3>1. CASE k = key
      <4>1. s.runner # NoRunner /\ ~ s.failed
        BY <2>8, <2>9, <3>1 DEF Runs
      <4>2. surfaces[key].runner # NoRunner
        BY <2>3, <2>5, <4>1 DEF SetDoc
      <4>3. Runs(key)
        BY <2>5, <4>1, <4>2 DEF Runs
      <4>4. Follows(key)
        BY <1>1, <2>9, <3>1, <4>3 DEF FollowsOK
      <4>5. s.runner.received /\ s.runner.last = m.doc
        BY <1>5, <2>2, <2>3, <2>5, <4>2, SetDocOK
      <4>6. IsJson(m, key)
        BY <1>2, <2>1 DEF IsJson
      <4> QED BY <1>1, <1>3, <2>8, <3>1, <4>4, <4>5, <4>6, FollowIsGiven
    <3>2. CASE k # key
      <4>1. surfaces'[k] = surfaces[k]
        BY <2>8, <3>2
      <4>2. Runs(k)
        BY <2>9, <4>1 DEF Runs
      <4>3. Follows(k) /\ ~ IsJson(m, k)
        BY <1>1, <2>1, <2>9, <3>2, <4>2 DEF FollowsOK, IsJson
      <4> QED BY <1>1, <1>2, <1>3, <4>1, <4>3, FollowGoesOn DEF Held
    <3> QED BY <3>1, <3>2
  <2>10. FollowsOK'
    BY <2>8, <2>9 DEF FollowsOK
  <2> QED BY <1>4, <2>8, <2>10 DEF WindowInv
<1>7. CASE m.key \notin DOMAIN surfaces
  <2>1. surfaces' = surfaces
    BY <1>1, <1>2, <1>7 DEF OpenOK
  <2>2. OpenOK' /\ RunnersOK'
    BY <1>1, <1>2, <2>1 DEF OpenOK, RunnersOK
  <2>3. ASSUME NEW k \in DOMAIN surfaces, k \notin refused, Runs(k)' PROVE Follows(k)'
    <3>1. Follows(k) /\ ~ IsJson(m, k)
      BY <1>1, <1>7, <2>1, <2>3 DEF FollowsOK, IsJson, Runs
    <3> QED BY <1>1, <1>2, <1>3, <2>1, <3>1, FollowGoesOn DEF Held
  <2>4. FollowsOK'
    BY <2>1, <2>3 DEF FollowsOK
  <2> QED BY <1>4, <2>2, <2>4 DEF WindowInv
<1> QED BY <1>6, <1>7

LEMMA TakeChangeStep ==
  ASSUME WindowInv, NEW m, Takes(m), Saved(m), TakeChange(m), UNCHANGED <<boards, wanted, edits, refused>>
  PROVE  WindowInv'
<1>1. WireOK /\ OpenOK /\ RunnersOK /\ FollowsOK
  BY DEF WindowInv
<1>2. PICK n \in Nat : n = Cardinality(DOMAIN surfaces)
  BY <1>1, FS_CardinalityType DEF OpenOK
<1>3. PICK order \in [1 .. n -> DOMAIN surfaces] :
        /\ \A k \in DOMAIN surfaces : \E i \in DOMAIN order : order[i] = k
        /\ toCore' = toCore \o [i \in DOMAIN order |-> Letter(lastId + i, "json", order[i], 0)]
  BY <1>2 DEF TakeChange
<1>4. lastId' = lastId + n /\ UNCHANGED <<surfaces, loading>>
  BY <1>2 DEF TakeChange
<1>5. PICK asks : asks = [i \in 1 .. n |-> Letter(lastId + i, "json", order[i], 0)]
  OBVIOUS
<1>6. /\ asks \in Seq(Requests) /\ Len(asks) = n
      /\ \A i \in 1 .. n : asks[i] = Letter(lastId + i, "json", order[i], 0)
  <2>1. \A i \in 1 .. n : Letter(lastId + i, "json", order[i], 0) \in Requests
    BY <1>1, <1>3 DEF WireOK, OpenOK, Letter, Requests
  <2>2. asks \in [1 .. n -> Requests]
    BY <1>5, <2>1
  <2>3. asks \in Seq(Requests) /\ Len(asks) = n
    BY <1>2, <2>2, SMT
  <2> QED BY <1>5, <2>3
<1>7. /\ toCore' \in Seq(Requests) /\ Len(toCore') = Len(toCore) + n
      /\ \A i \in 1 .. Len(toCore) : toCore'[i] = toCore[i]
      /\ \A i \in 1 .. n : toCore'[Len(toCore) + i] = asks[i] /\ Len(toCore) + i \in DOMAIN toCore'
  <2>1. toCore' = toCore \o asks
    BY <1>3, <1>5
  <2>2. toCore \in Seq(Requests) /\ asks \in Seq(Requests) /\ Len(toCore) \in Nat
    BY <1>1, <1>6, LenProperties DEF WireOK
  <2>3. /\ toCore' \in Seq(Requests) /\ Len(toCore') = Len(toCore) + n
        /\ \A i \in 1 .. Len(toCore) + n :
             toCore'[i] = IF i <= Len(toCore) THEN toCore[i] ELSE asks[i - Len(toCore)]
    BY <1>6, <2>1, <2>2, ConcatProperties
  <2>4. DOMAIN toCore' = 1 .. Len(toCore')
    BY <2>3, LenProperties
  <2>5. PICK L \in Nat : L = Len(toCore)
    BY <2>2
  <2>6. \A i \in 1 .. L : toCore'[i] = toCore[i]
    <3> TAKE i \in 1 .. L
    <3>1. n \in Nat /\ i \in 1 .. L + n /\ i <= L
      BY <1>2, <2>5
    <3> QED BY <2>3, <2>5, <3>1
  <2>7. \A i \in 1 .. n : toCore'[L + i] = asks[i] /\ L + i \in DOMAIN toCore'
    <3> TAKE i \in 1 .. n
    <3>1. L + i \in 1 .. L + n /\ ~ (L + i <= L) /\ (L + i) - L = i
      BY <1>2, <2>5
    <3>2. toCore'[L + i] = asks[(L + i) - L]
      BY <2>3, <2>5, <3>1
    <3>3. L + i \in DOMAIN toCore'
      BY <2>3, <2>4, <2>5, <3>1
    <3> QED BY <3>1, <3>2, <3>3
  <2>8. \A i \in 1 .. Len(toCore) : toCore'[i] = toCore[i]
    BY <2>5, <2>6, Zenon
  <2>9. \A i \in 1 .. n : toCore'[Len(toCore) + i] = asks[i] /\ Len(toCore) + i \in DOMAIN toCore'
    BY <2>5, <2>7, Zenon
  <2> QED BY <2>3, <2>8, <2>9, Zenon
<1>8. OnlyAsks(n) /\ AsksMore(n)
  <2>1. \A i \in 1 .. n : toCore'[Len(toCore) + i].id = lastId + i /\ toCore'[Len(toCore) + i].kind = "json"
    <3> TAKE i \in 1 .. n
    <3>1. asks[i].id = lastId + i /\ asks[i].kind = "json"
      BY <1>6 DEF Letter
    <3> QED BY <1>7, <3>1, Zenon
  <2> QED BY <1>4, <1>7, <2>1 DEF OnlyAsks, AsksMore
<1>9. WireOK' /\ IdsOK' /\ LettersOK' /\ WriteOK'
  BY <1>8, SavedKeeps
<1>10. OpenOK' /\ RunnersOK'
  <2>1. wanted' = wanted /\ (lastId' > 0 => lastId > 0 \/ DOMAIN surfaces # {})
    <3>1. DOMAIN surfaces = {} => n = 0
      BY <1>2, FS_EmptySet
    <3> QED BY <1>1, <1>4, <3>1 DEF WireOK
  <2> QED BY <1>1, <1>4, <2>1 DEF OpenOK, RunnersOK
<1>11. \A k \in DOMAIN surfaces : Asked(k)'
  <2> SUFFICES ASSUME NEW k \in DOMAIN surfaces PROVE Asked(k)'
    OBVIOUS
  <2>1. PICK i \in 1 .. n : order[i] = k
    BY <1>3
  <2>2. toCore'[Len(toCore) + i].kind = "json" /\ toCore'[Len(toCore) + i].key = k
    BY <1>6, <1>7, <2>1 DEF Letter
  <2> QED BY <1>7, <2>2 DEF Asked
<1>12. FollowsOK'
  BY <1>4, <1>11 DEF FollowsOK, Follows
<1> QED BY <1>9, <1>10, <1>12 DEF WindowInv

LEMMA DrainStep ==
  ASSUME WindowInv, Drain
  PROVE  WindowInv'
<1>1. PICK m : m = Head(arrived)
  OBVIOUS
<1>2. Takes(m)
  <2>1. arrived \in Seq(Letters) /\ arrived # <<>>
    BY DEF Drain, WindowInv, WireOK
  <2>2. m = arrived[1]
    BY <1>1, <2>1, HeadTailProperties
  <2> QED BY <2>1, <2>2 DEF Takes, Drain
<1>3. Saved(m) /\ UNCHANGED <<boards, wanted, edits, refused>>
      /\ (TakeModule(m) \/ TakeJson(m) \/ TakeChange(m) \/ TakeOther(m))
  BY <1>1 DEF Drain
<1> QED BY <1>2, <1>3, TakeModuleStep, TakeJsonStep, TakeChangeStep, TakeOtherStep

-----------------------------------------------------------------------------
(* Core.                                                                   *)

\* Core takes the first request.
Served(m) == toCore # <<>> /\ toCore' = Tail(toCore) /\ m = toCore[1] /\ lastId' = lastId

\* New letters behind those that have arrived: told to everybody, or answers
\* to m.
Arrives(m) ==
  /\ arrived' \in Seq(Letters)
  /\ \A i \in DOMAIN arrived : i \in DOMAIN arrived' /\ arrived'[i] = arrived[i]
  /\ \A i \in DOMAIN arrived' \ DOMAIN arrived :
       /\ arrived'[i].id \in {0, m.id}
       /\ arrived'[i].kind = "module" => arrived'[i].id = m.id
       /\ arrived'[i].kind = "json" => arrived'[i].doc # 0

LEMMA ServedFacts ==
  ASSUME WireOK, NEW m, Served(m)
  PROVE  /\ 1 \in DOMAIN toCore /\ m \in Requests /\ toCore[1] = m /\ toCore' \in Seq(Requests)
         /\ \A i \in DOMAIN toCore' : i \in Nat \ {0} /\ i + 1 \in DOMAIN toCore /\ toCore'[i] = toCore[i + 1]
         /\ \A i \in DOMAIN toCore : i # 1 => i - 1 \in DOMAIN toCore' /\ toCore'[i - 1] = toCore[i]
         /\ DOMAIN toCore \subseteq Nat
<1>1. toCore \in Seq(Requests) /\ toCore # <<>> /\ toCore' = Tail(toCore) /\ m = toCore[1]
  BY DEF WireOK, Served
<1>2. /\ Len(toCore) \in Nat \ {0} /\ DOMAIN toCore = 1 .. Len(toCore)
      /\ toCore' \in Seq(Requests) /\ Len(toCore') = Len(toCore) - 1
      /\ \A i \in 1 .. Len(toCore') : toCore'[i] = toCore[i + 1]
  BY <1>1, HeadTailProperties, LenProperties, EmptySeq
<1>3. DOMAIN toCore' = 1 .. Len(toCore')
  BY <1>2, LenProperties
<1>4. \A i \in DOMAIN toCore' : i \in Nat \ {0} /\ i + 1 \in DOMAIN toCore /\ toCore'[i] = toCore[i + 1]
  BY <1>2, <1>3, SMT
<1>5. \A i \in DOMAIN toCore : i # 1 => i - 1 \in DOMAIN toCore' /\ toCore'[i - 1] = toCore[i]
  BY <1>2, <1>3, SMT
<1>6. 1 \in DOMAIN toCore /\ DOMAIN toCore \subseteq Nat
  BY <1>2, SMT
<1>7. m \in Requests
  BY <1>1, <1>6, Elements DEF WireOK
<1> QED BY <1>1, <1>2, <1>4, <1>5, <1>6, <1>7

LEMMA ServedIs ==
  ASSUME WireOK, LettersOK, NEW m, Served(m)
  PROVE  /\ m.id \in Nat /\ m.key \in Keys /\ m.doc \in Nat /\ (m.kind = "write" => m.doc # 0)
         /\ toCore' \in Seq(Requests) /\ lastId' = lastId
<1>1. 1 \in DOMAIN toCore /\ m \in Requests /\ toCore[1] = m /\ toCore' \in Seq(Requests)
  BY ServedFacts
<1>2. m.id \in Nat /\ m.key \in Keys /\ m.doc \in Nat
  BY <1>1 DEF Requests
<1> QED BY <1>1, <1>2 DEF LettersOK, Served

LEMMA LetterIs ==
  ASSUME NEW id \in Nat, NEW kind \in {"module", "json", "changed", "done", "error"},
         NEW key \in Keys, NEW doc \in Nat
  PROVE  /\ Letter(id, kind, key, doc) \in Letters
         /\ Letter(id, kind, key, doc).id = id /\ Letter(id, kind, key, doc).kind = kind
         /\ Letter(id, kind, key, doc).key = key /\ Letter(id, kind, key, doc).doc = doc
BY DEF Letter, Letters

LEMMA ServedKeeps ==
  ASSUME WireOK, IdsOK, LettersOK, WriteOK, NEW m, Served(m), Arrives(m), UNCHANGED <<unsaved, writing>>
  PROVE  IdsOK' /\ LettersOK' /\ WriteOK'
<1>1. /\ 1 \in DOMAIN toCore /\ m \in Requests /\ toCore[1] = m /\ DOMAIN toCore \subseteq Nat
      /\ \A i \in DOMAIN toCore' : i \in Nat \ {0} /\ i + 1 \in DOMAIN toCore /\ toCore'[i] = toCore[i + 1]
      /\ \A i \in DOMAIN toCore : i # 1 => i - 1 \in DOMAIN toCore' /\ toCore'[i - 1] = toCore[i]
  BY ServedFacts
<1>2. lastId' = lastId /\ lastId \in Nat /\ m.id \in Nat /\ m.id > 0 /\ m.id <= lastId
  BY <1>1 DEF Served, WireOK, IdsOK, Requests
<1>3. \A i \in DOMAIN arrived' : \/ i \in DOMAIN arrived /\ arrived'[i] = arrived[i]
                                 \/ i \in DOMAIN arrived' \ DOMAIN arrived
  BY DEF Arrives
<1>4. \A i \in DOMAIN toCore' : m.id < toCore'[i].id /\ toCore'[i].id \in Nat
  <2>1. ASSUME NEW i \in DOMAIN toCore' PROVE m.id < toCore'[i].id /\ toCore'[i].id \in Nat
    <3>1. i + 1 \in DOMAIN toCore /\ 1 < i + 1 /\ toCore'[i] = toCore[i + 1]
      BY <1>1
    <3> QED BY <1>1, <3>1, Elements DEF IdsOK, Requests
  <2> QED BY <2>1
<1>5. \A i \in DOMAIN toCore' : toCore'[i].id > 0 /\ toCore'[i].id <= lastId'
  BY <1>1, <1>2 DEF IdsOK
<1>6. \A i, j \in DOMAIN toCore' : i < j => toCore'[i].id < toCore'[j].id
  <2>1. ASSUME NEW i \in DOMAIN toCore', NEW j \in DOMAIN toCore', i < j
        PROVE  toCore'[i].id < toCore'[j].id
    <3>1. /\ i + 1 \in DOMAIN toCore /\ j + 1 \in DOMAIN toCore /\ i + 1 < j + 1
          /\ toCore'[i] = toCore[i + 1] /\ toCore'[j] = toCore[j + 1]
      BY <1>1, <2>1
    <3> QED BY <3>1 DEF IdsOK
  <2> QED BY <2>1
<1>7. \A i \in DOMAIN arrived' : arrived'[i].id <= lastId' /\ \A j \in DOMAIN toCore' : arrived'[i].id < toCore'[j].id
  <2>1. ASSUME NEW i \in DOMAIN arrived'
        PROVE  arrived'[i].id <= lastId' /\ \A j \in DOMAIN toCore' : arrived'[i].id < toCore'[j].id
    <3>1. CASE i \in DOMAIN arrived /\ arrived'[i] = arrived[i]
      BY <1>1, <1>2, <3>1 DEF IdsOK
    <3>2. CASE i \in DOMAIN arrived' \ DOMAIN arrived
      <4>1. arrived'[i].id = 0 \/ arrived'[i].id = m.id
        BY <3>2 DEF Arrives
      <4> QED BY <1>2, <1>4, <4>1
    <3> QED BY <1>3, <3>1, <3>2
  <2> QED BY <2>1
<1>8. \A i \in DOMAIN arrived' : /\ arrived'[i].kind = "module" => arrived'[i].id # 0
                                 /\ arrived'[i].kind = "json" => arrived'[i].doc # 0
  BY <1>2, <1>3 DEF Arrives, IdsOK, LettersOK
<1>9. IdsOK'
  BY <1>5, <1>6, <1>7, <1>8 DEF IdsOK
<1>10. LettersOK'
  BY <1>1, <1>8 DEF LettersOK
<1>11. ASSUME NEW j \in DOMAIN toCore', toCore'[j].kind = "write"
       PROVE  WriteOK'
  <2>1. j + 1 \in DOMAIN toCore /\ toCore[j + 1].kind = "write" /\ toCore[j + 1] = toCore'[j]
    BY <1>1, <1>11
  <2>2. /\ unsaved /\ \E k \in DOMAIN toCore : toCore[k].id = writing
        /\ \A k \in DOMAIN toCore : toCore[k].kind = "write" => toCore[k].id <= writing
    BY <2>1 DEF WriteOK
  <2>3. PICK k \in DOMAIN toCore : toCore[k].id = writing
    BY <2>2
  <2>4. k # 1
    <3>1. m.id < toCore[j + 1].id /\ toCore[j + 1].id <= writing /\ toCore[j + 1].id \in Nat /\ writing \in Nat
      BY <1>4, <2>1, <2>2 DEF WireOK
    <3>2. m.id # writing
      BY <1>2, <3>1
    <3> QED BY <1>1, <2>3, <3>2
  <2>5. k - 1 \in DOMAIN toCore' /\ toCore'[k - 1].id = writing
    BY <1>1, <2>3, <2>4
  <2>6. \A i \in DOMAIN toCore' : toCore'[i].kind = "write" => toCore'[i].id <= writing
    BY <1>1, <2>2
  <2> QED BY <2>2, <2>5, <2>6 DEF WriteOK
<1>12. WriteOK'
  BY <1>11 DEF WriteOK
<1> QED BY <1>9, <1>10, <1>12

\* Whoever was followed is, when this was not a request for it and it was
\* sent nothing.
LEMMA ServedFollows ==
  ASSUME WireOK, NEW m, Served(m), Arrives(m), surfaces' = surfaces,
         NEW key \in DOMAIN surfaces, boards'[key] = boards[key], Follows(key),
         ~ (m.kind \in {"json", "write"} /\ m.key = key),
         \A i \in DOMAIN arrived' \ DOMAIN arrived : ~ IsJson(arrived'[i], key)
  PROVE  Follows(key)'
<1>1. /\ toCore[1] = m
      /\ \A i \in DOMAIN toCore : i # 1 => i - 1 \in DOMAIN toCore' /\ toCore'[i - 1] = toCore[i]
  BY ServedFacts
<1>2. /\ \A i \in DOMAIN arrived : i \in DOMAIN arrived' /\ arrived'[i] = arrived[i]
      /\ \A i \in DOMAIN arrived' : IsJson(arrived'[i], key) => i \in DOMAIN arrived
  BY DEF Arrives
<1>3. CASE Asked(key)
  <2>1. PICK i \in DOMAIN toCore : toCore[i].kind \in {"json", "write"} /\ toCore[i].key = key
    BY <1>3 DEF Asked
  <2>2. i # 1
    BY <1>1, <2>1
  <2>3. i - 1 \in DOMAIN toCore' /\ toCore'[i - 1] = toCore[i]
    BY <1>1, <2>2
  <2>4. Asked(key)'
    BY <2>1, <2>3 DEF Asked
  <2> QED BY <2>4 DEF Follows
<1>4. CASE Changed
  BY <1>2, <1>4 DEF Changed, Follows
<1>5. CASE Brought(key)
  <2>1. PICK i \in DOMAIN arrived :
          /\ IsJson(arrived[i], key) /\ arrived[i].doc = boards[key]
          /\ \A j \in DOMAIN arrived : IsJson(arrived[j], key) => j <= i
    BY <1>5 DEF Brought
  <2>2. Brought(key)'
    BY <1>2, <2>1 DEF Brought
  <2> QED BY <2>2 DEF Follows
<1>6. CASE Held(key)
  BY <1>2, <1>6 DEF Held, Follows
<1> QED BY <1>3, <1>4, <1>5, <1>6 DEF Follows

\* One answer, or a word to everybody.
LEMMA OneArrives ==
  ASSUME WireOK, NEW m, NEW id \in Nat, NEW kind \in {"module", "json", "changed", "done", "error"},
         NEW key \in Keys, NEW doc \in Nat, arrived' = Append(arrived, Letter(id, kind, key, doc)),
         id \in {0, m.id}, kind = "module" => id = m.id, kind = "json" => doc # 0
  PROVE  /\ Arrives(m)
         /\ Len(arrived) + 1 \in DOMAIN arrived'
         /\ arrived'[Len(arrived) + 1] = Letter(id, kind, key, doc)
         /\ \A i \in DOMAIN arrived' \ DOMAIN arrived : i = Len(arrived) + 1
         /\ \A i \in DOMAIN arrived' : i <= Len(arrived) + 1
<1>1. PICK l \in Letters : /\ l = Letter(id, kind, key, doc) /\ l.id = id /\ l.kind = kind
                           /\ l.key = key /\ l.doc = doc
  BY DEF Letter, Letters
<1>2. arrived \in Seq(Letters) /\ arrived' = Append(arrived, l)
  BY <1>1 DEF WireOK
<1>3. /\ arrived' \in Seq(Letters) /\ Len(arrived') = Len(arrived) + 1 /\ Len(arrived) \in Nat
      /\ DOMAIN arrived' = 1 .. Len(arrived) + 1 /\ DOMAIN arrived = 1 .. Len(arrived)
      /\ arrived'[Len(arrived) + 1] = l
      /\ \A i \in 1 .. Len(arrived) : arrived'[i] = arrived[i]
  BY <1>2, SMT
<1>4. \A i \in DOMAIN arrived' \ DOMAIN arrived : i = Len(arrived) + 1
  BY <1>3, SMT
<1>5. \A i \in DOMAIN arrived : i \in DOMAIN arrived' /\ arrived'[i] = arrived[i]
  BY <1>3, SMT
<1>6. Arrives(m)
  BY <1>1, <1>3, <1>4, <1>5 DEF Arrives
<1>7. Len(arrived) + 1 \in DOMAIN arrived' /\ \A i \in DOMAIN arrived' : i <= Len(arrived) + 1
  BY <1>3, SMT
<1> QED BY <1>1, <1>3, <1>4, <1>6, <1>7

LEMMA CoreModuleStep ==
  ASSUME WindowInv, NEW m, Served(m), CoreModule(m),
         UNCHANGED <<surfaces, loading, wanted, unsaved, writing, edits>>
  PROVE  WindowInv'
<1>1. WireOK /\ OpenOK /\ IdsOK /\ LettersOK /\ WriteOK /\ RunnersOK /\ FollowsOK
  BY DEF WindowInv
<1>2. m.id \in Nat /\ m.key \in Keys /\ m.kind = "module" /\ toCore' \in Seq(Requests)
  BY <1>1, ServedIs DEF CoreModule
<1>3. PICK kind \in {"module", "error"} : arrived' = Append(arrived, Letter(m.id, kind, m.key, 0))
  BY DEF CoreModule, Answers
<1>4. /\ Arrives(m)
      /\ \A i \in DOMAIN arrived' \ DOMAIN arrived : arrived'[i] = Letter(m.id, kind, m.key, 0)
  BY <1>1, <1>2, <1>3, OneArrives
<1>5. boards' = boards /\ refused' = refused /\ lastId' = lastId
  BY DEF CoreModule, Served
<1>6. IdsOK' /\ LettersOK' /\ WriteOK'
  BY <1>1, <1>4, ServedKeeps
<1>7. WireOK' /\ OpenOK' /\ RunnersOK'
  BY <1>1, <1>2, <1>4, <1>5 DEF WireOK, OpenOK, RunnersOK, Arrives
<1>8. ASSUME NEW key \in DOMAIN surfaces, key \notin refused, Runs(key)' PROVE Follows(key)'
  <2>1. Follows(key)
    BY <1>1, <1>8 DEF FollowsOK, Runs
  <2>2. \A i \in DOMAIN arrived' \ DOMAIN arrived : ~ IsJson(arrived'[i], key)
    BY <1>3, <1>4 DEF IsJson, Letter
  <2> QED BY <1>1, <1>2, <1>4, <1>5, <2>1, <2>2, ServedFollows
<1>9. FollowsOK'
  BY <1>5, <1>8 DEF FollowsOK
<1> QED BY <1>6, <1>7, <1>9 DEF WindowInv

LEMMA CoreJsonStep ==
  ASSUME WindowInv, NEW m, Served(m), CoreJson(m),
         UNCHANGED <<surfaces, loading, wanted, unsaved, writing, edits>>
  PROVE  WindowInv'
<1>1. WireOK /\ OpenOK /\ IdsOK /\ LettersOK /\ WriteOK /\ RunnersOK /\ FollowsOK
  BY DEF WindowInv
<1>2. m.id \in Nat /\ m.key \in Keys /\ m.kind = "json" /\ toCore' \in Seq(Requests)
  BY <1>1, ServedIs DEF CoreJson
<1>3. boards[m.key] \in Nat \ {0}
  BY <1>1, <1>2 DEF WireOK
<1>4. arrived' = Append(arrived, Letter(m.id, "json", m.key, boards[m.key]))
  BY DEF CoreJson, Answers
<1>5. /\ Arrives(m) /\ Len(arrived) + 1 \in DOMAIN arrived'
      /\ arrived'[Len(arrived) + 1] = Letter(m.id, "json", m.key, boards[m.key])
      /\ \A i \in DOMAIN arrived' \ DOMAIN arrived : i = Len(arrived) + 1
      /\ \A i \in DOMAIN arrived' : i <= Len(arrived) + 1
  BY <1>1, <1>2, <1>3, <1>4, OneArrives
<1>6. boards' = boards /\ refused' = refused /\ lastId' = lastId
  BY DEF CoreJson, Served
<1>7. IdsOK' /\ LettersOK' /\ WriteOK'
  BY <1>1, <1>5, ServedKeeps
<1>8. WireOK' /\ OpenOK' /\ RunnersOK'
  BY <1>1, <1>2, <1>5, <1>6 DEF WireOK, OpenOK, RunnersOK, Arrives
<1>9. ASSUME NEW key \in DOMAIN surfaces, key \notin refused, Runs(key)' PROVE Follows(key)'
  <2>1. CASE key = m.key
    <3>1. IsJson(arrived'[Len(arrived) + 1], key) /\ arrived'[Len(arrived) + 1].doc = boards'[key]
      BY <1>5, <1>6, <2>1 DEF IsJson, Letter
    <3>2. Brought(key)'
      BY <1>5, <3>1 DEF Brought
    <3> QED BY <3>2 DEF Follows
  <2>2. CASE key # m.key
    <3>1. Follows(key)
      BY <1>1, <1>9 DEF FollowsOK, Runs
    <3>2. \A i \in DOMAIN arrived' \ DOMAIN arrived : ~ IsJson(arrived'[i], key)
      BY <1>5, <2>2 DEF IsJson, Letter
    <3> QED BY <1>1, <1>5, <1>6, <2>2, <3>1, <3>2, ServedFollows
  <2> QED BY <2>1, <2>2
<1>10. FollowsOK'
  BY <1>6, <1>9 DEF FollowsOK
<1> QED BY <1>7, <1>8, <1>10 DEF WindowInv

LEMMA CoreWriteStep ==
  ASSUME WindowInv, NEW m, Served(m), CoreWrite(m),
         UNCHANGED <<surfaces, loading, wanted, unsaved, writing, edits>>
  PROVE  WindowInv'
<1>1. WireOK /\ OpenOK /\ IdsOK /\ LettersOK /\ WriteOK /\ RunnersOK /\ FollowsOK
  BY DEF WindowInv
<1>2. /\ m.id \in Nat /\ m.key \in Keys /\ m.kind = "write" /\ toCore' \in Seq(Requests)
      /\ m.doc \in Nat \ {0} /\ lastId' = lastId
  BY <1>1, ServedIs DEF CoreWrite
<1>3. CASE /\ boards' = [boards EXCEPT ![m.key] = m.doc]
           /\ arrived' = arrived \o <<Letter(0, "changed", m.key, 0), Letter(m.id, "done", m.key, 0)>>
           /\ refused' = refused \ {m.key}
  <2>1. PICK first \in Letters : first = Letter(0, "changed", m.key, 0) /\ first.id = 0 /\ first.kind = "changed"
    BY <1>2, LetterIs
  <2>2. PICK second \in Letters : second = Letter(m.id, "done", m.key, 0) /\ second.id = m.id /\ second.kind = "done"
    BY <1>2, LetterIs
  <2>3. arrived' = arrived \o <<first, second>> /\ arrived \in Seq(Letters)
    BY <1>1, <1>3, <2>1, <2>2 DEF WireOK
  <2>4. /\ arrived' \in Seq(Letters) /\ Len(arrived) \in Nat
        /\ DOMAIN arrived' = 1 .. Len(arrived) + 2 /\ DOMAIN arrived = 1 .. Len(arrived)
        /\ arrived'[Len(arrived) + 1] = first /\ arrived'[Len(arrived) + 2] = second
        /\ \A i \in 1 .. Len(arrived) : arrived'[i] = arrived[i]
    BY <2>3, SMT
  <2>5. \A i \in DOMAIN arrived' \ DOMAIN arrived : i = Len(arrived) + 1 \/ i = Len(arrived) + 2
    BY <2>4, SMT
  <2>6. \A i \in DOMAIN arrived : i \in DOMAIN arrived' /\ arrived'[i] = arrived[i]
    BY <2>4, SMT
  <2>7. Arrives(m)
    BY <2>1, <2>2, <2>4, <2>5, <2>6 DEF Arrives
  <2>8. IdsOK' /\ LettersOK' /\ WriteOK'
    BY <1>1, <2>7, ServedKeeps
  <2>9. WireOK'
    BY <1>1, <1>2, <1>3, <2>4 DEF WireOK
  <2>10. OpenOK' /\ RunnersOK'
    BY <1>1, <1>2 DEF OpenOK, RunnersOK
  <2>11. Changed'
    BY <2>1, <2>4, SMT DEF Changed
  <2>12. FollowsOK'
    BY <2>11 DEF FollowsOK, Follows
  <2> QED BY <2>8, <2>9, <2>10, <2>12 DEF WindowInv
<1>4. CASE arrived' = Answers(m, "error", 0) /\ refused' = refused \cup {m.key} /\ UNCHANGED boards
  <2>1. /\ Arrives(m)
        /\ \A i \in DOMAIN arrived' \ DOMAIN arrived : arrived'[i] = Letter(m.id, "error", m.key, 0)
    BY <1>1, <1>2, <1>4, OneArrives DEF Answers
  <2>2. IdsOK' /\ LettersOK' /\ WriteOK'
    BY <1>1, <2>1, ServedKeeps
  <2>3. WireOK' /\ OpenOK' /\ RunnersOK'
    BY <1>1, <1>2, <1>4, <2>1 DEF WireOK, OpenOK, RunnersOK, Arrives
  <2>4. ASSUME NEW key \in DOMAIN surfaces, key \notin refused', Runs(key)' PROVE Follows(key)'
    <3>1. key \notin refused /\ key # m.key
      BY <1>4, <2>4
    <3>2. Follows(key)
      BY <1>1, <2>4, <3>1 DEF FollowsOK, Runs
    <3>3. \A i \in DOMAIN arrived' \ DOMAIN arrived : ~ IsJson(arrived'[i], key)
      BY <2>1 DEF IsJson, Letter
    <3> QED BY <1>1, <1>4, <2>1, <3>1, <3>2, <3>3, ServedFollows
  <2>5. FollowsOK'
    BY <2>4 DEF FollowsOK
  <2> QED BY <2>2, <2>3, <2>5 DEF WindowInv
<1> QED BY <1>3, <1>4 DEF CoreWrite

LEMMA CoreStep ==
  ASSUME WindowInv, Core
  PROVE  WindowInv'
<1>1. PICK m : m = Head(toCore)
  OBVIOUS
<1>2. Served(m)
  <2>1. toCore \in Seq(Requests) /\ toCore # <<>>
    BY DEF Core, WindowInv, WireOK
  <2>2. m = toCore[1]
    BY <1>1, <2>1, HeadTailProperties
  <2> QED BY <2>1, <2>2 DEF Served, Core
<1>3. UNCHANGED <<surfaces, loading, wanted, unsaved, writing, edits>>
      /\ (CoreModule(m) \/ CoreJson(m) \/ CoreWrite(m))
  BY <1>1 DEF Core
<1> QED BY <1>2, <1>3, CoreModuleStep, CoreJsonStep, CoreWriteStep

LEMMA OtherEditsStep ==
  ASSUME WindowInv, NEW key \in Keys, OtherEdits(key)
  PROVE  WindowInv'
<1>1. WireOK /\ OpenOK /\ IdsOK /\ LettersOK /\ WriteOK /\ RunnersOK /\ FollowsOK
  BY DEF WindowInv
<1>2. /\ arrived' = Append(arrived, Letter(0, "changed", key, 0))
      /\ boards' = [boards EXCEPT ![key] = edits + 1] /\ edits' = edits + 1 /\ refused' = refused \ {key}
      /\ UNCHANGED <<toCore, surfaces, loading, wanted, unsaved, writing, lastId>>
  BY DEF OtherEdits
<1>3. PICK m : m = Letter(0, "changed", key, 0)
  OBVIOUS
<1>4. m.id = 0 /\ m.kind = "changed"
  BY <1>3 DEF Letter
<1>5. /\ Arrives(m) /\ Len(arrived) + 1 \in DOMAIN arrived'
      /\ arrived'[Len(arrived) + 1] = Letter(0, "changed", key, 0)
      /\ \A i \in DOMAIN arrived' \ DOMAIN arrived : i = Len(arrived) + 1
  <2>1. "changed" \in {"module", "json", "changed", "done", "error"} /\ 0 \in Nat /\ 0 \in {0, m.id}
    OBVIOUS
  <2> QED BY <1>1, <1>2, <2>1, OneArrives
<1>6. WireOK'
  BY <1>1, <1>2, <1>5 DEF WireOK, Arrives
<1>7. OpenOK' /\ RunnersOK' /\ WriteOK'
  BY <1>1, <1>2 DEF OpenOK, RunnersOK, WriteOK
<1>8. \A i \in DOMAIN arrived' : \/ i \in DOMAIN arrived /\ arrived'[i] = arrived[i]
                                 \/ arrived'[i].id = 0 /\ arrived'[i].kind = "changed"
  BY <1>3, <1>4, <1>5 DEF Arrives
<1>9. LettersOK'
  BY <1>1, <1>2, <1>8 DEF LettersOK
<1>10. IdsOK'
  <2>1. lastId \in Nat
    BY <1>1 DEF WireOK
  <2> QED BY <1>1, <1>2, <1>8, <2>1 DEF IdsOK
<1>11. Changed'
  BY <1>3, <1>4, <1>5 DEF Changed
<1>12. FollowsOK'
  BY <1>11 DEF FollowsOK, Follows
<1> QED BY <1>6, <1>7, <1>9, <1>10, <1>12 DEF WindowInv

-----------------------------------------------------------------------------

LEMMA WindowInit ==
  ASSUME ClientInit
  PROVE  WindowInv
<1>1. toCore = <<>> /\ arrived = <<>> /\ DOMAIN toCore = {} /\ DOMAIN arrived = {}
  BY DEF ClientInit
<1>2. /\ boards = [k \in Keys |-> 1] /\ edits = 1 /\ loading = {} /\ unsaved = FALSE
      /\ writing = 0 /\ lastId = 0 /\ refused = {}
  BY DEF ClientInit
<1>3. surfaces = [k \in {} |-> Opened] /\ DOMAIN surfaces = {}
  BY DEF ClientInit
<1>4. WireOK
  <2>1. toCore \in Seq(Requests) /\ arrived \in Seq(Letters)
    BY <1>1
  <2>2. boards \in [Keys -> Nat \ {0}]
    BY <1>2
  <2> QED BY <1>2, <2>1, <2>2 DEF WireOK
<1>5. OpenOK
  BY <1>2, <1>3, FS_EmptySet DEF OpenOK
<1>6. IdsOK /\ LettersOK /\ WriteOK /\ RunnersOK /\ FollowsOK
  BY <1>1, <1>3 DEF IdsOK, LettersOK, WriteOK, RunnersOK, FollowsOK
<1> QED BY <1>4, <1>5, <1>6 DEF WindowInv

LEMMA WindowStutters ==
  ASSUME WindowInv, UNCHANGED clientVars
  PROVE  WindowInv'
<1>1. UNCHANGED <<toCore, arrived, boards, surfaces, loading, wanted, unsaved, writing, lastId, edits, refused>>
  BY DEF clientVars
<1>2. WireOK' /\ OpenOK' /\ IdsOK' /\ LettersOK' /\ WriteOK' /\ RunnersOK'
  BY <1>1 DEF WindowInv, WireOK, OpenOK, IdsOK, LettersOK, WriteOK, RunnersOK
<1>3. FollowsOK'
  BY <1>1 DEF WindowInv, FollowsOK, Follows, Asked, Changed, Brought, Held, Runs
<1> QED BY <1>2, <1>3 DEF WindowInv

LEMMA WindowNext ==
  ASSUME WindowInv, [ClientNext]_clientVars
  PROVE  WindowInv'
<1>1. CASE \E key \in Keys : Open(key)
  BY <1>1, OpenStep
<1>2. CASE \E load \in loading, works \in BOOLEAN : FinishLoad(load, works)
  BY <1>2, FinishLoadStep
<1>3. CASE \E key \in Keys, edited \in BOOLEAN : Frame(key, edited)
  BY <1>3, FrameStep
<1>4. CASE \E key \in Keys, overBudget \in BOOLEAN : Break(key, overBudget)
  BY <1>4, BreakStep
<1>5. CASE \E key \in Keys : Cool(key)
  BY <1>5, CoolStep
<1>6. CASE \E key \in Keys : RestartSurface(key)
  BY <1>6, RestartStep
<1>7. CASE \E key \in Keys : OtherEdits(key)
  BY <1>7, OtherEditsStep
<1> QED BY <1>1, <1>2, <1>3, <1>4, <1>5, <1>6, <1>7, DrainStep, CoreStep, WindowStutters DEF ClientNext

LEMMA WindowInvIsTrue ==
  ASSUME WindowInv
  PROVE  WindowIsTrue
<1>1. WireOK /\ OpenOK /\ WriteOK /\ RunnersOK /\ FollowsOK
  BY DEF WindowInv
<1>2. ASSUME toCore = <<>>, arrived = <<>>, NEW key \in DOMAIN surfaces, key \notin refused,
             Runs(key), ~ surfaces[key].runner.dirty
      PROVE  surfaces[key].runner.holds = boards[key]
  <2>1. DOMAIN toCore = {} /\ DOMAIN arrived = {}
    BY <1>2
  <2>2. Held(key)
    BY <1>1, <1>2, <2>1 DEF FollowsOK, Follows, Asked, Changed, Brought
  <2>3. RunnerOK(surfaces[key].runner)
    BY <1>1 DEF RunnersOK
  <2> QED BY <1>2, <2>2, <2>3 DEF Held, RunnerOK
<1>3. SurfacesSettle
  BY <1>2 DEF SurfacesSettle
<1>4. SavedIsAnswered
  BY <1>1 DEF SavedIsAnswered, WriteOK
<1> QED BY <1>3, <1>4 DEF WindowIsTrue

\* What a window shows of a board, and says of it, is Core's, whatever arrives
\* when and however often its surfaces break down: with nothing on its way a
\* surface that runs shows Core's document, and a write is forgotten as unsaved
\* only when Core has answered it (lib.rs request_surface, drain and
\* apply_response of the client, ui.rs show_egui_surface, surface.rs).
THEOREM WindowAlwaysTrue == ClientSpec => []WindowIsTrue
<1>1. ClientInit => WindowInv
  BY WindowInit
<1>2. WindowInv /\ [ClientNext]_clientVars => WindowInv'
  BY WindowNext
<1>3. WindowInv => WindowIsTrue
  BY WindowInvIsTrue
<1> QED BY <1>1, <1>2, <1>3, PTL DEF ClientSpec

-----------------------------------------------------------------------------
(* One person's chats.                                                     *)

(* What the variables hold.                                                *)

FileNames == [of : Files, is : {"bytes", "record"}]
Sayings == [n : Nat, by : {"person", "model"}, files : SUBSET Files]
ChatRecs == [id : ChatIds, updated : Nat, messages : Seq(Sayings)]
Answering == [chat : ChatIds, ws : Workspaces, state : {"waiting", "writing"}, at : Nat]

ChatsTyped ==
  /\ disk \in [Workspaces -> SUBSET ChatRecs] /\ diskCurrent \in [Workspaces -> Nat]
  /\ ws \in Workspaces /\ list \subseteq ChatRecs
  /\ turns \subseteq Answering
  /\ pending \subseteq FileNames /\ kept \in [ChatIds -> SUBSET FileNames]
  /\ tick \in 1..(MaxTicks + 1) /\ said \in Nat
  /\ owed \in [ChatIds -> Seq(Sayings)]

\* A working set: its chats hold what they were given, and those with a
\* message are the ones saved of its workspace, of no other.
SetOK(chats, w, saved, given, now) ==
  /\ chats \subseteq ChatRecs
  /\ \A c \in chats : c.id < now /\ c.updated <= now /\ c.messages = given[c.id]
  /\ \A c, d \in chats : c.id = d.id => c = d
  /\ saved[w] = {c \in chats : c.messages # <<>>}
  /\ \A v \in Workspaces \ {w} : \A c \in saved[v] : \A d \in chats : c.id # d.id

\* What is saved holds what was given, and all of it.
SavedOK(saved, given, now) ==
  /\ saved \in [Workspaces -> SUBSET ChatRecs]
  /\ \A w \in Workspaces : \A c \in saved[w] :
       c.id < now /\ c.updated <= now /\ c.messages # <<>> /\ c.messages = given[c.id]
  /\ \A v, w \in Workspaces : \A c \in saved[v] : \A d \in saved[w] : c.id = d.id => v = w /\ c = d
  /\ \A id \in ChatIds : given[id] # <<>> => \E w \in Workspaces : \E c \in saved[w] : c.id = id

ShownOK(chats, cur, words) == \E c \in chats : c.id = cur /\ c.messages = words

AnswersOK(q, saved) == \A t \in q : \E c \in saved[t.ws] : c.id = t.chat

FilesOK(saved, names) ==
  \A w \in Workspaces : \A c \in saved[w] :
    \A i \in DOMAIN c.messages : \A f \in c.messages[i].files : Names(f) \subseteq names[c.id]

ChatsInv ==
  /\ ChatsTyped
  /\ SetOK(list, ws, disk, owed, tick)
  /\ SavedOK(disk, owed, tick)
  /\ ShownOK(list, current, transcript)
  /\ AnswersOK(turns, disk)
  /\ FilesOK(disk, kept)

-----------------------------------------------------------------------------
(* Chats by their ids.                                                     *)

LEMMA ChatOfIs ==
  ASSUME NEW chats, \A c, d \in chats : c.id = d.id => c = d, NEW c \in chats
  PROVE  ChatOf(chats, c.id) = c
BY DEF ChatOf

LEMMA ShownIsThere ==
  ASSUME NEW chats, \A c, d \in chats : c.id = d.id => c = d, NEW cur
  PROVE  /\ \A words : ShownOK(chats, cur, words) => cur \in Ids(chats) /\ words = MessagesOf(chats, cur)
         /\ cur \in Ids(chats) => ShownOK(chats, cur, MessagesOf(chats, cur))
<1>1. ASSUME NEW words, ShownOK(chats, cur, words)
      PROVE  cur \in Ids(chats) /\ words = MessagesOf(chats, cur)
  <2>1. PICK c \in chats : c.id = cur /\ c.messages = words
    BY <1>1 DEF ShownOK
  <2>2. ChatOf(chats, c.id) = c
    BY ChatOfIs
  <2> QED BY <2>1, <2>2 DEF Ids, MessagesOf
<1>2. ASSUME cur \in Ids(chats)
      PROVE  ShownOK(chats, cur, MessagesOf(chats, cur))
  <2>1. PICK c \in chats : c.id = cur
    BY <1>2 DEF Ids
  <2>2. ChatOf(chats, c.id) = c
    BY ChatOfIs
  <2> QED BY <2>1, <2>2 DEF ShownOK, MessagesOf
<1> QED BY <1>1, <1>2

LEMMA GreatestOf ==
  ASSUME NEW S, S \subseteq Nat, S # {}, NEW n \in Nat, \A x \in S : x <= n
  PROVE  \E m \in S : \A x \in S : x <= m
<1>1. PICK B : B = {k \in Nat : \A x \in S : x <= k}
  OBVIOUS
<1>2. \E k \in B : \A j \in B : ~ (<<j, k>> \in OpToRel(<, Nat))
  BY <1>1, WFMin, NatLessThanWellFounded
<1>3. PICK k \in B : \A j \in B : ~ (j < k)
  BY <1>1, <1>2 DEF OpToRel
<1>4. k \in Nat /\ \A x \in S : x <= k
  BY <1>1, <1>3
<1>5. CASE k \in S
  BY <1>4, <1>5
<1>6. CASE k \notin S
  <2>1. \A x \in S : x <= k - 1
    BY <1>4, <1>6
  <2>2. PICK y \in S : TRUE
    OBVIOUS
  <2>3. k - 1 \in Nat
    BY <1>4, <2>1, <2>2
  <2>4. k - 1 \in B
    BY <1>1, <2>1, <2>3
  <2> QED BY <1>3, <1>4, <2>4
<1> QED BY <1>5, <1>6

LEMMA NewestIs ==
  ASSUME ChatBounds, NEW chats, chats \subseteq ChatRecs, chats # {}
  PROVE  Newest(chats) \in Ids(chats)
<1>1. Ids(chats) \subseteq Nat /\ Ids(chats) # {} /\ \A x \in Ids(chats) : x <= MaxTicks
  BY DEF Ids, ChatRecs, ChatIds
<1>2. \E m \in Ids(chats) : \A x \in Ids(chats) : x <= m
  BY <1>1, GreatestOf DEF ChatBounds
<1> QED BY <1>2 DEF Newest

LEMMA RecentIs ==
  ASSUME ChatBounds, NEW chats, chats \subseteq ChatRecs, chats # {}, NEW n \in Nat,
         \A c \in chats : c.updated <= n
  PROVE  Recent(chats) \in chats
<1>1. PICK T : T = {c.updated : c \in chats}
  OBVIOUS
<1>2. PICK u \in T : \A x \in T : x <= u
  <2>1. T \subseteq Nat /\ T # {} /\ \A x \in T : x <= n
    BY <1>1 DEF ChatRecs
  <2> QED BY <2>1, GreatestOf
<1>3. PICK L : L = {c \in chats : c.updated = u}
  OBVIOUS
<1>4. PICK id \in Ids(L) : \A x \in Ids(L) : x <= id
  <2>1. Ids(L) \subseteq Nat /\ Ids(L) # {} /\ \A x \in Ids(L) : x <= MaxTicks
    BY <1>1, <1>3 DEF Ids, ChatRecs, ChatIds
  <2> QED BY <2>1, GreatestOf DEF ChatBounds
<1>5. PICK c \in L : c.id = id
  BY <1>4 DEF Ids
<1>6. ASSUME NEW d \in chats
      PROVE  d.updated < c.updated \/ (d.updated = c.updated /\ d.id <= c.id)
  <2>1. d.updated \in Nat /\ u \in Nat /\ d.updated <= u /\ c.updated = u
    BY <1>1, <1>2, <1>3 DEF ChatRecs
  <2>2. d.updated = u => d.id <= id
    BY <1>3, <1>4 DEF Ids
  <2> QED BY <1>5, <2>1, <2>2
<1> QED BY <1>3, <1>6 DEF Recent

-----------------------------------------------------------------------------
(* Recording what is on screen changes nothing.                            *)

LEMMA SameRecord ==
  ASSUME NEW c \in ChatRecs
  PROVE  [c EXCEPT !.messages = c.messages,
                   !.updated = IF Len(c.messages) # Len(c.messages) THEN tick ELSE @] = c
BY DEF ChatRecs

LEMMA RecordedIsList ==
  ASSUME ChatsInv
  PROVE  Recorded = list
<1>1. /\ list \subseteq ChatRecs /\ \A c, d \in list : c.id = d.id => c = d
      /\ \E c \in list : c.id = current /\ c.messages = transcript
  BY DEF ChatsInv, SetOK, ShownOK
<1>2. \A c \in list : c.id = current => c.messages = transcript
  BY <1>1
<1>3. \A c \in list :
         (IF c.id # current THEN c
          ELSE [c EXCEPT !.messages = transcript,
                         !.updated = IF Len(transcript) # Len(c.messages) THEN tick ELSE @]) = c
  <2> TAKE c \in list
  <2>1. CASE c.id # current
    BY <2>1
  <2>2. CASE c.id = current
    <3>1. transcript = c.messages /\ c \in ChatRecs
      BY <1>1, <1>2, <2>2
    <3> QED BY <2>2, <3>1, SameRecord
  <2> QED BY <2>1, <2>2
<1> QED BY <1>3, Zenon DEF Recorded, Updated

LEMMA DiskRecordedIsDisk ==
  ASSUME ChatsInv
  PROVE  DiskRecorded = disk
<1>1. PICK c \in list : c.id = current
  BY DEF ChatsInv, ShownOK
<1>2. /\ \A a, b \in list : a.id = b.id => a = b
      /\ disk[ws] = {a \in list : a.messages # <<>>}
      /\ disk \in [Workspaces -> SUBSET ChatRecs] /\ ws \in Workspaces
  BY DEF ChatsInv, SetOK, ChatsTyped
<1>3. ChatOf(Recorded, current) = c
  BY <1>1, <1>2, ChatOfIs, RecordedIsList
<1>4. Persist(disk[ws], c) = disk[ws]
  <2>1. CASE c.messages = <<>>
    BY <2>1 DEF Persist
  <2>2. CASE c.messages # <<>>
    <3>1. c \in disk[ws] /\ \A d \in disk[ws] : d.id = c.id => d = c
      BY <1>2, <2>2
    <3>2. {d \in disk[ws] : d.id # c.id} \cup {c} = disk[ws]
      BY <3>1
    <3> QED BY <2>2, <3>2 DEF Persist
  <2> QED BY <2>1, <2>2
<1> QED BY <1>2, <1>3, <1>4 DEF DiskRecorded

-----------------------------------------------------------------------------
(* A chat begun, or the one that is still empty.                           *)

Blank == [id |-> tick, updated |-> tick, messages |-> <<>>]

LEMMA BlankIs ==
  ASSUME ChatBounds, tick \in 1..(MaxTicks + 1), tick <= MaxTicks
  PROVE  /\ Blank \in ChatRecs
         /\ Blank.id = tick /\ Blank.updated = tick /\ Blank.messages = <<>>
         /\ tick \in ChatIds
<1>1. tick \in ChatIds /\ tick \in Nat
  BY DEF ChatIds, ChatBounds
<1>2. PICK words \in Seq(Sayings) : words = <<>>
  BY EmptySeq
<1> QED BY <1>1, <1>2 DEF Blank, ChatRecs

LEMMA BlankJoins ==
  ASSUME ChatBounds, tick \in 1..(MaxTicks + 1), tick <= MaxTicks,
         NEW chats, NEW w \in Workspaces, NEW saved, NEW given,
         SetOK(chats, w, saved, given, tick), SavedOK(saved, given, tick)
  PROVE  SetOK(chats \cup {Blank}, w, saved, given, tick + 1)
<1>1. /\ Blank \in ChatRecs
      /\ Blank.id = tick /\ Blank.updated = tick /\ Blank.messages = <<>>
      /\ tick \in ChatIds /\ tick \in Nat
  BY BlankIs DEF ChatIds
<1>2. given[tick] = <<>>
  <2>1. ASSUME given[tick] # <<>> PROVE FALSE
    <3>1. PICK v \in Workspaces : \E c \in saved[v] : c.id = tick
      BY <1>1, <2>1 DEF SavedOK
    <3>2. PICK c \in saved[v] : c.id = tick
      BY <3>1
    <3>3. c.id < tick
      BY <3>2 DEF SavedOK
    <3> QED BY <1>1, <3>2, <3>3
  <2> QED BY <2>1
<1>3. \A c \in chats : c.id # tick /\ c.id \in Nat /\ c.id < tick /\ c.updated \in Nat /\ c.updated <= tick
  BY <1>1 DEF SetOK, ChatRecs, ChatIds
<1>4. \A v \in Workspaces : \A c \in saved[v] : c.id # tick
  BY <1>1 DEF SavedOK, ChatRecs, ChatIds
<1>5. PICK b : b = Blank
  OBVIOUS
<1>6. \A c \in chats \cup {b} : c.id < tick + 1 /\ c.updated <= tick + 1 /\ c.messages = given[c.id]
  BY <1>1, <1>2, <1>3, <1>5 DEF SetOK
<1>7. \A c, d \in chats \cup {b} : c.id = d.id => c = d
  BY <1>1, <1>3, <1>5 DEF SetOK
<1>8. saved[w] = {c \in chats \cup {b} : c.messages # <<>>}
  BY <1>1, <1>5 DEF SetOK
<1>9. \A v \in Workspaces \ {w} : \A c \in saved[v] : \A d \in chats \cup {b} : c.id # d.id
  BY <1>1, <1>4, <1>5 DEF SetOK
<1>10. chats \cup {b} \subseteq ChatRecs
  BY <1>1, <1>5 DEF SetOK
<1> QED BY <1>5, <1>6, <1>7, <1>8, <1>9, <1>10 DEF SetOK

LEMMA LaterSaved ==
  ASSUME NEW now \in Nat, NEW saved, NEW given, SavedOK(saved, given, now)
  PROVE  SavedOK(saved, given, now + 1)
<1>1. \A w \in Workspaces : \A c \in saved[w] : c.id \in Nat /\ c.updated \in Nat
  BY DEF SavedOK, ChatRecs, ChatIds
<1>2. \A w \in Workspaces : \A c \in saved[w] : c.id < now + 1 /\ c.updated <= now + 1
  BY <1>1 DEF SavedOK
<1> QED BY <1>2 DEF SavedOK

LEMMA Started ==
  ASSUME ChatBounds, tick \in 1..(MaxTicks + 1),
         NEW chats, NEW w \in Workspaces, NEW saved, NEW given, NEW cur,
         SetOK(chats, w, saved, given, tick), SavedOK(saved, given, tick),
         ClockGoesOn(Start(chats, cur).chats)
  PROVE  LET r == Start(chats, cur) IN
         /\ SetOK(r.chats, w, saved, given, tick') /\ SavedOK(saved, given, tick')
         /\ ShownOK(r.chats, r.current, <<>>)
         /\ tick' \in 1..(MaxTicks + 1)
<1>1. PICK r : r = Start(chats, cur)
  OBVIOUS
<1>2. CASE \E c \in chats : c.id = cur /\ c.messages = <<>>
  <2>1. r.chats = chats /\ r.current = cur
    BY <1>1, <1>2 DEF Start
  <2>2. tick \notin Ids(chats)
    BY DEF Ids, SetOK, ChatRecs, ChatIds
  <2>3. tick' = tick
    BY <1>1, <2>1, <2>2 DEF ClockGoesOn
  <2> QED BY <1>1, <1>2, <2>1, <2>3 DEF ShownOK
<1>3. CASE ~ \E c \in chats : c.id = cur /\ c.messages = <<>>
  <2>1. r.chats = chats \cup {Blank} /\ r.current = tick
    BY <1>1, <1>3 DEF Start, Blank
  <2>2. Blank.id = tick /\ Blank.messages = <<>>
    BY DEF Blank
  <2>3. tick \in Ids(r.chats)
    BY <2>1, <2>2 DEF Ids
  <2>4. tick <= MaxTicks /\ tick' = tick + 1
    BY <1>1, <2>3 DEF ClockGoesOn
  <2>5. SetOK(r.chats, w, saved, given, tick')
    BY <2>1, <2>4, BlankJoins
  <2>6. SavedOK(saved, given, tick')
    BY <2>4, LaterSaved
  <2>7. ShownOK(r.chats, r.current, <<>>)
    BY <2>1, <2>2 DEF ShownOK
  <2>8. tick' \in 1..(MaxTicks + 1)
    BY <2>4 DEF ChatBounds
  <2> QED BY <1>1, <2>5, <2>6, <2>7, <2>8
<1> QED BY <1>2, <1>3

LEMMA LoadedSet ==
  ASSUME ChatBounds, ChatsInv, NEW w \in Workspaces, ClockGoesOn(LoadSet(w).chats)
  PROVE  LET r == LoadSet(w) IN
         /\ SetOK(r.chats, w, disk, owed, tick') /\ SavedOK(disk, owed, tick')
         /\ ShownOK(r.chats, r.current, MessagesOf(r.chats, r.current))
         /\ tick' \in 1..(MaxTicks + 1)
<1>1. PICK r : r = LoadSet(w)
  OBVIOUS
<1>2. tick \in 1..(MaxTicks + 1) /\ SavedOK(disk, owed, tick) /\ disk[w] \subseteq ChatRecs
  BY DEF ChatsInv, ChatsTyped
<1>3. ASSUME NEW chats, NEW now, SetOK(chats, w, disk, owed, now)
      PROVE  \A c, d \in chats : c.id = d.id => c = d
  BY <1>3 DEF SetOK
<1>4. CASE disk[w] = {}
  <2>1. SetOK({}, w, disk, owed, tick)
    BY <1>4 DEF SetOK
  <2>2. r = Start({}, diskCurrent[w])
    BY <1>1, <1>4 DEF LoadSet
  <2>3. /\ SetOK(r.chats, w, disk, owed, tick') /\ SavedOK(disk, owed, tick')
        /\ ShownOK(r.chats, r.current, <<>>) /\ tick' \in 1..(MaxTicks + 1)
    BY <1>1, <1>2, <2>1, <2>2, Started
  <2>4. ShownOK(r.chats, r.current, MessagesOf(r.chats, r.current))
    BY <1>3, <2>3, ShownIsThere
  <2> QED BY <1>1, <2>3, <2>4
<1>5. CASE disk[w] # {}
  <2>1. SetOK(disk[w], w, disk, owed, tick)
    BY <1>2 DEF SetOK, SavedOK
  <2>2. r.chats = disk[w] /\ r.current = IF diskCurrent[w] \in Ids(disk[w]) THEN diskCurrent[w] ELSE Newest(disk[w])
    BY <1>1, <1>5 DEF LoadSet
  <2>3. tick \notin Ids(disk[w])
    BY <1>2 DEF Ids, SavedOK, ChatRecs, ChatIds
  <2>4. tick' = tick
    BY <1>1, <2>2, <2>3 DEF ClockGoesOn
  <2>5. r.current \in Ids(r.chats)
    BY <1>2, <1>5, <2>2, NewestIs
  <2>6. ShownOK(r.chats, r.current, MessagesOf(r.chats, r.current))
    BY <1>3, <2>1, <2>2, <2>5, ShownIsThere
  <2> QED BY <1>1, <1>2, <2>1, <2>2, <2>4, <2>6
<1> QED BY <1>4, <1>5

-----------------------------------------------------------------------------
(* The queue of answers.                                                   *)

LEMMA BegunIs ==
  ASSUME NEW q, q \subseteq Answering
  PROVE  /\ Begun(q) \subseteq Answering
         /\ \A t \in Begun(q) : \E u \in q : t.chat = u.chat /\ t.ws = u.ws
<1>1. \A t \in q : /\ [t EXCEPT !.state = "writing"] \in Answering
                   /\ [t EXCEPT !.state = "writing"].chat = t.chat
                   /\ [t EXCEPT !.state = "writing"].ws = t.ws
  BY DEF Answering
<1> QED BY <1>1 DEF Begun

LEMMA AnswersGoOn ==
  ASSUME NEW q, NEW saved, q \subseteq Answering, AnswersOK(q, saved)
  PROVE  Begun(q) \subseteq Answering /\ AnswersOK(Begun(q), saved)
BY BegunIs DEF AnswersOK

-----------------------------------------------------------------------------
(* A message written into a chat.                                          *)

LEMMA Appended ==
  ASSUME NEW words \in Seq(Sayings), NEW m \in Sayings
  PROVE  /\ Append(words, m) \in Seq(Sayings) /\ Append(words, m) # <<>>
         /\ \A i \in DOMAIN Append(words, m) :
               Append(words, m)[i] = m \/ (i \in DOMAIN words /\ Append(words, m)[i] = words[i])
<1>1. /\ Append(words, m) \in Seq(Sayings) /\ Len(Append(words, m)) = Len(words) + 1
      /\ \A i \in 1 .. Len(words) : Append(words, m)[i] = words[i]
      /\ Append(words, m)[Len(words) + 1] = m
  BY AppendProperties
<1>2. Len(words) \in Nat /\ DOMAIN words = 1 .. Len(words)
  BY LenProperties
<1>3. PICK more : more = Append(words, m)
  OBVIOUS
<1>4. DOMAIN more = 1 .. Len(words) + 1
  BY <1>1, <1>3, LenProperties
<1>5. Append(words, m) # <<>>
  <2>1. Len(Append(words, m)) # 0
    BY <1>1, <1>2
  <2> QED BY <2>1, EmptySeq
<1>6. \A i \in DOMAIN more : more[i] = m \/ (i \in DOMAIN words /\ more[i] = words[i])
  BY <1>1, <1>2, <1>3, <1>4
<1> QED BY <1>1, <1>3, <1>5, <1>6

\* Wherever its person is, the chat on disk becomes the chat with the message,
\* and so does the one of the working set if it is there.
Given(id, m) == [owed EXCEPT ![id] = Append(@, m)]

LEMMA GivenIs ==
  ASSUME ChatsTyped, NEW id \in ChatIds, NEW m \in Sayings
  PROVE  /\ Given(id, m) \in [ChatIds -> Seq(Sayings)]
         /\ Given(id, m)[id] = Append(owed[id], m) /\ Given(id, m)[id] # <<>>
         /\ \A other \in ChatIds : other # id => Given(id, m)[other] = owed[other]
BY Appended DEF Given, ChatsTyped

\* A chat with one message more.
Longer(c, e, m) == e \in ChatRecs /\ e.id = c.id /\ e.messages = Append(c.messages, m) /\ e.updated <= tick

\* The chats with one of them longer.
Grows(chats, more, id, m) ==
  /\ \A e \in more : \E c \in chats : c.id = e.id /\ (IF c.id = id THEN Longer(c, e, m) ELSE e = c)
  /\ \A c \in chats : \E e \in more : c.id = e.id /\ (IF c.id = id THEN Longer(c, e, m) ELSE e = c)
  /\ \A d, e \in more : d.id = e.id => d = e

LEMMA WriteHere ==
  ASSUME ChatsInv, NEW id \in Ids(list), NEW m \in Sayings, Write(ws, id, m)
  PROVE  /\ Grows(list, list', id, m)
         /\ disk' = [disk EXCEPT ![ws] = {c \in list' : c.messages # <<>>}]
         /\ ShownOK(list', current, transcript')
<1>1. PICK c \in list : c.id = id
  BY DEF Ids
<1>2. /\ list \subseteq ChatRecs /\ \A a, b \in list : a.id = b.id => a = b
      /\ ws \in Workspaces /\ disk \in [Workspaces -> SUBSET ChatRecs]
      /\ disk[ws] = {a \in list : a.messages # <<>>} /\ tick \in Nat
      /\ ShownOK(list, current, transcript)
      /\ \A a \in list : a.updated <= tick
  BY DEF ChatsInv, SetOK, ChatsTyped
<1>3. PICK words : words = Append(IF id = current THEN transcript ELSE MessagesOf(list, id), m)
  OBVIOUS
<1>4. PICK done : done = Updated(list, id, words)
  OBVIOUS
<1>5. /\ list' = done /\ transcript' = IF id = current THEN words ELSE transcript
      /\ disk' = [disk EXCEPT ![ws] = Persist(@, ChatOf(done, id))]
  BY <1>3, <1>4 DEF Write
<1>6. words = Append(c.messages, m)
  <2>1. MessagesOf(list, id) = c.messages
    BY <1>1, <1>2, ChatOfIs DEF MessagesOf
  <2>2. id = current => transcript = c.messages
    BY <1>1, <1>2 DEF ShownOK
  <2> QED BY <1>3, <2>1, <2>2
<1>7. /\ words \in Seq(Sayings) /\ words # <<>>
      /\ c \in ChatRecs /\ c.messages \in Seq(Sayings)
  BY <1>1, <1>2, <1>6, Appended DEF ChatRecs
<1>8. PICK new : new = [c EXCEPT !.messages = words,
                                 !.updated = IF Len(words) # Len(c.messages) THEN tick ELSE @]
  OBVIOUS
<1>9. /\ new \in ChatRecs /\ new.id = id /\ new.messages = words /\ new.updated <= tick
  <2>1. new \in ChatRecs /\ new.id = id /\ new.messages = words
    BY <1>1, <1>2, <1>7, <1>8 DEF ChatRecs
  <2>2. new.updated = tick \/ new.updated = c.updated
    BY <1>7, <1>8 DEF ChatRecs
  <2> QED BY <1>1, <1>2, <2>1, <2>2
<1>10. done = {a \in list : a.id # id} \cup {new}
  <2>1. \A a \in list : a.id = id => a = c
    BY <1>1, <1>2
  <2> QED BY <1>1, <1>4, <1>8, <2>1 DEF Updated
<1>11. \A a, b \in done : a.id = b.id => a = b
  BY <1>2, <1>9, <1>10
<1>12. Grows(list, list', id, m)
  BY <1>1, <1>2, <1>5, <1>6, <1>9, <1>10, <1>11 DEF Grows, Longer
<1>13. ChatOf(done, id) = new
  BY <1>9, <1>10, <1>11, ChatOfIs
<1>14. Persist(disk[ws], new) = {a \in done : a.messages # <<>>}
  <2>1. Persist(disk[ws], new) = {a \in disk[ws] : a.id # id} \cup {new}
    BY <1>7, <1>9 DEF Persist
  <2> QED BY <1>2, <1>7, <1>9, <1>10, <2>1
<1>15. ShownOK(list', current, transcript')
  <2>1. CASE id = current
    BY <1>5, <1>9, <1>10, <2>1 DEF ShownOK
  <2>2. CASE id # current
    <3>1. PICK a \in list : a.id = current /\ a.messages = transcript
      BY <1>2 DEF ShownOK
    <3> QED BY <1>5, <1>10, <2>2, <3>1 DEF ShownOK
  <2> QED BY <2>1, <2>2
<1> QED BY <1>2, <1>5, <1>12, <1>13, <1>14, <1>15

LEMMA WriteElsewhere ==
  ASSUME ChatsInv, NEW w \in Workspaces, NEW id, ~ (w = ws /\ id \in Ids(list)),
         NEW m \in Sayings, Write(w, id, m)
  PROVE  /\ UNCHANGED <<list, transcript>>
         /\ disk' = [disk EXCEPT ![w] = disk'[w]]
         /\ Grows(disk[w], disk'[w], id, m)
<1>1. /\ disk \in [Workspaces -> SUBSET ChatRecs] /\ tick \in Nat
      /\ \A a, b \in disk[w] : a.id = b.id => a = b
      /\ \A a \in disk[w] : a \in ChatRecs
  BY DEF ChatsInv, ChatsTyped, SavedOK
<1>2. PICK more : more = {IF c.id = id THEN [c EXCEPT !.messages = Append(@, m), !.updated = tick] ELSE c : c \in disk[w]}
  OBVIOUS
<1>3. UNCHANGED <<list, transcript>> /\ disk' = [disk EXCEPT ![w] = more]
  BY <1>2, Zenon DEF Write
<1>4. disk'[w] = more /\ disk' = [disk EXCEPT ![w] = disk'[w]]
  BY <1>1, <1>3
<1>5. ASSUME NEW c \in disk[w]
      PROVE  \A e : e = [c EXCEPT !.messages = Append(@, m), !.updated = tick] => Longer(c, e, m)
  <2>1. c \in ChatRecs /\ c.messages \in Seq(Sayings)
    BY <1>1 DEF ChatRecs
  <2>2. PICK words \in Seq(Sayings) : words = Append(c.messages, m)
    BY <2>1, Appended
  <2>3. PICK e : e = [c EXCEPT !.messages = words, !.updated = tick]
    OBVIOUS
  <2>4. e \in ChatRecs /\ e.id = c.id /\ e.messages = words /\ e.updated = tick
    BY <1>1, <2>1, <2>3 DEF ChatRecs
  <2>5. Longer(c, e, m)
    BY <1>1, <2>2, <2>4 DEF Longer
  <2> QED BY <2>2, <2>3, <2>5
<1>6. \A e \in more : \E c \in disk[w] : c.id = e.id /\ (IF c.id = id THEN Longer(c, e, m) ELSE e = c)
  <2> TAKE e \in more
  <2>1. PICK c \in disk[w] : e = IF c.id = id THEN [c EXCEPT !.messages = Append(@, m), !.updated = tick] ELSE c
    BY <1>2
  <2>2. IF c.id = id THEN Longer(c, e, m) ELSE e = c
    BY <1>5, <2>1
  <2>3. c.id = e.id
    BY <2>2 DEF Longer
  <2> QED BY <2>2, <2>3
<1>7. \A c \in disk[w] : \E e \in more : c.id = e.id /\ (IF c.id = id THEN Longer(c, e, m) ELSE e = c)
  <2> TAKE c \in disk[w]
  <2>1. PICK e : e = IF c.id = id THEN [c EXCEPT !.messages = Append(@, m), !.updated = tick] ELSE c
    OBVIOUS
  <2>2. e \in more
    BY <1>2, <2>1
  <2>3. IF c.id = id THEN Longer(c, e, m) ELSE e = c
    BY <1>5, <2>1
  <2>4. c.id = e.id
    BY <2>3 DEF Longer
  <2> QED BY <2>2, <2>3, <2>4
<1>8. \A d, e \in more : d.id = e.id => d = e
  <2> TAKE d, e \in more
  <2>1. PICK a \in disk[w] : d = IF a.id = id THEN [a EXCEPT !.messages = Append(@, m), !.updated = tick] ELSE a
    BY <1>2
  <2>2. PICK b \in disk[w] : e = IF b.id = id THEN [b EXCEPT !.messages = Append(@, m), !.updated = tick] ELSE b
    BY <1>2
  <2>3. d.id = a.id /\ e.id = b.id
    BY <1>5, <2>1, <2>2 DEF Longer
  <2> QED BY <1>1, <2>1, <2>2, <2>3
<1> QED BY <1>3, <1>4, <1>6, <1>7, <1>8 DEF Grows

\* Chats that hold what they were given, and what one of them then holds.
Hold(chats) == chats \subseteq ChatRecs /\ \A c \in chats : c.messages = owed[c.id]

Grown(chats, e, id, m) ==
  /\ e \in ChatRecs /\ e.messages = Given(id, m)[e.id]
  /\ e.id = id => (e.messages # <<>> /\ e.updated <= tick)
  /\ e.id # id => e \in chats
  /\ \E c \in chats : c.id = e.id
  /\ \A i \in DOMAIN e.messages :
       \/ e.messages[i] = m /\ e.id = id
       \/ \E c \in chats : c.id = e.id /\ i \in DOMAIN c.messages /\ e.messages[i] = c.messages[i]

LEMMA GrownHolds ==
  ASSUME ChatsTyped, NEW chats, NEW more, NEW id \in ChatIds, NEW m \in Sayings,
         Hold(chats), Grows(chats, more, id, m), NEW e \in more
  PROVE  Grown(chats, e, id, m)
<1>1. PICK c \in chats : c.id = e.id /\ (IF c.id = id THEN Longer(c, e, m) ELSE e = c)
  BY DEF Grows
<1>2. c \in ChatRecs /\ c.messages = owed[c.id] /\ c.messages \in Seq(Sayings) /\ c.id \in ChatIds
  BY DEF ChatRecs, Hold
<1>3. CASE c.id = id
  <2>1. e \in ChatRecs /\ e.messages = Append(c.messages, m) /\ e.updated <= tick
    BY <1>1, <1>3 DEF Longer
  <2>2. /\ e.messages # <<>>
        /\ \A i \in DOMAIN e.messages : e.messages[i] = m \/ (i \in DOMAIN c.messages /\ e.messages[i] = c.messages[i])
    BY <1>2, <2>1, Appended
  <2>3. Given(id, m)[id] = Append(owed[id], m)
    BY GivenIs
  <2>4. e.id = id /\ e.messages = Append(owed[id], m)
    BY <1>1, <1>2, <1>3, <2>1
  <2>5. e.messages = Given(id, m)[e.id]
    BY <2>3, <2>4, Zenon
  <2> QED BY <1>1, <1>3, <2>1, <2>2, <2>5 DEF Grown
<1>4. CASE c.id # id
  <2>1. e = c
    BY <1>1, <1>4
  <2>2. e.messages = Given(id, m)[e.id]
    BY <1>2, <1>4, <2>1, GivenIs
  <2> QED BY <1>2, <1>4, <2>1, <2>2 DEF Grown
<1> QED BY <1>3, <1>4

\* What a message written leaves behind.
Wrote(w, id, o, names) ==
  /\ SetOK(list', ws, disk', o, tick) /\ SavedOK(disk', o, tick)
  /\ ShownOK(list', current, transcript')
  /\ FilesOK(disk', names)
  /\ \A v \in Workspaces : \A c \in disk[v] : \E e \in disk'[v] : e.id = c.id
  /\ \E e \in disk'[w] : e.id = id

LEMMA WroteHere ==
  ASSUME ChatBounds, ChatsInv, NEW id \in Ids(list), NEW m \in Sayings, Write(ws, id, m),
         NEW names, \A i \in ChatIds : kept[i] \subseteq names[i],
         \A f \in m.files : Names(f) \subseteq names[id]
  PROVE  Wrote(ws, id, Given(id, m), names)
<1>1. /\ Grows(list, list', id, m)
      /\ disk' = [disk EXCEPT ![ws] = {c \in list' : c.messages # <<>>}]
      /\ ShownOK(list', current, transcript')
  BY WriteHere
<1>2. /\ SetOK(list, ws, disk, owed, tick) /\ SavedOK(disk, owed, tick) /\ FilesOK(disk, kept) /\ ChatsTyped
      /\ list \subseteq ChatRecs /\ Hold(list)
      /\ ws \in Workspaces /\ disk \in [Workspaces -> SUBSET ChatRecs]
      /\ disk[ws] = {a \in list : a.messages # <<>>}
  BY DEF ChatsInv, ChatsTyped, SetOK, Hold
<1>3. id \in ChatIds /\ \A c \in list : c.id \in ChatIds
  BY <1>2 DEF Ids, ChatRecs
<1>4. PICK o, d : o = Given(id, m) /\ d = disk'
  OBVIOUS
<1>5. \A e \in list' :
        /\ e \in ChatRecs /\ e.messages = o[e.id]
        /\ (e.id = id => (e.messages # <<>> /\ e.updated <= tick))
        /\ (e.id # id => e \in list)
        /\ \E c \in list : c.id = e.id
  <2> TAKE e \in list'
  <2>1. Grown(list, e, id, m)
    BY <1>1, <1>2, <1>3, GrownHolds
  <2> QED BY <1>4, <2>1 DEF Grown
<1>6. /\ d[ws] = {c \in list' : c.messages # <<>>}
      /\ \A v \in Workspaces \ {ws} : d[v] = disk[v]
      /\ DOMAIN d = Workspaces
  BY <1>1, <1>2, <1>4
<1>7. \A x, e \in list' : x.id = e.id => x = e
  BY <1>1 DEF Grows
<1>8. \A e \in list' : e.id < tick /\ e.updated <= tick
  <2> TAKE e \in list'
  <2>1. \A c \in list : c.id < tick /\ c.updated <= tick
    BY <1>2 DEF SetOK
  <2>2. PICK c \in list : c.id = e.id
    BY <1>5
  <2>3. e.updated <= tick
    BY <1>5, <2>1
  <2> QED BY <2>1, <2>2, <2>3
<1>9. \A v \in Workspaces \ {ws} : \A c \in d[v] : \A e \in list' : c.id # e.id
  BY <1>2, <1>5, <1>6 DEF SetOK
<1>10. SetOK(list', ws, d, o, tick)
  BY <1>5, <1>6, <1>7, <1>8, <1>9 DEF SetOK
<1>11. \A c \in list : \E e \in list' : e.id = c.id /\ (c.messages # <<>> => e.messages # <<>>)
  <2> TAKE c \in list
  <2>1. PICK e \in list' : c.id = e.id /\ (IF c.id = id THEN Longer(c, e, m) ELSE e = c)
    BY <1>1 DEF Grows
  <2>2. CASE c.id = id
    BY <1>5, <2>1, <2>2
  <2>3. CASE c.id # id
    BY <2>1, <2>3
  <2> QED BY <2>2, <2>3
<1>12. \A v \in Workspaces : \A c \in disk[v] : \E e \in d[v] : e.id = c.id
  <2> TAKE v \in Workspaces
  <2>1. CASE v = ws
    BY <1>2, <1>6, <1>11, <2>1
  <2>2. CASE v # ws
    BY <1>6, <2>2
  <2> QED BY <2>1, <2>2
<1>13. \E e \in d[ws] : e.id = id
  <2>1. PICK c \in list : c.id = id
    BY DEF Ids
  <2>2. PICK e \in list' : e.id = id
    BY <1>11, <2>1
  <2> QED BY <1>5, <1>6, <2>2
<1>14. SavedOK(d, o, tick)
  <2>1. d \in [Workspaces -> SUBSET ChatRecs]
    BY <1>1, <1>2, <1>4, <1>5
  <2>2. \A w \in Workspaces : \A c \in d[w] : c.id < tick /\ c.updated <= tick /\ c.messages # <<>> /\ c.messages = o[c.id]
    <3> TAKE w \in Workspaces
    <3>1. CASE w = ws
      BY <1>5, <1>6, <1>8, <3>1
    <3>2. CASE w # ws
      <4>1. PICK a \in list : a.id = id
        BY DEF Ids
      <4>2. \A c \in disk[w] : c.id # id /\ c.id \in ChatIds
        BY <1>2, <3>2, <4>1 DEF SetOK, ChatRecs
      <4>3. \A c \in disk[w] : o[c.id] = owed[c.id]
        BY <1>2, <1>3, <1>4, <4>2, GivenIs
      <4> QED BY <1>2, <1>6, <3>2, <4>3 DEF SavedOK
    <3> QED BY <3>1, <3>2
  <2>3. \A v, w \in Workspaces : \A c \in d[v] : \A e \in d[w] : c.id = e.id => v = w /\ c = e
    <3> SUFFICES ASSUME NEW v \in Workspaces, NEW w \in Workspaces, NEW c \in d[v], NEW e \in d[w], c.id = e.id
                 PROVE  v = w /\ c = e
      OBVIOUS
    <3>1. CASE v = ws /\ w = ws
      BY <1>6, <1>7, <3>1
    <3>2. CASE v = ws /\ w # ws
      BY <1>6, <1>9, <3>2
    <3>3. CASE v # ws /\ w = ws
      BY <1>6, <1>9, <3>3
    <3>4. CASE v # ws /\ w # ws
      BY <1>2, <1>6, <3>4 DEF SavedOK
    <3> QED BY <3>1, <3>2, <3>3, <3>4
  <2>4. ASSUME NEW i \in ChatIds, o[i] # <<>>
        PROVE  \E w \in Workspaces : \E c \in d[w] : c.id = i
    <3>1. CASE i = id
      BY <1>2, <1>13, <3>1
    <3>2. CASE i # id
      <4>1. owed[i] # <<>>
        BY <1>2, <1>3, <1>4, <2>4, <3>2, GivenIs
      <4>2. PICK w \in Workspaces : \E c \in disk[w] : c.id = i
        BY <1>2, <4>1 DEF SavedOK
      <4> QED BY <1>12, <4>2
    <3> QED BY <3>1, <3>2
  <2> QED BY <2>1, <2>2, <2>3, <2>4 DEF SavedOK
<1>15. FilesOK(d, names)
  <2> SUFFICES ASSUME NEW w \in Workspaces, NEW e \in d[w], NEW i \in DOMAIN e.messages,
                      NEW f \in e.messages[i].files
               PROVE  Names(f) \subseteq names[e.id]
    BY DEF FilesOK
  <2>1. CASE w = ws
    <3>1. e \in list' /\ e.id \in ChatIds
      BY <1>5, <1>6, <2>1 DEF ChatRecs
    <3>2. \/ e.messages[i] = m /\ e.id = id
          \/ \E c \in list : c.id = e.id /\ i \in DOMAIN c.messages /\ e.messages[i] = c.messages[i]
      <4>1. Grown(list, e, id, m)
        BY <1>1, <1>2, <1>3, <3>1, GrownHolds
      <4> QED BY <4>1 DEF Grown
    <3>3. ASSUME NEW c \in list, c.id = e.id, i \in DOMAIN c.messages, e.messages[i] = c.messages[i]
          PROVE  Names(f) \subseteq names[e.id]
      <4>1. c.messages # <<>>
        <5>1. DOMAIN <<>> = {}
          OBVIOUS
        <5> QED BY <3>3, <5>1
      <4>2. c \in disk[ws]
        BY <1>2, <4>1
      <4>3. Names(f) \subseteq kept[c.id]
        BY <1>2, <3>3, <4>2 DEF FilesOK
      <4> QED BY <3>1, <3>3, <4>3
    <3> QED BY <3>2, <3>3
  <2>2. CASE w # ws
    <3>1. e \in disk[w]
      BY <1>6, <2>2
    <3>2. e.id \in ChatIds
      BY <1>2, <3>1 DEF ChatRecs
    <3>3. Names(f) \subseteq kept[e.id]
      BY <1>2, <3>1 DEF FilesOK
    <3> QED BY <3>2, <3>3
  <2> QED BY <2>1, <2>2
<1> QED BY <1>1, <1>4, <1>10, <1>12, <1>13, <1>14, <1>15 DEF Wrote

LEMMA WroteElsewhere ==
  ASSUME ChatBounds, ChatsInv, NEW w \in Workspaces, NEW id, ~ (w = ws /\ id \in Ids(list)),
         \E c \in disk[w] : c.id = id, NEW m \in Sayings, Write(w, id, m),
         NEW names, \A i \in ChatIds : kept[i] \subseteq names[i],
         \A f \in m.files : Names(f) \subseteq names[id], UNCHANGED current
  PROVE  id \in ChatIds /\ Wrote(w, id, Given(id, m), names)
<1>1. /\ UNCHANGED <<list, transcript>> /\ disk' = [disk EXCEPT ![w] = disk'[w]]
      /\ Grows(disk[w], disk'[w], id, m)
  BY WriteElsewhere
<1>2. /\ SetOK(list, ws, disk, owed, tick) /\ SavedOK(disk, owed, tick) /\ FilesOK(disk, kept) /\ ChatsTyped
      /\ ws \in Workspaces /\ disk \in [Workspaces -> SUBSET ChatRecs] /\ Hold(disk[w])
      /\ disk[ws] = {a \in list : a.messages # <<>>} /\ list \subseteq ChatRecs
  BY DEF ChatsInv, ChatsTyped, SetOK, SavedOK, Hold
<1>3. PICK a \in disk[w] : a.id = id
  OBVIOUS
<1>4. id \in ChatIds /\ w # ws
  BY <1>2, <1>3 DEF ChatRecs, Ids
<1>5. PICK o, d : o = Given(id, m) /\ d = disk'
  OBVIOUS
<1>6. \A v \in Workspaces : v # w => d[v] = disk[v]
  BY <1>1, <1>2, <1>5, Zenon
<1>7. \A e \in d[w] : /\ e \in ChatRecs /\ e.messages = o[e.id]
                      /\ e.id = id => (e.messages # <<>> /\ e.updated <= tick)
                      /\ e.id # id => e \in disk[w]
                      /\ \E c \in disk[w] : c.id = e.id
  <2> TAKE e \in d[w]
  <2>1. Grown(disk[w], e, id, m)
    BY <1>1, <1>2, <1>4, <1>5, GrownHolds
  <2> QED BY <1>5, <2>1 DEF Grown
<1>8. \A x, e \in d[w] : x.id = e.id => x = e
  BY <1>1, <1>5 DEF Grows
<1>9. ASSUME NEW v \in Workspaces, v # w, NEW c \in disk[v]
      PROVE  c.id # id /\ c.id \in ChatIds /\ o[c.id] = owed[c.id]
  <2>1. c.id # id /\ c.id \in ChatIds
    BY <1>2, <1>3, <1>9 DEF SavedOK, ChatRecs
  <2> QED BY <1>2, <1>4, <1>5, <2>1, GivenIs
<1>10. \A c \in list : c.id # id /\ c.id \in ChatIds /\ o[c.id] = owed[c.id]
  <2> TAKE c \in list
  <2>1. c.id # id /\ c.id \in ChatIds
    BY <1>2, <1>3, <1>4 DEF SetOK, ChatRecs
  <2> QED BY <1>2, <1>4, <1>5, <2>1, GivenIs
<1>11. SetOK(list', ws, d, o, tick)
  <2>1. d[ws] = {c \in list : c.messages # <<>>}
    BY <1>2, <1>4, <1>6
  <2>2. \A v \in Workspaces \ {ws} : \A c \in d[v] : \A e \in list : c.id # e.id
    <3> TAKE v \in Workspaces \ {ws}
    <3> TAKE c \in d[v]
    <3>1. \E b \in disk[v] : b.id = c.id
      BY <1>6, <1>7
    <3> QED BY <1>2, <3>1 DEF SetOK
  <2> QED BY <1>1, <1>2, <1>10, <2>1, <2>2 DEF SetOK
<1>12. \A v \in Workspaces : \A c \in disk[v] : \E e \in d[v] : e.id = c.id
  <2> TAKE v \in Workspaces
  <2>1. CASE v = w
    BY <1>1, <1>5, <2>1 DEF Grows
  <2>2. CASE v # w
    BY <1>6, <2>2
  <2> QED BY <2>1, <2>2
<1>13. SavedOK(d, o, tick)
  <2>1. d \in [Workspaces -> SUBSET ChatRecs]
    <3>1. d[w] \in SUBSET ChatRecs
      BY <1>7
    <3> QED BY <1>1, <1>2, <1>5, <3>1
  <2>2. \A v \in Workspaces : \A c \in d[v] : c.id < tick /\ c.updated <= tick /\ c.messages # <<>> /\ c.messages = o[c.id]
    <3> SUFFICES ASSUME NEW v \in Workspaces, NEW c \in d[v]
                 PROVE  c.id < tick /\ c.updated <= tick /\ c.messages # <<>> /\ c.messages = o[c.id]
      OBVIOUS
    <3>1. \A b \in disk[v] : b.id < tick /\ b.updated <= tick /\ b.messages # <<>> /\ b.messages = owed[b.id]
      BY <1>2 DEF SavedOK
    <3>2. CASE v = w
      <4>1. PICK b \in disk[w] : b.id = c.id
        BY <1>7, <3>2
      <4>2. c.id < tick
        BY <3>1, <3>2, <4>1
      <4>3. c.updated <= tick /\ c.messages # <<>> /\ c.messages = o[c.id]
        BY <1>7, <3>1, <3>2
      <4> QED BY <4>2, <4>3
    <3>3. CASE v # w
      BY <1>6, <1>9, <3>1, <3>3
    <3> QED BY <3>2, <3>3
  <2>3. \A v, u \in Workspaces : \A c \in d[v] : \A e \in d[u] : c.id = e.id => v = u /\ c = e
    <3> SUFFICES ASSUME NEW v \in Workspaces, NEW u \in Workspaces, NEW c \in d[v], NEW e \in d[u], c.id = e.id
                 PROVE  v = u /\ c = e
      OBVIOUS
    <3>1. (\E b \in disk[v] : b.id = c.id) /\ \E b \in disk[u] : b.id = e.id
      BY <1>6, <1>7
    <3>2. v = u
      BY <1>2, <3>1 DEF SavedOK
    <3>3. CASE v = w
      BY <1>8, <3>2, <3>3
    <3>4. CASE v # w
      BY <1>2, <1>6, <3>2, <3>4 DEF SavedOK
    <3> QED BY <3>2, <3>3, <3>4
  <2>4. ASSUME NEW i \in ChatIds, o[i] # <<>>
        PROVE  \E v \in Workspaces : \E c \in d[v] : c.id = i
    <3>1. CASE i = id
      BY <1>3, <1>12, <3>1
    <3>2. CASE i # id
      <4>1. owed[i] # <<>>
        BY <1>2, <1>4, <1>5, <2>4, <3>2, GivenIs
      <4>2. PICK v \in Workspaces : \E c \in disk[v] : c.id = i
        BY <1>2, <4>1 DEF SavedOK
      <4> QED BY <1>12, <4>2
    <3> QED BY <3>1, <3>2
  <2> QED BY <2>1, <2>2, <2>3, <2>4 DEF SavedOK
<1>14. FilesOK(d, names)
  <2> SUFFICES ASSUME NEW v \in Workspaces, NEW e \in d[v], NEW i \in DOMAIN e.messages,
                      NEW f \in e.messages[i].files
               PROVE  Names(f) \subseteq names[e.id]
    BY DEF FilesOK
  <2>1. \A c \in disk[v] : c.id \in ChatIds
    BY <1>2 DEF ChatRecs
  <2>2. CASE v = w
    <3>1. Grown(disk[w], e, id, m)
      BY <1>1, <1>2, <1>4, <1>5, <2>2, GrownHolds
    <3>2. \/ e.messages[i] = m /\ e.id = id
          \/ \E c \in disk[w] : c.id = e.id /\ i \in DOMAIN c.messages /\ e.messages[i] = c.messages[i]
      BY <3>1 DEF Grown
    <3>3. ASSUME NEW c \in disk[w], c.id = e.id, i \in DOMAIN c.messages, e.messages[i] = c.messages[i]
          PROVE  Names(f) \subseteq names[e.id]
      <4>1. Names(f) \subseteq kept[c.id]
        BY <1>2, <3>3 DEF FilesOK
      <4> QED BY <2>1, <2>2, <3>3, <4>1
    <3> QED BY <3>2, <3>3
  <2>3. CASE v # w
    <3>1. e \in disk[v]
      BY <1>6, <2>3
    <3>2. Names(f) \subseteq kept[e.id]
      BY <1>2, <3>1 DEF FilesOK
    <3> QED BY <2>1, <3>1, <3>2
  <2> QED BY <2>2, <2>3
<1>15. \E e \in d[w] : e.id = id
  BY <1>3, <1>12
<1>16. ShownOK(list', current, transcript')
  BY <1>1 DEF ChatsInv, ShownOK
<1> QED BY <1>4, <1>5, <1>11, <1>12, <1>13, <1>14, <1>15, <1>16 DEF Wrote

LEMMA WriteKeeps ==
  ASSUME ChatBounds, ChatsInv, NEW w \in Workspaces, NEW id,
         \/ w = ws /\ id \in Ids(list)
         \/ \E c \in disk[w] : c.id = id,
         NEW m \in Sayings, Write(w, id, m),
         NEW names, \A i \in ChatIds : kept[i] \subseteq names[i],
         \A f \in m.files : Names(f) \subseteq names[id], UNCHANGED current
  PROVE  id \in ChatIds /\ Wrote(w, id, Given(id, m), names)
<1>1. CASE w = ws /\ id \in Ids(list)
  <2>1. Wrote(ws, id, Given(id, m), names)
    BY <1>1, WroteHere
  <2>2. id \in ChatIds
    BY <1>1 DEF ChatsInv, ChatsTyped, Ids, ChatRecs
  <2> QED BY <1>1, <2>1, <2>2
<1>2. CASE ~ (w = ws /\ id \in Ids(list))
  BY <1>2, WroteElsewhere
<1> QED BY <1>1, <1>2

-----------------------------------------------------------------------------
(* The steps.                                                              *)

LEMMA TypedAgain ==
  ASSUME ChatBounds, ChatsTyped, ws' \in Workspaces, tick' \in 1..(MaxTicks + 1), said' \in Nat,
         SetOK(list', ws', disk', owed', tick'), SavedOK(disk', owed', tick'),
         ShownOK(list', current', transcript'),
         \/ UNCHANGED diskCurrent
         \/ \E w \in Workspaces : diskCurrent' = [diskCurrent EXCEPT ![w] = current'],
         turns' \subseteq Answering, pending' \subseteq FileNames,
         kept' \in [ChatIds -> SUBSET FileNames], owed' \in [ChatIds -> Seq(Sayings)]
  PROVE  ChatsTyped'
<1>1. list' \subseteq ChatRecs /\ disk' \in [Workspaces -> SUBSET ChatRecs]
  BY DEF SetOK, SavedOK
<1>2. PICK c \in list' : c.id = current'
  BY DEF ShownOK
<1>3. current' \in Nat
  BY <1>1, <1>2 DEF ChatRecs, ChatIds
<1>4. diskCurrent' \in [Workspaces -> Nat]
  BY <1>3 DEF ChatsTyped
<1> QED BY <1>1, <1>4 DEF ChatsTyped

LEMMA NewStep ==
  ASSUME ChatBounds, ChatsInv, NewConversation
  PROVE  ChatsInv'
<1>1. Recorded = list /\ DiskRecorded = disk
  BY RecordedIsList, DiskRecordedIsDisk
<1>2. PICK r : r = Start(list, current)
  OBVIOUS
<1>3. /\ ClockGoesOn(r.chats) /\ list' = r.chats /\ current' = r.current /\ transcript' = <<>>
      /\ disk' = disk /\ diskCurrent' = [diskCurrent EXCEPT ![ws] = r.current]
      /\ UNCHANGED <<ws, turns, said, owed, pending, kept>>
  BY <1>1, <1>2 DEF NewConversation, AttachmentsKept
<1>4. ChatsTyped /\ ws \in Workspaces /\ tick \in 1..(MaxTicks + 1)
  BY DEF ChatsInv, ChatsTyped
<1>5. /\ SetOK(r.chats, ws, disk, owed, tick') /\ SavedOK(disk, owed, tick')
      /\ ShownOK(r.chats, r.current, <<>>) /\ tick' \in 1..(MaxTicks + 1)
  BY <1>2, <1>3, <1>4, Started DEF ChatsInv
<1>6. /\ SetOK(list', ws', disk', owed', tick') /\ SavedOK(disk', owed', tick')
      /\ ShownOK(list', current', transcript')
  BY <1>3, <1>5
<1>7. /\ turns' \subseteq Answering /\ pending' \subseteq FileNames /\ said' \in Nat
      /\ kept' \in [ChatIds -> SUBSET FileNames] /\ owed' \in [ChatIds -> Seq(Sayings)]
  BY <1>3, <1>4 DEF ChatsTyped
<1>8. ChatsTyped'
  BY <1>3, <1>4, <1>5, <1>6, <1>7, TypedAgain
<1> QED BY <1>3, <1>6, <1>8 DEF ChatsInv

LEMMA SelectStep ==
  ASSUME ChatBounds, ChatsInv, NEW id, SelectConversation(id)
  PROVE  ChatsInv'
<1>1. Recorded = list /\ DiskRecorded = disk
  BY RecordedIsList, DiskRecordedIsDisk
<1>2. /\ id \in Ids(list) /\ list' = list /\ disk' = disk /\ current' = id
      /\ diskCurrent' = [diskCurrent EXCEPT ![ws] = id] /\ transcript' = MessagesOf(list, id)
      /\ UNCHANGED <<ws, turns, tick, said, owed, pending, kept>>
  BY <1>1 DEF SelectConversation, AttachmentsKept
<1>3. /\ ChatsTyped /\ SetOK(list, ws, disk, owed, tick) /\ SavedOK(disk, owed, tick)
      /\ \A c, d \in list : c.id = d.id => c = d
  BY DEF ChatsInv, SetOK
<1>4. ShownOK(list', current', transcript')
  BY <1>2, <1>3, ShownIsThere
<1>5. SetOK(list', ws', disk', owed', tick') /\ SavedOK(disk', owed', tick')
  BY <1>2, <1>3
<1>6. /\ ws' \in Workspaces /\ tick' \in 1..(MaxTicks + 1) /\ said' \in Nat
      /\ turns' \subseteq Answering /\ pending' \subseteq FileNames
      /\ kept' \in [ChatIds -> SUBSET FileNames] /\ owed' \in [ChatIds -> Seq(Sayings)]
      /\ ws \in Workspaces
  BY <1>2, <1>3 DEF ChatsTyped
<1>7. ChatsTyped'
  BY <1>2, <1>3, <1>4, <1>5, <1>6, TypedAgain
<1> QED BY <1>2, <1>4, <1>5, <1>7 DEF ChatsInv

LEMMA DeleteKeeps ==
  ASSUME ChatBounds, ChatsInv, NEW id \in Ids(list), NEW d, NEW o,
         d = [disk EXCEPT ![ws] = {c \in @ : c.id # id}], o = [owed EXCEPT ![id] = <<>>]
  PROVE  /\ SetOK({c \in list : c.id # id}, ws, d, o, tick)
         /\ SavedOK(d, o, tick)
         /\ \A v \in Workspaces : d[v] = {c \in disk[v] : c.id # id}
         /\ o \in [ChatIds -> Seq(Sayings)]
<1>1. /\ ChatsTyped /\ SetOK(list, ws, disk, owed, tick) /\ SavedOK(disk, owed, tick)
      /\ ws \in Workspaces /\ disk \in [Workspaces -> SUBSET ChatRecs] /\ owed \in [ChatIds -> Seq(Sayings)]
      /\ list \subseteq ChatRecs
  BY DEF ChatsInv, ChatsTyped
<1>2. PICK a \in list : a.id = id
  BY DEF Ids
<1>3. id \in ChatIds
  BY <1>1, <1>2 DEF ChatRecs
<1>4. \A v \in Workspaces : d[v] = {c \in disk[v] : c.id # id}
  <2> TAKE v \in Workspaces
  <2>1. CASE v = ws
    BY <1>1, <2>1
  <2>2. CASE v # ws
    <3>1. \A c \in disk[v] : c.id # id
      BY <1>1, <1>2, <2>2 DEF SetOK
    <3>2. d[v] = disk[v]
      BY <1>1, <2>2
    <3> QED BY <3>1, <3>2
  <2> QED BY <2>1, <2>2
<1>5. <<>> \in Seq(Sayings)
  BY EmptySeq
<1>6. o \in [ChatIds -> Seq(Sayings)] /\ o[id] = <<>> /\ \A i \in ChatIds : i # id => o[i] = owed[i]
  BY <1>1, <1>3, <1>5
<1>7. PICK rest : rest = {c \in list : c.id # id}
  OBVIOUS
<1>8. \A c \in rest : c \in list /\ c.id # id /\ c.id \in ChatIds /\ o[c.id] = owed[c.id]
  BY <1>1, <1>6, <1>7 DEF ChatRecs
<1>9. SetOK(rest, ws, d, o, tick)
  <2>1. d[ws] = {c \in rest : c.messages # <<>>}
    BY <1>1, <1>4, <1>7 DEF SetOK
  <2>2. \A v \in Workspaces \ {ws} : \A c \in d[v] : \A e \in rest : c.id # e.id
    BY <1>1, <1>4, <1>8 DEF SetOK
  <2> QED BY <1>1, <1>8, <2>1, <2>2 DEF SetOK
<1>10. \A v \in Workspaces : \A c \in d[v] : c \in disk[v] /\ c.id # id /\ c.id \in ChatIds /\ o[c.id] = owed[c.id]
  BY <1>1, <1>4, <1>6 DEF ChatRecs
<1>11. SavedOK(d, o, tick)
  <2>1. d \in [Workspaces -> SUBSET ChatRecs]
    BY <1>1
  <2>2. \A i \in ChatIds : o[i] # <<>> => \E w \in Workspaces : \E c \in d[w] : c.id = i
    <3> SUFFICES ASSUME NEW i \in ChatIds, o[i] # <<>>
                 PROVE  \E w \in Workspaces : \E c \in d[w] : c.id = i
      OBVIOUS
    <3>1. i # id /\ owed[i] # <<>>
      BY <1>6
    <3>2. PICK w \in Workspaces : \E c \in disk[w] : c.id = i
      BY <1>1, <3>1 DEF SavedOK
    <3> QED BY <1>4, <3>1, <3>2
  <2> QED BY <1>1, <1>10, <2>1, <2>2 DEF SavedOK
<1> QED BY <1>4, <1>6, <1>7, <1>9, <1>11

LEMMA WithoutIs ==
  ASSUME ChatBounds, ChatsInv, NEW id \in Ids(list), NEW d, NEW o,
         d = [disk EXCEPT ![ws] = {c \in @ : c.id # id}], o = [owed EXCEPT ![id] = <<>>],
         ClockGoesOn(Without(id).chats)
  PROVE  LET r == Without(id) IN
         /\ SetOK(r.chats, ws, d, o, tick') /\ SavedOK(d, o, tick')
         /\ ShownOK(r.chats, r.current, MessagesOf(r.chats, r.current))
         /\ tick' \in 1..(MaxTicks + 1)
<1>1. PICK r : r = Without(id)
  OBVIOUS
<1>2. PICK rest : rest = {c \in list : c.id # id}
  OBVIOUS
<1>3. SetOK(rest, ws, d, o, tick) /\ SavedOK(d, o, tick)
  BY <1>2, DeleteKeeps
<1>4. r = IF current # id THEN [chats |-> rest, current |-> current]
          ELSE IF rest # {} THEN [chats |-> rest, current |-> Recent(rest).id]
          ELSE Start(rest, NoChat)
  BY <1>1, <1>2, RecordedIsList DEF Without
<1>5. tick \in 1..(MaxTicks + 1) /\ ws \in Workspaces
  BY DEF ChatsInv, ChatsTyped
<1>6. ASSUME r.chats = rest, r.current \in Ids(rest)
      PROVE  /\ SetOK(r.chats, ws, d, o, tick') /\ SavedOK(d, o, tick')
             /\ ShownOK(r.chats, r.current, MessagesOf(r.chats, r.current))
             /\ tick' \in 1..(MaxTicks + 1)
  <2>1. tick \notin Ids(rest)
    BY <1>3, <1>5 DEF Ids, SetOK, ChatRecs, ChatIds
  <2>2. tick' = tick
    BY <1>1, <1>6, <2>1 DEF ClockGoesOn
  <2>3. \A x, y \in rest : x.id = y.id => x = y
    BY <1>3 DEF SetOK
  <2>4. ShownOK(rest, r.current, MessagesOf(rest, r.current))
    BY <1>6, <2>3, ShownIsThere
  <2> QED BY <1>3, <1>5, <1>6, <2>2, <2>4
<1>7. CASE current # id
  <2>1. r.chats = rest /\ r.current = current
    BY <1>4, <1>7
  <2>2. current \in Ids(rest)
    BY <1>2, <1>7 DEF ChatsInv, ShownOK, Ids
  <2> QED BY <1>1, <1>6, <2>1, <2>2
<1>8. CASE current = id /\ rest # {}
  <2>1. r.chats = rest /\ r.current = Recent(rest).id
    BY <1>4, <1>8
  <2>2. rest \subseteq ChatRecs /\ \A c \in rest : c.updated <= tick
    BY <1>3 DEF SetOK
  <2>3. Recent(rest) \in rest
    BY <1>5, <1>8, <2>2, RecentIs
  <2>4. r.current \in Ids(rest)
    BY <2>1, <2>3 DEF Ids
  <2> QED BY <1>1, <1>6, <2>1, <2>4
<1>9. CASE current = id /\ rest = {}
  <2>1. r = Start(rest, NoChat)
    BY <1>4, <1>9
  <2>2. /\ SetOK(r.chats, ws, d, o, tick') /\ SavedOK(d, o, tick')
        /\ ShownOK(r.chats, r.current, <<>>) /\ tick' \in 1..(MaxTicks + 1)
    BY <1>1, <1>3, <1>5, <2>1, Started
  <2>3. \A x, y \in r.chats : x.id = y.id => x = y
    BY <2>2 DEF SetOK
  <2>4. ShownOK(r.chats, r.current, MessagesOf(r.chats, r.current))
    BY <2>2, <2>3, ShownIsThere
  <2> QED BY <1>1, <2>2, <2>4
<1> QED BY <1>7, <1>8, <1>9

LEMMA DeleteChatStep ==
  ASSUME ChatBounds, ChatsInv, NEW id, DeleteConversation(id)
  PROVE  ChatsInv'
<1>1. PICK r : r = Without(id)
  OBVIOUS
<1>2. /\ id \in Ids(list) /\ ClockGoesOn(r.chats)
      /\ turns' = Begun({t \in turns : t.chat # id})
      /\ list' = r.chats /\ current' = r.current
      /\ disk' = [disk EXCEPT ![ws] = {c \in @ : c.id # id}]
      /\ diskCurrent' = [diskCurrent EXCEPT ![ws] = r.current]
      /\ transcript' = MessagesOf(r.chats, r.current)
      /\ kept' = [kept EXCEPT ![id] = {}] /\ owed' = [owed EXCEPT ![id] = <<>>]
      /\ UNCHANGED <<ws, pending, said>>
  BY <1>1, DiskRecordedIsDisk DEF DeleteConversation
<1>3. /\ SetOK(list', ws, disk', owed', tick') /\ SavedOK(disk', owed', tick')
      /\ ShownOK(list', current', transcript') /\ tick' \in 1..(MaxTicks + 1)
  BY <1>1, <1>2, WithoutIs
<1>4. /\ \A v \in Workspaces : disk'[v] = {c \in disk[v] : c.id # id}
      /\ owed' \in [ChatIds -> Seq(Sayings)]
  BY <1>2, DeleteKeeps
<1>5. /\ ChatsTyped /\ ws \in Workspaces /\ turns \subseteq Answering /\ AnswersOK(turns, disk) /\ FilesOK(disk, kept)
      /\ kept \in [ChatIds -> SUBSET FileNames] /\ list \subseteq ChatRecs
      /\ disk \in [Workspaces -> SUBSET ChatRecs]
  BY DEF ChatsInv, ChatsTyped
<1>6. id \in ChatIds
  BY <1>2, <1>5 DEF Ids, ChatRecs
<1>7. turns' \subseteq Answering /\ AnswersOK(turns', disk')
  <2>1. PICK q : q = {t \in turns : t.chat # id}
    OBVIOUS
  <2>2. q \subseteq Answering
    BY <1>5, <2>1
  <2>3. AnswersOK(q, disk')
    BY <1>4, <1>5, <2>1 DEF AnswersOK, Answering
  <2> QED BY <1>2, <2>1, <2>2, <2>3, AnswersGoOn
<1>8. kept' \in [ChatIds -> SUBSET FileNames] /\ \A i \in ChatIds : i # id => kept'[i] = kept[i]
  BY <1>2, <1>5, <1>6
<1>9. FilesOK(disk', kept')
  BY <1>4, <1>5, <1>8 DEF FilesOK, ChatRecs
<1>10. ChatsTyped'
  <2>1. ws' \in Workspaces /\ said' \in Nat /\ pending' \subseteq FileNames
    BY <1>2, <1>5 DEF ChatsTyped
  <2> QED BY <1>2, <1>3, <1>4, <1>5, <1>7, <1>8, <2>1, TypedAgain
<1> QED BY <1>2, <1>3, <1>7, <1>9, <1>10 DEF ChatsInv

LEMMA NamesTyped ==
  ASSUME NEW files \in FilesNamed
  PROVE  /\ files \in Seq(Files) /\ Attached(files) \subseteq Files
         /\ AllNames(files) \subseteq FileNames
         /\ \A k \in 1..(2 * Len(files)) : NameAt(files, k) \in FileNames
<1>1. PICK n \in 0..(MOST_PER_MESSAGE + 1) : files \in [1..n -> Files]
  BY DEF FilesNamed
<1>2. files \in Seq(Files) /\ Len(files) = n /\ n \in Nat
  BY <1>1
<1>3. Attached(files) \subseteq Files
  BY <1>1 DEF Attached
<1>4. AllNames(files) \subseteq FileNames
  BY <1>3 DEF AllNames, Names, FileNames
<1>5. ASSUME NEW k \in 1..(2 * Len(files)) PROVE NameAt(files, k) \in FileNames
  <2>1. (k + 1) \div 2 \in 1..n
    BY <1>2
  <2>2. files[(k + 1) \div 2] \in Files
    BY <1>1, <2>1
  <2> QED BY <2>2 DEF NameAt, FileNames
<1> QED BY <1>2, <1>3, <1>4, <1>5

\* Nothing that is saved, shown or queued changes.
LEMMA StoreStays ==
  ASSUME ChatsInv, UNCHANGED <<disk, diskCurrent, ws, list, current, transcript, turns, tick, said, owed>>,
         pending' \subseteq FileNames, kept' \in [ChatIds -> SUBSET FileNames],
         \A i \in ChatIds : kept[i] \subseteq kept'[i]
  PROVE  ChatsInv'
<1>1. ChatsTyped'
  BY DEF ChatsInv, ChatsTyped
<1>2. FilesOK(disk', kept')
  BY DEF ChatsInv, ChatsTyped, FilesOK, ChatRecs
<1> QED BY <1>1, <1>2 DEF ChatsInv, ShownOK

LEMMA AddStep ==
  ASSUME ChatsInv, NEW f \in Files, NEW whole \in BOOLEAN, AddAttachment(f, whole)
  PROVE  ChatsInv'
<1>1. Names(f) \subseteq FileNames
  BY DEF Names, FileNames
<1>2. pending' \subseteq FileNames /\ kept \in [ChatIds -> SUBSET FileNames]
  BY <1>1 DEF AddAttachment, ChatsInv, ChatsTyped
<1>3. UNCHANGED <<disk, diskCurrent, ws, list, current, transcript, turns, kept, tick, said, owed>>
  BY DEF AddAttachment
<1> QED BY <1>2, <1>3, StoreStays

LEMMA TakeFailsStep ==
  ASSUME ChatsInv, NEW id \in Ids(list), NEW files \in FilesNamed, NEW n \in 1..(2 * Len(files)),
         TakeFails(id, files, n)
  PROVE  ChatsInv'
<1>1. /\ kept \in [ChatIds -> SUBSET FileNames] /\ pending \subseteq FileNames
      /\ list \subseteq ChatRecs
  BY DEF ChatsInv, ChatsTyped
<1>2. id \in ChatIds
  BY <1>1 DEF Ids, ChatRecs
<1>3. PICK moved : moved = Moved(id, files, n - 1)
  OBVIOUS
<1>4. moved \subseteq FileNames /\ moved \cap kept[id] = {}
  <2>1. n - 1 <= 2 * Len(files) /\ n \in Nat /\ 2 * Len(files) \in Int
    BY NamesTyped, LenProperties
  <2>2. \A k \in 1..(n - 1) : k \in 1..(2 * Len(files))
    BY <2>1
  <2>3. \A k \in 1..(n - 1) : NameAt(files, k) \in FileNames
    BY <2>2, NamesTyped
  <2> QED BY <1>3, <2>3 DEF Moved
<1>5. /\ kept' = [kept EXCEPT ![id] = (@ \cup moved) \ moved]
      /\ pending' = pending \cup moved
      /\ UNCHANGED <<disk, diskCurrent, ws, list, current, transcript, turns, tick, said, owed>>
  BY <1>3 DEF TakeFails, PutBack
<1>6. (kept[id] \cup moved) \ moved = kept[id]
  BY <1>4
<1>7. kept' = kept
  BY <1>1, <1>2, <1>5, <1>6
<1> QED BY <1>1, <1>4, <1>5, <1>7, StoreStays

LEMMA SaidMore ==
  ASSUME ChatBounds, ChatsInv, NEW w \in Workspaces, NEW id, NEW m \in Sayings, Write(w, id, m),
         \/ w = ws /\ id \in Ids(list)
         \/ \E c \in disk[w] : c.id = id,
         owed' = [owed EXCEPT ![id] = Append(@, m)],
         kept' \in [ChatIds -> SUBSET FileNames], \A i \in ChatIds : kept[i] \subseteq kept'[i],
         \A f \in m.files : Names(f) \subseteq kept'[id],
         pending' \subseteq FileNames, said' \in Nat, UNCHANGED <<diskCurrent, ws, current, tick>>,
         NEW q, q \subseteq Answering, turns' = Begun(q),
         \A t \in q : t \in turns \/ (t.chat = id /\ t.ws = w)
  PROVE  ChatsInv'
<1>1. id \in ChatIds /\ Wrote(w, id, Given(id, m), kept')
  BY WriteKeeps
<1>2. ChatsTyped /\ AnswersOK(turns, disk) /\ turns \subseteq Answering
  BY DEF ChatsInv, ChatsTyped
<1>3. owed' = Given(id, m) /\ owed' \in [ChatIds -> Seq(Sayings)]
  BY <1>1, <1>2, GivenIs DEF Given
<1>4. /\ SetOK(list', ws', disk', owed', tick') /\ SavedOK(disk', owed', tick')
      /\ ShownOK(list', current', transcript') /\ FilesOK(disk', kept')
      /\ \A v \in Workspaces : \A c \in disk[v] : \E e \in disk'[v] : e.id = c.id
      /\ \E e \in disk'[w] : e.id = id
  BY <1>1, <1>3 DEF Wrote
<1>5. AnswersOK(q, disk')
  <2> SUFFICES ASSUME NEW t \in q PROVE \E e \in disk'[t.ws] : e.id = t.chat
    BY DEF AnswersOK
  <2>1. CASE t \in turns
    <3>1. t.ws \in Workspaces
      BY DEF Answering
    <3>2. PICK c \in disk[t.ws] : c.id = t.chat
      BY <1>2, <2>1 DEF AnswersOK
    <3> QED BY <1>4, <3>1, <3>2
  <2>2. CASE t.chat = id /\ t.ws = w
    BY <1>4, <2>2
  <2> QED BY <2>1, <2>2
<1>6. turns' \subseteq Answering /\ AnswersOK(turns', disk')
  BY <1>5, AnswersGoOn
<1>7. ws' \in Workspaces /\ tick' \in 1..(MaxTicks + 1)
  BY <1>2 DEF ChatsTyped
<1>8. ChatsTyped'
  BY <1>2, <1>3, <1>4, <1>6, <1>7, TypedAgain
<1> QED BY <1>4, <1>6, <1>8 DEF ChatsInv

LEMMA SendStep ==
  ASSUME ChatBounds, ChatsInv, NEW id \in Ids(list), NEW files \in FilesNamed, SendMessage(id, files)
  PROVE  ChatsInv'
<1>1. /\ kept \in [ChatIds -> SUBSET FileNames] /\ pending \subseteq FileNames
      /\ list \subseteq ChatRecs /\ turns \subseteq Answering /\ said \in Nat /\ ws \in Workspaces
  BY DEF ChatsInv, ChatsTyped
<1>2. id \in ChatIds
  BY <1>1 DEF Ids, ChatRecs
<1>3. /\ Attached(files) \subseteq Files /\ AllNames(files) \subseteq FileNames
  BY NamesTyped
<1>4. PICK m : m = [n |-> said + 1, by |-> "person", files |-> Attached(files)]
  OBVIOUS
<1>5. m \in Sayings /\ m.files = Attached(files)
  BY <1>1, <1>3, <1>4 DEF Sayings
<1>6. PICK t : t = [chat |-> id, ws |-> ws, state |-> "waiting", at |-> said + 1]
  OBVIOUS
<1>7. t \in Answering /\ t.chat = id /\ t.ws = ws
  BY <1>1, <1>2, <1>6 DEF Answering
<1>8. /\ Write(ws, id, m) /\ owed' = [owed EXCEPT ![id] = Append(@, m)]
      /\ turns' = Begun(turns \cup {t}) /\ said' = said + 1
      /\ kept' = [kept EXCEPT ![id] = @ \cup AllNames(files)] /\ pending' = pending \ AllNames(files)
      /\ UNCHANGED <<diskCurrent, ws, current, tick>>
  BY <1>4, <1>6 DEF SendMessage, Take
<1>9. /\ kept' \in [ChatIds -> SUBSET FileNames] /\ \A i \in ChatIds : kept[i] \subseteq kept'[i]
      /\ AllNames(files) \subseteq kept'[id]
  BY <1>1, <1>2, <1>3, <1>8
<1>10. \A f \in m.files : Names(f) \subseteq kept'[id]
  BY <1>5, <1>9 DEF AllNames
<1>11. said' \in Nat /\ pending' \subseteq FileNames
  BY <1>1, <1>8
<1>12. turns \cup {t} \subseteq Answering /\ \A u \in turns \cup {t} : u \in turns \/ (u.chat = id /\ u.ws = ws)
  BY <1>1, <1>7
<1> QED BY <1>1, <1>5, <1>8, <1>9, <1>10, <1>11, <1>12, SaidMore

LEMMA AnswerEndsStep ==
  ASSUME ChatBounds, ChatsInv, AnswerEnds
  PROVE  ChatsInv'
<1>1. /\ kept \in [ChatIds -> SUBSET FileNames] /\ pending \subseteq FileNames
      /\ turns \subseteq Answering /\ said \in Nat /\ AnswersOK(turns, disk)
  BY DEF ChatsInv, ChatsTyped
<1>2. PICK m : m = [n |-> said + 1, by |-> "model", files |-> {}]
  OBVIOUS
<1>3. PICK t \in turns :
        /\ Write(t.ws, t.chat, m) /\ turns' = Begun(turns \ {t})
        /\ owed' = [owed EXCEPT ![t.chat] = Append(@, m)]
  BY <1>2 DEF AnswerEnds
<1>4. said' = said + 1 /\ UNCHANGED <<diskCurrent, ws, current, tick, pending, kept>>
  BY DEF AnswerEnds, AttachmentsKept
<1>5. m \in Sayings /\ m.files = {}
  BY <1>1, <1>2 DEF Sayings
<1>6. t.ws \in Workspaces /\ \E c \in disk[t.ws] : c.id = t.chat
  BY <1>1 DEF Answering, AnswersOK
<1>7. /\ said' \in Nat /\ pending' \subseteq FileNames /\ kept' \in [ChatIds -> SUBSET FileNames]
      /\ \A i \in ChatIds : kept[i] \subseteq kept'[i]
      /\ \A f \in m.files : Names(f) \subseteq kept'[t.chat]
  BY <1>1, <1>4, <1>5
<1>8. turns \ {t} \subseteq Answering /\ \A u \in turns \ {t} : u \in turns \/ (u.chat = t.chat /\ u.ws = t.ws)
  BY <1>1
<1> QED BY <1>3, <1>4, <1>5, <1>6, <1>7, <1>8, SaidMore

LEMMA EntersIs ==
  ASSUME ChatBounds, ChatsInv, NEW w \in Workspaces, Enters(w)
  PROVE  /\ SetOK(list', w, disk, owed, tick') /\ SavedOK(disk, owed, tick')
         /\ ShownOK(list', current', transcript') /\ tick' \in 1..(MaxTicks + 1)
         /\ diskCurrent' = [diskCurrent EXCEPT ![w] = current']
<1>1. PICK r : r = LoadSet(w)
  OBVIOUS
<1>2. /\ ClockGoesOn(r.chats) /\ list' = r.chats /\ current' = r.current
      /\ transcript' = MessagesOf(r.chats, r.current)
      /\ diskCurrent' = [diskCurrent EXCEPT ![w] = r.current]
  BY <1>1 DEF Enters
<1> QED BY <1>1, <1>2, LoadedSet

LEMMA SelectWorkspaceStep ==
  ASSUME ChatBounds, ChatsInv, NEW w \in Workspaces, SelectWorkspace(w)
  PROVE  ChatsInv'
<1>1. /\ Enters(w) /\ turns' = StoppedOnLeaving /\ disk' = disk /\ ws' = w
      /\ UNCHANGED <<pending, kept, said, owed>>
  BY DiskRecordedIsDisk DEF SelectWorkspace
<1>2. /\ SetOK(list', ws', disk', owed', tick') /\ SavedOK(disk', owed', tick')
      /\ ShownOK(list', current', transcript') /\ tick' \in 1..(MaxTicks + 1)
      /\ diskCurrent' = [diskCurrent EXCEPT ![w] = current']
  BY <1>1, EntersIs
<1>3. /\ ChatsTyped /\ turns \subseteq Answering /\ AnswersOK(turns, disk) /\ FilesOK(disk, kept)
  BY DEF ChatsInv, ChatsTyped
<1>4. turns' \subseteq Answering /\ AnswersOK(turns', disk')
  BY <1>1, <1>3 DEF StoppedOnLeaving, AnswersOK
<1>5. /\ pending' \subseteq FileNames /\ said' \in Nat
      /\ kept' \in [ChatIds -> SUBSET FileNames] /\ owed' \in [ChatIds -> Seq(Sayings)]
  BY <1>1, <1>3 DEF ChatsTyped
<1>6. ChatsTyped'
  BY <1>1, <1>2, <1>3, <1>4, <1>5, TypedAgain
<1>7. FilesOK(disk', kept')
  BY <1>1, <1>3
<1> QED BY <1>2, <1>4, <1>6, <1>7 DEF ChatsInv

LEMMA CoreRestartsStep ==
  ASSUME ChatBounds, ChatsInv, NEW id \in Ids(list), NEW files \in FilesNamed,
         NEW n \in 0..(2 * Len(files)), CoreRestarts(id, files, n)
  PROVE  ChatsInv'
<1>1. /\ ChatsTyped /\ FilesOK(disk, kept) /\ kept \in [ChatIds -> SUBSET FileNames]
      /\ list \subseteq ChatRecs /\ ws \in Workspaces /\ disk \in [Workspaces -> SUBSET ChatRecs]
  BY DEF ChatsInv, ChatsTyped
<1>2. id \in ChatIds
  BY <1>1 DEF Ids, ChatRecs
<1>3. /\ Enters(ws) /\ turns' = {} /\ pending' = {}
      /\ kept' = [kept EXCEPT ![id] = @ \cup Moved(id, files, n)]
      /\ UNCHANGED <<disk, ws, said, owed>>
  BY DEF CoreRestarts
<1>4. /\ SetOK(list', ws', disk', owed', tick') /\ SavedOK(disk', owed', tick')
      /\ ShownOK(list', current', transcript') /\ tick' \in 1..(MaxTicks + 1)
      /\ diskCurrent' = [diskCurrent EXCEPT ![ws] = current']
  BY <1>1, <1>3, EntersIs
<1>5. Moved(id, files, n) \subseteq FileNames
  <2>1. n <= 2 * Len(files) /\ n \in Nat /\ 2 * Len(files) \in Int
    BY NamesTyped, LenProperties
  <2>2. \A k \in 1..n : k \in 1..(2 * Len(files))
    BY <2>1
  <2>3. \A k \in 1..n : NameAt(files, k) \in FileNames
    BY <2>2, NamesTyped
  <2> QED BY <2>3 DEF Moved
<1>6. kept' \in [ChatIds -> SUBSET FileNames] /\ \A i \in ChatIds : kept[i] \subseteq kept'[i]
  BY <1>1, <1>2, <1>3, <1>5
<1>7. FilesOK(disk', kept')
  BY <1>1, <1>3, <1>6 DEF FilesOK, ChatRecs
<1>8. turns' \subseteq Answering /\ AnswersOK(turns', disk') /\ pending' \subseteq FileNames
  BY <1>3 DEF AnswersOK
<1>9. ws' \in Workspaces /\ said' \in Nat /\ owed' \in [ChatIds -> Seq(Sayings)]
  BY <1>1, <1>3 DEF ChatsTyped
<1>10. ChatsTyped'
  BY <1>1, <1>4, <1>6, <1>8, <1>9, TypedAgain
<1> QED BY <1>4, <1>7, <1>8, <1>10 DEF ChatsInv

LEMMA ChatsBegin ==
  ASSUME ChatBounds, ChatInit
  PROVE  ChatsInv
<1>1. PICK c : c = [id |-> 1, updated |-> 1, messages |-> <<>>]
  OBVIOUS
<1>2. <<>> \in Seq(Sayings) /\ 1 \in ChatIds /\ MaxTicks \in Nat
  BY EmptySeq DEF ChatIds, ChatBounds
<1>3. c \in ChatRecs /\ c.id = 1 /\ c.updated = 1 /\ c.messages = <<>>
  BY <1>1, <1>2 DEF ChatRecs
<1>4. /\ list = {c} /\ current = 1 /\ transcript = <<>> /\ turns = {} /\ tick = 2
      /\ disk = [w \in Workspaces |-> {}] /\ owed = [i \in ChatIds |-> <<>>]
      /\ kept = [i \in ChatIds |-> {}] /\ pending = {} /\ said = 0 /\ ws = Home
      /\ diskCurrent = [w \in Workspaces |-> IF w = Home THEN 1 ELSE 0]
  BY <1>1 DEF ChatInit, NoChat
<1>5. ChatsTyped
  <2>1. disk \in [Workspaces -> SUBSET ChatRecs] /\ diskCurrent \in [Workspaces -> Nat]
    BY <1>4
  <2>2. tick \in 1..(MaxTicks + 1)
    BY <1>2, <1>4 DEF ChatBounds
  <2>3. owed \in [ChatIds -> Seq(Sayings)] /\ kept \in [ChatIds -> SUBSET FileNames]
    BY <1>2, <1>4
  <2> QED BY <1>3, <1>4, <2>1, <2>2, <2>3 DEF ChatsTyped, ChatBounds
<1>6. SetOK(list, ws, disk, owed, tick)
  BY <1>2, <1>3, <1>4 DEF SetOK, ChatBounds
<1>7. SavedOK(disk, owed, tick)
  BY <1>4 DEF SavedOK
<1>8. ShownOK(list, current, transcript)
  BY <1>3, <1>4 DEF ShownOK
<1>9. AnswersOK(turns, disk) /\ FilesOK(disk, kept)
  BY <1>4 DEF AnswersOK, FilesOK
<1> QED BY <1>5, <1>6, <1>7, <1>8, <1>9 DEF ChatsInv

LEMMA ChatsStutter ==
  ASSUME ChatsInv, UNCHANGED chatVars
  PROVE  ChatsInv'
BY DEF ChatsInv, ChatsTyped, chatVars, ShownOK

LEMMA ChatsStep ==
  ASSUME ChatBounds, ChatsInv, [ChatNext]_chatVars
  PROVE  ChatsInv'
<1>1. CASE NewConversation
  BY <1>1, NewStep
<1>2. CASE AnswerEnds
  BY <1>2, AnswerEndsStep
<1>3. CASE \E id \in Ids(list) : SelectConversation(id) \/ DeleteConversation(id)
  BY <1>3, SelectStep, DeleteChatStep
<1>4. CASE \E f \in Files, whole \in BOOLEAN : AddAttachment(f, whole)
  BY <1>4, AddStep
<1>5. CASE \E id \in Ids(list), files \in FilesNamed :
             \/ SendMessage(id, files)
             \/ \E n \in 1..(2 * Len(files)) : TakeFails(id, files, n)
             \/ \E n \in 0..(2 * Len(files)) : CoreRestarts(id, files, n)
  BY <1>5, SendStep, TakeFailsStep, CoreRestartsStep
<1>6. CASE \E w \in Workspaces : SelectWorkspace(w)
  BY <1>6, SelectWorkspaceStep
<1>7. CASE UNCHANGED chatVars
  BY <1>7, ChatsStutter
<1> QED BY <1>1, <1>2, <1>3, <1>4, <1>5, <1>6, <1>7 DEF ChatNext

LEMMA ChatsAlways == ChatSpec => []ChatsInv
<1>1. ChatInit => ChatsInv
  BY ChatBounds, ChatsBegin
<1>2. ChatsInv /\ [ChatNext]_chatVars => ChatsInv'
  BY ChatBounds, ChatsStep
<1> QED BY <1>1, <1>2, PTL DEF ChatSpec

-----------------------------------------------------------------------------

\* A chat keeps what it was given, for any number of workspaces, chats,
\* messages and files: every message a person sent and every answer that ended
\* is in its own chat, in order, on disk at once, wherever its person was by
\* then, and a file that went with a message stays as long as its chat does,
\* whatever moves failed or were cut short by a kill (conversations.rs,
\* attachments.rs, agent.rs write and end).
THEOREM ChatsAlwaysKept == ChatSpec => []ChatsAreKept
<1>1. ChatsInv => ChatsAreKept
  <2> SUFFICES ASSUME ChatsInv PROVE ChatsAreKept
    OBVIOUS
  <2>1. SetOK(list, ws, disk, owed, tick) /\ SavedOK(disk, owed, tick) /\ ShownOK(list, current, transcript)
    BY DEF ChatsInv
  <2>2. current \in Ids(list) /\ transcript = MessagesOf(list, current)
    <3>1. \A c, d \in list : c.id = d.id => c = d
      BY <2>1 DEF SetOK
    <3> QED BY <2>1, <3>1, ShownIsThere
  <2>3. ChatsKeepWords
    BY <2>1, <2>2 DEF ChatsKeepWords, SetOK, SavedOK
  <2>4. SentFilesStay
    BY DEF ChatsInv, FilesOK, SentFilesStay
  <2> QED BY <2>3, <2>4 DEF ChatsAreKept
<1> QED BY <1>1, ChatsAlways, PTL

=============================================================================
