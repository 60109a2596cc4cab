---------------------------- MODULE AccountsProof ----------------------------
(***************************************************************************)
(* Who people are and what they may do: what was ended or used up is over, *)
(* and access is decided by what was answered, for any people, links,      *)
(* sessions, sockets, workspaces and documents, whatever fails or is       *)
(* killed between the writes of a request; and guessing is paced.          *)
(*                                                                         *)
(* Of identity the properties speak of the tables; what makes them         *)
(* inductive is what the request under way still means to write            *)
(* (ScriptOK): an answer that says sessions are ended comes after the      *)
(* writes that end them, and a password is written under a link only once  *)
(* no other can be.                                                        *)
(*                                                                         *)
(* Of access the check looks at Core's memory, a restart fills it from the *)
(* database, and the properties speak of neither but of what was answered. *)
(* So the invariant ties both copies to the answers, each but for what the *)
(* database failed to take, and says of both that a personal workspace has *)
(* no second member and a known document a workspace.                      *)
(***************************************************************************)
EXTENDS Identity, Access, SequenceTheorems, FiniteSetTheorems, WellFoundedInduction, TLAPS

-----------------------------------------------------------------------------
(* Identity.                                                               *)

(* The inductive invariant. *)

TablesOK ==
  /\ now \in Nat
  /\ account \in [Users -> Accounts]
  /\ link \in Seq(Links) /\ DOMAIN link \subseteq 1..MaxLinks
  /\ session \in Seq(Sessions) /\ DOMAIN session \subseteq 1..MaxSessions
  /\ spent \in [1..MaxLinks -> Nat]
  /\ over \in [1..MaxSessions -> Int]

\* A session that was answered as ended is revoked in its record.
OverOK ==
  \A s \in 1..MaxSessions : over[s] /= Never =>
    s \in DOMAIN session /\ session[s].revoked /\ over[s] \in Nat /\ over[s] <= now

\* A socket was looked at in time, and then its session was live.
SocketsOK ==
  \A k \in sockets :
    /\ k.session \in DOMAIN session /\ k.checked \in Nat
    /\ k.checked <= now /\ now <= k.checked + RevalidateEvery
    /\ over[k.session] /= Never => k.checked <= over[k.session]

CallsOK ==
  \A c \in calls :
    /\ c.session \in DOMAIN session /\ c.at \in Nat /\ c.at <= now
    /\ over[c.session] /= Never => c.at <= over[c.session] + RevalidateEvery

\* A link that set a password opens nothing any more: it is used, or it made
\* the first account.
LinksOK ==
  /\ \A l \in 1..MaxLinks : l \notin DOMAIN link => spent[l] = 0
  /\ \A l \in DOMAIN link : spent[l] > 0 =>
       spent[l] = 1 /\ IF link[l].user = FirstAdmin THEN ~NoAccounts ELSE link[l].used
  /\ \A l, m \in DOMAIN link :
       (link[l].user = FirstAdmin /\ link[m].user = FirstAdmin /\ spent[l] > 0 /\ spent[m] > 0)
         => l = m

\* A write of an account makes one; a write to a record that is there keeps
\* whose it is and ends it.
WriteOK(w) ==
  /\ w.put = "account" => w.at \in Users /\ w.to \in Accounts /\ w.to.made
  /\ w.put = "link" =>
       /\ w.to \in Links
       /\ IF w.at \in DOMAIN link THEN w.to.used /\ w.to.user = link[w.at].user
          ELSE w.at = Len(link) + 1 /\ w.at <= MaxLinks
  /\ w.put = "session" =>
       /\ w.to \in Sessions
       /\ IF w.at \in DOMAIN session THEN w.to.revoked /\ w.to.user = session[w.at].user
          ELSE w.at = Len(session) + 1 /\ w.at <= MaxSessions

Ends(w, s) ==
  \/ w.put = "revoke" /\ w.at = session[s].user
  \/ w.put = "session" /\ w.at = s /\ w.to.revoked

\* Before an answer come the writes that make it true.
Promised(sc) ==
  \A i \in DOMAIN sc : sc[i].put = "answer" =>
    \A s \in sc[i].at :
      /\ s \in DOMAIN session
      /\ session[s].revoked \/ \E j \in DOMAIN sc : j < i /\ Ends(sc[j], s)

\* A password under a link is the link's first: it is written first of all and
\* there is nobody, or the link is spent before it.
Passworded(sc) ==
  \A i \in DOMAIN sc : sc[i].put = "account" /\ sc[i].link /= 0 =>
    LET l == sc[i].link
    IN  /\ l \in DOMAIN link /\ spent[l] = 0
        /\ \/ link[l].user = FirstAdmin /\ i = 1 /\ NoAccounts
           \/ /\ link[l].user /= FirstAdmin
              /\ link[l].used \/ \E j \in DOMAIN sc : j < i /\ sc[j].put = "link" /\ sc[j].at = l

IsSeq(sc) == \E T : sc \in Seq(T)
Distinct(sc) == \A i, j \in DOMAIN sc : sc[i].put = sc[j].put => i = j

ScriptOK(sc) ==
  /\ IsSeq(sc) /\ Distinct(sc)
  /\ \A i \in DOMAIN sc : WriteOK(sc[i])
  /\ Promised(sc) /\ Passworded(sc)

IdentityInv ==
  TablesOK /\ OverOK /\ SocketsOK /\ CallsOK /\ LinksOK /\ ScriptOK(script)

-----------------------------------------------------------------------------
(* It implies what the runs check. *)

LEMMA InvEnds == IdentityInv => EndedStaysEnded
BY DEF IdentityInv, TablesOK, OverOK, EndedStaysEnded, Live

LEMMA InvSockets == IdentityInv => SocketsFollowSessions
BY DEF IdentityInv, CallsOK, SocketsFollowSessions

LEMMA InvLinks == IdentityInv => LinksWorkOnce
<1> SUFFICES ASSUME IdentityInv PROVE LinksWorkOnce
  OBVIOUS
<1> DEFINE S == {l \in DOMAIN link : link[l].user = FirstAdmin /\ spent[l] > 0}
<1>1. \A l \in DOMAIN link : spent[l] <= 1
  <2>1. \A l \in DOMAIN link : spent[l] \in Nat /\ (spent[l] > 0 => spent[l] = 1)
    BY DEF IdentityInv, TablesOK, LinksOK
  <2> QED
    BY <2>1
<1>2. \A l, m \in S : l = m
  BY DEF IdentityInv, LinksOK
<1> HIDE DEF S
<1>4. CASE S /= {}
  <2>1. PICK l : l \in S
    BY <1>4
  <2>2. S = {l}
    BY <1>2, <2>1
  <2>3. Cardinality(S) = 1
    BY <2>2, FS_Singleton
  <2> QED
    BY <1>1, <2>3 DEF LinksWorkOnce, S
<1>5. S = {} => Cardinality(S) = 0
  BY FS_EmptySet
<1> QED
  BY <1>1, <1>4, <1>5 DEF LinksWorkOnce, S

-----------------------------------------------------------------------------
(* The list of writes gets shorter. *)

LEMMA PopFacts ==
  ASSUME NEW sc, IsSeq(sc), sc /= <<>>
  PROVE  /\ IsSeq(Tail(sc)) /\ 1 \in DOMAIN sc /\ sc[1] = Head(sc)
         /\ \A i \in DOMAIN sc : i \in Nat \ {0}
         /\ \A i \in DOMAIN Tail(sc) : i \in Nat \ {0} /\ i + 1 \in DOMAIN sc /\ Tail(sc)[i] = sc[i + 1]
         /\ \A i \in DOMAIN sc : i /= 1 => i - 1 \in DOMAIN Tail(sc) /\ Tail(sc)[i - 1] = sc[i]
<1>1. PICK T : sc \in Seq(T)
  BY DEF IsSeq
<1>2. /\ Tail(sc) \in Seq(T) /\ Len(Tail(sc)) = Len(sc) - 1 /\ Len(sc) \in Nat \ {0}
      /\ \A i \in 1..Len(Tail(sc)) : Tail(sc)[i] = sc[i + 1]
  BY <1>1, HeadTailProperties, EmptySeq
<1>3. DOMAIN sc = 1..Len(sc) /\ DOMAIN Tail(sc) = 1..Len(Tail(sc))
  BY <1>1, <1>2, LenProperties
<1>4. sc[1] = Head(sc)
  BY <1>1, <1>2
<1>5. IsSeq(Tail(sc))
  BY <1>2 DEF IsSeq
<1>6. \A i \in DOMAIN sc : i /= 1 => i - 1 \in DOMAIN Tail(sc) /\ (i - 1) + 1 = i
  BY <1>2, <1>3
<1> QED
  BY <1>2, <1>3, <1>4, <1>5, <1>6

\* What a write, w, may do to the tables while the list that begins with it is
\* right: only its own kind of record, as it says.
Effect(w) ==
  /\ \A s \in DOMAIN session :
       /\ s \in DOMAIN session' /\ session'[s].user = session[s].user
       /\ session[s].revoked => session'[s].revoked
       /\ Ends(w, s) => session'[s].revoked
  /\ w.put /= "session" => DOMAIN session' = DOMAIN session /\ Len(session') = Len(session)
  /\ \A l \in DOMAIN link :
       /\ l \in DOMAIN link' /\ link'[l].user = link[l].user
       /\ link[l].used => link'[l].used
       /\ w.put = "link" /\ w.at = l => link'[l].used
  /\ w.put /= "link" => DOMAIN link' = DOMAIN link /\ Len(link') = Len(link)
  /\ \A l \in DOMAIN link : spent'[l] = spent[l] \/ (w.put = "account" /\ w.link = l)

LEMMA Popped ==
  ASSUME ScriptOK(script), script /= <<>>, script' = Tail(script), Effect(Head(script))
  PROVE  ScriptOK(script)'
<1>1. PICK sc, w, rest : sc = script /\ w = Head(script) /\ rest = Tail(script)
  OBVIOUS
<1>2. /\ IsSeq(rest) /\ 1 \in DOMAIN sc /\ sc[1] = w
      /\ \A i \in DOMAIN sc : i \in Nat \ {0}
      /\ \A i \in DOMAIN rest : i \in Nat \ {0} /\ i + 1 \in DOMAIN sc /\ rest[i] = sc[i + 1]
      /\ \A i \in DOMAIN sc : i /= 1 => i - 1 \in DOMAIN rest /\ rest[i - 1] = sc[i]
  BY <1>1, PopFacts DEF ScriptOK
<1>3. /\ Distinct(sc) /\ \A i \in DOMAIN sc : WriteOK(sc[i])
      /\ Promised(sc) /\ Passworded(sc) /\ Effect(w)
  BY <1>1 DEF ScriptOK
<1>4. \A i \in DOMAIN rest : rest[i].put /= w.put
  BY <1>2, <1>3 DEF Distinct
<1>5. Distinct(rest)
  BY <1>2, <1>3 DEF Distinct
<1>6. ASSUME NEW i \in DOMAIN rest PROVE WriteOK(rest[i])'
  <2>1. WriteOK(rest[i]) /\ rest[i].put /= w.put
    BY <1>2, <1>3, <1>4
  <2> QED
    BY <1>3, <2>1 DEF WriteOK, Effect
<1>7. ASSUME NEW i \in DOMAIN rest, rest[i].put = "answer", NEW s \in rest[i].at
      PROVE  /\ s \in DOMAIN session'
             /\ session'[s].revoked \/ \E j \in DOMAIN rest : j < i /\ Ends(rest[j], s)'
  <2>1. i + 1 \in DOMAIN sc /\ sc[i + 1] = rest[i] /\ i \in Nat \ {0}
    BY <1>2
  <2>2. /\ s \in DOMAIN session
        /\ session[s].revoked \/ \E j \in DOMAIN sc : j < i + 1 /\ Ends(sc[j], s)
    BY <1>3, <1>7, <2>1 DEF Promised
  <2>3. CASE session[s].revoked \/ Ends(w, s)
    BY <1>3, <2>2, <2>3 DEF Effect
  <2>4. ASSUME NEW j \in DOMAIN sc, j < i + 1, Ends(sc[j], s), ~Ends(w, s)
        PROVE  \E k \in DOMAIN rest : k < i /\ Ends(rest[k], s)'
    <3>1. j /= 1 /\ j - 1 \in DOMAIN rest /\ rest[j - 1] = sc[j] /\ j - 1 < i
      BY <1>2, <2>1, <2>4
    <3>2. Ends(rest[j - 1], s)'
      BY <1>3, <2>2, <2>4, <3>1 DEF Ends, Effect
    <3> QED
      BY <3>1, <3>2
  <2> QED
    BY <1>3, <2>2, <2>3, <2>4 DEF Effect
<1>8. ASSUME NEW i \in DOMAIN rest, rest[i].put = "account", rest[i].link /= 0
      PROVE  LET l == rest[i].link
             IN  /\ l \in DOMAIN link' /\ spent'[l] = 0 /\ link'[l].user /= FirstAdmin
                 /\ link'[l].used
                    \/ \E j \in DOMAIN rest : j < i /\ rest[j].put = "link" /\ rest[j].at = l
  <2>1. PICK l : l = rest[i].link
    OBVIOUS
  <2>2. i + 1 \in DOMAIN sc /\ sc[i + 1] = rest[i] /\ i \in Nat \ {0} /\ i + 1 /= 1
    BY <1>2
  <2>3. /\ l \in DOMAIN link /\ spent[l] = 0 /\ link[l].user /= FirstAdmin
        /\ link[l].used \/ \E j \in DOMAIN sc : j < i + 1 /\ sc[j].put = "link" /\ sc[j].at = l
    BY <1>3, <1>8, <2>1, <2>2 DEF Passworded
  <2>4. w.put /= "account"
    BY <1>4, <1>8
  <2>5. l \in DOMAIN link' /\ spent'[l] = 0 /\ link'[l].user /= FirstAdmin
    BY <1>3, <2>3, <2>4 DEF Effect
  <2>6. CASE link[l].used \/ (w.put = "link" /\ w.at = l)
    BY <1>3, <2>1, <2>3, <2>5, <2>6 DEF Effect
  <2>7. ASSUME NEW j \in DOMAIN sc, j < i + 1, sc[j].put = "link", sc[j].at = l, j /= 1
        PROVE  \E k \in DOMAIN rest : k < i /\ rest[k].put = "link" /\ rest[k].at = l
    <3>1. j - 1 \in DOMAIN rest /\ rest[j - 1] = sc[j] /\ j - 1 < i
      BY <1>2, <2>2, <2>7
    <3> QED
      BY <2>7, <3>1
  <2> QED
    BY <1>2, <2>1, <2>3, <2>5, <2>6, <2>7
<1>9. Promised(rest)'
  BY <1>7 DEF Promised
<1>10. Passworded(rest)'
  BY <1>8 DEF Passworded
<1>11. ScriptOK(rest)'
  BY <1>2, <1>5, <1>6, <1>9, <1>10 DEF ScriptOK, IsSeq, Distinct
<1> QED
  BY <1>1, <1>11

-----------------------------------------------------------------------------
(* A write.  Each says what becomes of the tables and that this is what    *)
(* Effect allows; the invariant of the tables follows kind by kind.        *)

LEMMA HeadOK ==
  ASSUME ScriptOK(script), script /= <<>>, NEW w, w = Head(script)
  PROVE  /\ WriteOK(w)
         /\ w.put = "answer" => \A s \in w.at : s \in DOMAIN session /\ session[s].revoked
         /\ (w.put = "account" /\ w.link /= 0) =>
              /\ w.link \in DOMAIN link /\ spent[w.link] = 0
              /\ IF link[w.link].user = FirstAdmin THEN NoAccounts ELSE link[w.link].used
<1>1. PICK sc : sc = script
  OBVIOUS
<1>2. 1 \in DOMAIN sc /\ sc[1] = w /\ \A i \in DOMAIN sc : i \in Nat \ {0}
  BY <1>1, PopFacts DEF ScriptOK
<1>3. ~ \E j \in DOMAIN sc : j < 1
  BY <1>2
<1> QED
  BY <1>1, <1>2, <1>3 DEF ScriptOK, Promised, Passworded

\* One record of a table is new or changed.
IsPut(new, table, key, to) ==
  /\ DOMAIN new = DOMAIN table \union {key} /\ new[key] = to
  /\ \A i \in DOMAIN table : i /= key => new[i] = table[i]

LEMMA PutFacts ==
  ASSUME NEW T, NEW table \in Seq(T), NEW key, NEW to \in T,
         key \in DOMAIN table \/ key = Len(table) + 1,
         NEW new, new = Put(table, key, to)
  PROVE  new \in Seq(T) /\ IsPut(new, table, key, to)
<1>1. Len(table) \in Nat /\ DOMAIN table = 1..Len(table)
  BY LenProperties
<1>2. CASE key \in DOMAIN table
  <2>1. new = [table EXCEPT ![key] = to]
    BY <1>2 DEF Put
  <2>2. [table EXCEPT ![key] = to] \in Seq(T)
    BY <1>1, <1>2, ExceptSeq
  <2> QED
    BY <1>2, <2>1, <2>2 DEF IsPut
<1>3. CASE key \notin DOMAIN table
  <2>1. new = Append(table, to) /\ key = Len(table) + 1
    BY <1>3 DEF Put
  <2>2. /\ Append(table, to) \in Seq(T) /\ DOMAIN Append(table, to) = 1..(Len(table) + 1)
        /\ \A i \in 1..Len(table) : Append(table, to)[i] = table[i]
        /\ Append(table, to)[Len(table) + 1] = to
    BY <1>1, AppendProperties, LenProperties
  <2> QED
    BY <1>1, <2>1, <2>2 DEF IsPut
<1> QED
  BY <1>2, <1>3

\* What none of the tables' writes touches.
Beside == UNCHANGED <<now, sockets, calls>>

\* The other kinds: locks, addresses and the file are nobody's ending.
LEMMA OtherWrite ==
  ASSUME IdentityInv, script /= <<>>, script' = Tail(script), Beside,
         Head(script).put \in {"lock", "address", "file"},
         UNCHANGED <<account, link, session, over, spent>>
  PROVE  IdentityInv'
<1>1. PICK w : w = Head(script)
  OBVIOUS
<1>2. Effect(w)
  BY <1>1 DEF Effect, Ends
<1>3. ScriptOK(script)'
  BY <1>1, <1>2, Popped DEF IdentityInv
<1> QED
  BY <1>3 DEF IdentityInv, Beside, TablesOK, OverOK, SocketsOK, CallsOK, LinksOK, NoAccounts

LEMMA AccountWrite ==
  ASSUME IdentityInv, script /= <<>>, script' = Tail(script), Beside,
         NEW w, w = Head(script), w.put = "account", WriteAccount(w), IdentityAssumption
  PROVE  IdentityInv'
<1>1. /\ account' = [account EXCEPT ![w.at] = w.to]
      /\ spent' = IF w.link = 0 THEN spent ELSE [spent EXCEPT ![w.link] = @ + 1]
      /\ UNCHANGED <<link, session, over>>
  BY DEF WriteAccount
<1>2. w.at \in Users /\ w.to \in Accounts /\ w.to.made
  BY HeadOK DEF WriteOK, IdentityInv
<1>3. account' \in [Users -> Accounts] /\ ~NoAccounts'
  BY <1>1, <1>2 DEF IdentityInv, TablesOK, NoAccounts
<1>4. (w.link /= 0) => /\ w.link \in DOMAIN link /\ spent[w.link] = 0
                       /\ IF link[w.link].user = FirstAdmin THEN NoAccounts ELSE link[w.link].used
  BY HeadOK DEF IdentityInv
<1>5. spent \in [1..MaxLinks -> Nat] /\ DOMAIN link \subseteq 1..MaxLinks
  BY DEF IdentityInv, TablesOK
<1>6. /\ spent' \in [1..MaxLinks -> Nat]
      /\ \A l \in 1..MaxLinks : spent'[l] = spent[l] \/ (l = w.link /\ w.link /= 0 /\ spent'[l] = 1)
  <2>1. CASE w.link = 0
    BY <1>1, <1>5, <2>1
  <2>2. CASE w.link /= 0
    <3>1. w.link \in 1..MaxLinks /\ spent[w.link] = 0
      BY <1>4, <1>5, <2>2
    <3>2. spent' = [spent EXCEPT ![w.link] = 1]
      BY <1>1, <1>5, <2>2, <3>1
    <3> QED
      BY <1>5, <2>2, <3>1, <3>2
  <2> QED
    BY <2>1, <2>2
<1>7. Effect(w)
  <2>1. \A l \in DOMAIN link : spent'[l] = spent[l] \/ w.link = l
    BY <1>5, <1>6
  <2> QED
    BY <1>1, <2>1 DEF Effect, Ends
<1>8. ScriptOK(script)'
  BY <1>7, Popped DEF IdentityInv
<1>9. \A l \in 1..MaxLinks : l \notin DOMAIN link' => spent'[l] = 0
  BY <1>1, <1>4, <1>6 DEF IdentityInv, LinksOK
<1>10. ASSUME NEW l \in DOMAIN link', spent'[l] > 0
       PROVE  spent'[l] = 1 /\ IF link'[l].user = FirstAdmin THEN ~NoAccounts' ELSE link'[l].used
  BY <1>1, <1>3, <1>4, <1>5, <1>6, <1>10 DEF IdentityInv, LinksOK
<1>11. ASSUME NEW l \in DOMAIN link', NEW m \in DOMAIN link', link'[l].user = FirstAdmin,
              link'[m].user = FirstAdmin, spent'[l] > 0, spent'[m] > 0
       PROVE  l = m
  <2>1. CASE spent[l] > 0 /\ spent[m] > 0
    BY <1>1, <1>11, <2>1 DEF IdentityInv, LinksOK
  <2>2. CASE ~(spent[l] > 0 /\ spent[m] > 0)
    <3>1. w.link \in {l, m} /\ w.link /= 0
      BY <1>1, <1>5, <1>6, <1>11, <2>2
    <3>2. NoAccounts
      BY <1>1, <1>4, <1>11, <3>1
    <3>3. \A n \in DOMAIN link : link[n].user = FirstAdmin => ~(spent[n] > 0)
      BY <3>2 DEF IdentityInv, LinksOK
    <3> QED
      BY <1>1, <1>5, <1>6, <1>11, <3>3
  <2> QED
    BY <2>1, <2>2
<1>12. LinksOK'
  BY <1>9, <1>10, <1>11 DEF LinksOK
<1>13. TablesOK' /\ OverOK' /\ SocketsOK' /\ CallsOK'
  BY <1>1, <1>3, <1>6 DEF IdentityInv, Beside, TablesOK, OverOK, SocketsOK, CallsOK
<1> QED
  BY <1>8, <1>12, <1>13 DEF IdentityInv

LEMMA AnswerWrite ==
  ASSUME IdentityInv, script /= <<>>, script' = Tail(script), Beside,
         NEW w, w = Head(script), w.put = "answer", GiveAnswer(w), IdentityAssumption
  PROVE  IdentityInv'
<1>1. /\ over' = [s \in 1..MaxSessions |-> IF s \in w.at /\ over[s] = Never THEN now ELSE over[s]]
      /\ UNCHANGED <<account, link, session, spent>>
  BY DEF GiveAnswer, tables
<1>2. \A s \in w.at : s \in DOMAIN session /\ session[s].revoked
  BY HeadOK DEF IdentityInv
<1>3. now \in Nat /\ over \in [1..MaxSessions -> Int] /\ RevalidateEvery \in Nat
      /\ DOMAIN session \subseteq 1..MaxSessions
  BY DEF IdentityInv, TablesOK, IdentityAssumption
<1>4. ScriptOK(script)'
  <2>1. Effect(w)
    BY <1>1 DEF Effect, Ends
  <2> QED
    BY <2>1, Popped DEF IdentityInv
<1>5. TablesOK'
  BY <1>1, <1>3 DEF IdentityInv, Beside, TablesOK
<1>6. OverOK'
  BY <1>1, <1>2, <1>3 DEF IdentityInv, Beside, OverOK
<1>7. SocketsOK'
  BY <1>1, <1>3 DEF IdentityInv, Beside, SocketsOK
<1>8. CallsOK'
  <2>1. ASSUME NEW c \in calls'
        PROVE  /\ c.session \in DOMAIN session' /\ c.at \in Nat /\ c.at <= now'
               /\ over'[c.session] /= Never => c.at <= over'[c.session] + RevalidateEvery
    <3>1. /\ c.session \in DOMAIN session /\ c.at \in Nat /\ c.at <= now /\ now' = now
          /\ over[c.session] /= Never => c.at <= over[c.session] + RevalidateEvery
      BY DEF IdentityInv, Beside, CallsOK
    <3>2. over'[c.session] = now \/ over'[c.session] = over[c.session]
      BY <1>1, <1>3, <3>1
    <3>3. c.at <= now + RevalidateEvery
      BY <1>3, <3>1, SMTT(30)
    <3>4. over'[c.session] /= Never => c.at <= over'[c.session] + RevalidateEvery
      BY <3>1, <3>2, <3>3
    <3> QED
      BY <1>1, <3>1, <3>4
  <2> QED
    BY <2>1 DEF CallsOK
<1>9. LinksOK'
  BY <1>1 DEF IdentityInv, LinksOK, NoAccounts
<1> QED
  BY <1>4, <1>5, <1>6, <1>7, <1>8, <1>9 DEF IdentityInv

\* Sessions come to be and are revoked; none changes hands or comes back.
LEMMA SessionsMove ==
  ASSUME IdentityInv, Beside, UNCHANGED <<account, link, over, spent>>,
         session' \in Seq(Sessions), DOMAIN session' \subseteq 1..MaxSessions,
         \A s \in DOMAIN session : s \in DOMAIN session' /\ (session[s].revoked => session'[s].revoked)
  PROVE  TablesOK' /\ OverOK' /\ SocketsOK' /\ CallsOK' /\ LinksOK'
<1>1. TablesOK'
  BY DEF IdentityInv, Beside, TablesOK
<1>2. OverOK'
  BY DEF IdentityInv, Beside, OverOK
<1>3. SocketsOK' /\ CallsOK'
  BY DEF IdentityInv, Beside, SocketsOK, CallsOK
<1>4. LinksOK'
  BY DEF IdentityInv, LinksOK, NoAccounts
<1> QED
  BY <1>1, <1>2, <1>3, <1>4

\* Links come to be and are used; none changes hands or opens again.
LEMMA LinksMove ==
  ASSUME IdentityInv, Beside, UNCHANGED <<account, session, over, spent>>,
         link' \in Seq(Links), DOMAIN link' \subseteq 1..MaxLinks,
         \A l \in DOMAIN link : /\ l \in DOMAIN link' /\ link'[l].user = link[l].user
                                /\ link[l].used => link'[l].used
  PROVE  TablesOK' /\ OverOK' /\ SocketsOK' /\ CallsOK' /\ LinksOK'
<1>1. TablesOK'
  BY DEF IdentityInv, Beside, TablesOK
<1>2. OverOK' /\ SocketsOK' /\ CallsOK'
  BY DEF IdentityInv, Beside, OverOK, SocketsOK, CallsOK
<1>3. \A l \in DOMAIN link' : spent'[l] > 0 => l \in DOMAIN link
  BY DEF IdentityInv, LinksOK
<1>4. NoAccounts' <=> NoAccounts
  BY DEF NoAccounts
<1>5. LinksOK'
  BY <1>3, <1>4 DEF IdentityInv, LinksOK
<1> QED
  BY <1>1, <1>2, <1>5

LEMMA LinkWrite ==
  ASSUME IdentityInv, script /= <<>>, script' = Tail(script), Beside,
         NEW w, w = Head(script), w.put = "link", WriteLink(w), IdentityAssumption
  PROVE  IdentityInv'
<1>1. link' = Put(link, w.at, w.to) /\ UNCHANGED <<account, session, over, spent>>
  BY DEF WriteLink, history
<1>2. /\ w.to \in Links
      /\ IF w.at \in DOMAIN link THEN w.to.used /\ w.to.user = link[w.at].user
         ELSE w.at = Len(link) + 1 /\ w.at <= MaxLinks
  BY HeadOK DEF WriteOK, IdentityInv
<1>3. link \in Seq(Links) /\ DOMAIN link \subseteq 1..MaxLinks /\ Len(link) \in Nat
      /\ MaxLinks \in Nat
  BY LenProperties DEF IdentityInv, TablesOK, IdentityAssumption
<1>4. w.at \in DOMAIN link \/ w.at = Len(link) + 1
  BY <1>2
<1>5. /\ link' \in Seq(Links) /\ DOMAIN link' = DOMAIN link \union {w.at}
      /\ link'[w.at] = w.to /\ \A i \in DOMAIN link : i /= w.at => link'[i] = link[i]
  <2>1. PICK T, tb, key, to, new : /\ T = Links /\ tb = link /\ key = w.at /\ to = w.to
                                   /\ new = Put(tb, key, to)
    OBVIOUS
  <2>2. tb \in Seq(T) /\ to \in T /\ (key \in DOMAIN tb \/ key = Len(tb) + 1)
    BY <1>2, <1>3, <1>4, <2>1
  <2>3. new \in Seq(T) /\ IsPut(new, tb, key, to)
    BY <2>1, <2>2, PutFacts
  <2> QED
    BY <1>1, <2>1, <2>3 DEF IsPut
<1>6. w.at \in 1..MaxLinks
  BY <1>2, <1>3
<1>7. \A l \in DOMAIN link : /\ l \in DOMAIN link' /\ link'[l].user = link[l].user
                             /\ link[l].used => link'[l].used
                             /\ w.at = l => link'[l].used
  BY <1>2, <1>5
<1>8. Effect(w)
  BY <1>1, <1>7 DEF Effect, Ends
<1>9. ScriptOK(script)'
  BY <1>8, Popped DEF IdentityInv
<1> QED
  BY <1>1, <1>3, <1>5, <1>6, <1>7, <1>9, LinksMove DEF IdentityInv

LEMMA SessionWrite ==
  ASSUME IdentityInv, script /= <<>>, script' = Tail(script), Beside,
         NEW w, w = Head(script), w.put = "session", WriteSession(w), IdentityAssumption
  PROVE  IdentityInv'
<1>1. session' = Put(session, w.at, w.to) /\ UNCHANGED <<account, link, over, spent>>
  BY DEF WriteSession, history
<1>2. /\ w.to \in Sessions
      /\ IF w.at \in DOMAIN session THEN w.to.revoked /\ w.to.user = session[w.at].user
         ELSE w.at = Len(session) + 1 /\ w.at <= MaxSessions
  BY HeadOK DEF WriteOK, IdentityInv
<1>3. session \in Seq(Sessions) /\ DOMAIN session \subseteq 1..MaxSessions /\ Len(session) \in Nat
      /\ MaxSessions \in Nat
  BY LenProperties DEF IdentityInv, TablesOK, IdentityAssumption
<1>4. w.at \in DOMAIN session \/ w.at = Len(session) + 1
  BY <1>2
<1>5. /\ session' \in Seq(Sessions) /\ DOMAIN session' = DOMAIN session \union {w.at}
      /\ session'[w.at] = w.to /\ \A i \in DOMAIN session : i /= w.at => session'[i] = session[i]
  <2>1. PICK T, tb, key, to, new : /\ T = Sessions /\ tb = session /\ key = w.at /\ to = w.to
                                   /\ new = Put(tb, key, to)
    OBVIOUS
  <2>2. tb \in Seq(T) /\ to \in T /\ (key \in DOMAIN tb \/ key = Len(tb) + 1)
    BY <1>2, <1>3, <1>4, <2>1
  <2>3. new \in Seq(T) /\ IsPut(new, tb, key, to)
    BY <2>1, <2>2, PutFacts
  <2> QED
    BY <1>1, <2>1, <2>3 DEF IsPut
<1>6. w.at \in 1..MaxSessions
  BY <1>2, <1>3, SMTT(30)
<1>7. \A s \in DOMAIN session : /\ s \in DOMAIN session' /\ session'[s].user = session[s].user
                                /\ session[s].revoked => session'[s].revoked
                                /\ w.at = s => session'[s].revoked
  BY <1>2, <1>5
<1>8. Effect(w)
  BY <1>1, <1>7 DEF Effect, Ends
<1>9. ScriptOK(script)'
  BY <1>8, Popped DEF IdentityInv
<1> QED
  BY <1>1, <1>3, <1>5, <1>6, <1>7, <1>9, SessionsMove DEF IdentityInv

\* A list of writes that stays while sessions are revoked and links retired.
LEMMA ScriptStays ==
  ASSUME ScriptOK(script), script' = script, UNCHANGED <<account, spent>>,
         DOMAIN session' = DOMAIN session, Len(session') = Len(session),
         \A s \in DOMAIN session : /\ session'[s].user = session[s].user
                                   /\ session[s].revoked => session'[s].revoked,
         DOMAIN link' = DOMAIN link, Len(link') = Len(link),
         \A l \in DOMAIN link : /\ link'[l].user = link[l].user
                                /\ link[l].used => link'[l].used
  PROVE  ScriptOK(script)'
<1>1. PICK sc : sc = script
  OBVIOUS
<1>2. \A i \in DOMAIN sc : WriteOK(sc[i])'
  BY <1>1 DEF ScriptOK, WriteOK
<1>3. ASSUME NEW i \in DOMAIN sc, sc[i].put = "answer", NEW s \in sc[i].at
      PROVE  /\ s \in DOMAIN session'
             /\ session'[s].revoked \/ \E j \in DOMAIN sc : j < i /\ Ends(sc[j], s)'
  <2>1. /\ s \in DOMAIN session
        /\ session[s].revoked \/ \E j \in DOMAIN sc : j < i /\ Ends(sc[j], s)
    BY <1>1, <1>3 DEF ScriptOK, Promised
  <2>2. \A j \in DOMAIN sc : Ends(sc[j], s) => Ends(sc[j], s)'
    BY <2>1 DEF Ends
  <2> QED
    BY <2>1, <2>2
<1>4. Promised(sc)'
  BY <1>3 DEF Promised
<1>5. NoAccounts' <=> NoAccounts
  BY DEF NoAccounts
<1>6. Passworded(sc)'
  BY <1>1, <1>5 DEF ScriptOK, Passworded
<1>7. ScriptOK(sc)'
  BY <1>1, <1>2, <1>4, <1>6 DEF ScriptOK, IsSeq, Distinct
<1> QED
  BY <1>1, <1>7

LEMMA RevokeWrite ==
  ASSUME IdentityInv, script /= <<>>, Beside,
         NEW w, w = Head(script), w.put = "revoke", RevokeOne(w)
  PROVE  IdentityInv'
<1>1. UNCHANGED <<account, link, over, spent>>
  BY DEF RevokeOne, history
<1>2. session \in Seq(Sessions) /\ DOMAIN session \subseteq 1..MaxSessions
      /\ Len(session) \in Nat /\ DOMAIN session = 1..Len(session)
  BY LenProperties DEF IdentityInv, TablesOK
<1> DEFINE live == {s \in SessionsOf(w.at) : ~session[s].revoked}
<1>3. CASE live = {} /\ script' = Tail(script) /\ session' = session
  <2>1. \A s \in DOMAIN session : Ends(w, s) => session[s].revoked
    BY <1>3 DEF Ends, SessionsOf
  <2>2. Effect(w)
    BY <1>1, <1>3, <2>1 DEF Effect
  <2>3. ScriptOK(script)'
    BY <1>3, <2>2, Popped DEF IdentityInv
  <2> QED
    BY <1>1, <1>2, <1>3, <2>3, SessionsMove DEF IdentityInv
<1>4. ASSUME NEW s \in live, session' = [session EXCEPT ![s].revoked = TRUE],
             script' = IF live = {s} THEN Tail(script) ELSE script
      PROVE  IdentityInv'
  <2>1. PICK new : new = [session[s] EXCEPT !.revoked = TRUE]
    OBVIOUS
  <2>2. s \in DOMAIN session /\ session[s] \in Sessions
    BY <1>2, ElementOfSeq DEF SessionsOf
  <2>3. new \in Sessions /\ new.user = session[s].user /\ new.revoked
    BY <2>1, <2>2 DEF Sessions
  <2>4. session' = [session EXCEPT ![s] = new]
    BY <1>4, <2>1
  <2>5. session' \in Seq(Sessions) /\ Len(session') = Len(session)
    BY <1>2, <2>2, <2>3, <2>4, ExceptSeq
  <2>6. DOMAIN session' = DOMAIN session
        /\ \A t \in DOMAIN session : session'[t] = IF t = s THEN new ELSE session[t]
    BY <2>2, <2>4
  <2>7. \A t \in DOMAIN session : /\ session'[t].user = session[t].user
                                  /\ session[t].revoked => session'[t].revoked
    BY <2>3, <2>6
  <2>8. ScriptOK(script)'
    <3>1. CASE live = {s}
      <4>1. \A t \in DOMAIN session : Ends(w, t) => session'[t].revoked
        BY <2>3, <2>6, <3>1 DEF Ends, SessionsOf
      <4>2. Effect(w)
        BY <1>1, <2>5, <2>6, <2>7, <4>1 DEF Effect
      <4> QED
        BY <1>4, <3>1, <4>2, Popped DEF IdentityInv
    <3>2. CASE live /= {s}
      BY <1>1, <1>4, <2>5, <2>6, <2>7, <3>2, ScriptStays DEF IdentityInv
    <3> QED
      BY <3>1, <3>2
  <2> QED
    BY <1>1, <1>2, <2>5, <2>6, <2>7, <2>8, SessionsMove DEF IdentityInv
<1> QED
  BY <1>3, <1>4 DEF RevokeOne

LEMMA RetireWrite ==
  ASSUME IdentityInv, script /= <<>>, Beside,
         NEW w, w = Head(script), w.put = "retire", RetireOne
  PROVE  IdentityInv'
<1>1. UNCHANGED <<account, session, over, spent>>
  BY DEF RetireOne, history
<1>2. link \in Seq(Links) /\ DOMAIN link \subseteq 1..MaxLinks
      /\ Len(link) \in Nat /\ DOMAIN link = 1..Len(link)
  BY LenProperties DEF IdentityInv, TablesOK
<1> DEFINE earlier == {l \in DOMAIN link : link[l].user = FirstAdmin /\ ~link[l].used}
<1>3. CASE script' = Tail(script) /\ link' = link
  <2>1. Effect(w)
    BY <1>1, <1>3 DEF Effect, Ends
  <2>2. ScriptOK(script)'
    BY <1>3, <2>1, Popped DEF IdentityInv
  <2> QED
    BY <1>1, <1>2, <1>3, <2>2, LinksMove DEF IdentityInv
<1>4. ASSUME NEW l \in earlier, link' = [link EXCEPT ![l].used = TRUE],
             script' = IF earlier = {l} THEN Tail(script) ELSE script
      PROVE  IdentityInv'
  <2>1. PICK new : new = [link[l] EXCEPT !.used = TRUE]
    OBVIOUS
  <2>2. l \in DOMAIN link /\ link[l] \in Links
    BY <1>2, ElementOfSeq
  <2>3. new \in Links /\ new.user = link[l].user /\ new.used
    BY <2>1, <2>2 DEF Links
  <2>4. link' = [link EXCEPT ![l] = new]
    BY <1>4, <2>1
  <2>5. link' \in Seq(Links) /\ Len(link') = Len(link)
    BY <1>2, <2>2, <2>3, <2>4, ExceptSeq
  <2>6. DOMAIN link' = DOMAIN link
        /\ \A m \in DOMAIN link : link'[m] = IF m = l THEN new ELSE link[m]
    BY <2>2, <2>4
  <2>7. \A m \in DOMAIN link : /\ link'[m].user = link[m].user
                               /\ link[m].used => link'[m].used
    BY <2>3, <2>6
  <2>8. ScriptOK(script)'
    <3>1. CASE earlier = {l}
      <4>1. Effect(w)
        BY <1>1, <2>5, <2>6, <2>7 DEF Effect, Ends
      <4> QED
        BY <1>4, <3>1, <4>1, Popped DEF IdentityInv
    <3>2. CASE earlier /= {l}
      BY <1>1, <1>4, <2>5, <2>6, <2>7, <3>2, ScriptStays DEF IdentityInv
    <3> QED
      BY <3>1, <3>2
  <2> QED
    BY <1>1, <1>2, <2>5, <2>6, <2>7, <2>8, LinksMove DEF IdentityInv
<1> QED
  BY <1>3, <1>4 DEF RetireOne

LEMMA WriteStep ==
  ASSUME IdentityInv, IdentityAssumption, Write
  PROVE  IdentityInv'
<1>1. script /= <<>> /\ Beside
  BY DEF Write, Beside, net
<1>2. PICK w : w = Head(script)
  OBVIOUS
<1>3. CASE w.put = "revoke" /\ RevokeOne(w)
  BY <1>1, <1>2, <1>3, RevokeWrite
<1>4. CASE w.put = "retire" /\ RetireOne
  BY <1>1, <1>2, <1>4, RetireWrite
<1>5. ASSUME script' = Tail(script),
             \/ w.put = "account" /\ WriteAccount(w)
             \/ w.put = "link" /\ WriteLink(w)
             \/ w.put = "session" /\ WriteSession(w)
             \/ w.put = "answer" /\ GiveAnswer(w)
      PROVE  IdentityInv'
  BY <1>1, <1>2, <1>5, AccountWrite, LinkWrite, SessionWrite, AnswerWrite
<1>6. ASSUME script' = Tail(script),
             \/ w.put = "lock" /\ WriteLock(w)
             \/ w.put = "address" /\ WriteAddress(w)
             \/ w.put = "file" /\ WriteFile(w)
      PROVE  IdentityInv'
  <2>1. UNCHANGED <<account, link, session, over, spent>>
    BY <1>6 DEF WriteLock, WriteAddress, WriteFile, history
  <2> QED
    BY <1>1, <1>2, <1>6, <2>1, OtherWrite
<1> QED
  BY <1>2, <1>3, <1>4, <1>5, <1>6 DEF Write

-----------------------------------------------------------------------------
(* A request is taken: the list of its writes is right when it is made. *)

LEMMA SameTables ==
  ASSUME NEW sc, ScriptOK(sc), script' = sc, UNCHANGED <<account, link, session, spent>>
  PROVE  ScriptOK(script)'
<1>1. NoAccounts' <=> NoAccounts
  BY DEF NoAccounts
<1>2. \A i \in DOMAIN sc : WriteOK(sc[i])'
  BY DEF ScriptOK, WriteOK
<1>3. Promised(sc)'
  BY DEF ScriptOK, Promised, Ends
<1>4. Passworded(sc)'
  BY <1>1 DEF ScriptOK, Passworded
<1> QED
  BY <1>2, <1>3, <1>4 DEF ScriptOK, IsSeq, Distinct

LEMMA Taken ==
  ASSUME IdentityInv, NEW sc, ScriptOK(sc), script' = sc, calls' \subseteq calls,
         sockets' \subseteq sockets, UNCHANGED <<now, account, link, session, over, spent>>
  PROVE  IdentityInv'
<1>1. NoAccounts' <=> NoAccounts
  BY DEF NoAccounts
<1>2. ScriptOK(script)'
  BY SameTables
<1>3. TablesOK' /\ OverOK' /\ SocketsOK' /\ CallsOK'
  BY DEF IdentityInv, TablesOK, OverOK, SocketsOK, CallsOK
<1>4. LinksOK'
  BY <1>1 DEF IdentityInv, LinksOK
<1> QED
  BY <1>2, <1>3, <1>4 DEF IdentityInv

\* The five lengths a list of writes has.
LEMMA NoWrites == ScriptOK(<<>>)
<1>1. IsSeq(<<>>)
  <2>1. <<>> \in Seq({})
    OBVIOUS
  <2> QED
    BY <2>1 DEF IsSeq
<1> QED
  BY <1>1 DEF ScriptOK, Distinct, Promised, Passworded

LEMMA One ==
  ASSUME NEW a, NEW sc, sc = <<a>>
  PROVE  IsSeq(sc) /\ DOMAIN sc = {1} /\ sc[1] = a
<1>1. PICK T : T = {a}
  OBVIOUS
<1>2. sc \in Seq(T)
  BY <1>1
<1>3. IsSeq(sc)
  BY <1>2, Zenon DEF IsSeq
<1> QED
  BY <1>3

LEMMA Two ==
  ASSUME NEW a, NEW b, NEW sc, sc = <<a, b>>
  PROVE  IsSeq(sc) /\ DOMAIN sc = {1, 2} /\ sc[1] = a /\ sc[2] = b
<1>1. PICK T : T = {a, b}
  OBVIOUS
<1>2. sc \in Seq(T)
  BY <1>1
<1>3. IsSeq(sc)
  BY <1>2, Zenon DEF IsSeq
<1> QED
  BY <1>3

LEMMA Three ==
  ASSUME NEW a, NEW b, NEW c, NEW sc, sc = <<a, b, c>>
  PROVE  IsSeq(sc) /\ DOMAIN sc = {1, 2, 3} /\ sc[1] = a /\ sc[2] = b /\ sc[3] = c
<1>1. PICK T : T = {a, b, c}
  OBVIOUS
<1>2. sc \in Seq(T)
  BY <1>1
<1>3. IsSeq(sc)
  BY <1>2, Zenon DEF IsSeq
<1> QED
  BY <1>3

LEMMA Four ==
  ASSUME NEW a, NEW b, NEW c, NEW d, NEW sc, sc = <<a, b, c, d>>
  PROVE  /\ IsSeq(sc) /\ DOMAIN sc = {1, 2, 3, 4}
         /\ sc[1] = a /\ sc[2] = b /\ sc[3] = c /\ sc[4] = d
<1>1. PICK T : T = {a, b, c, d}
  OBVIOUS
<1>2. sc \in Seq(T)
  BY <1>1
<1>3. IsSeq(sc)
  BY <1>2, Zenon DEF IsSeq
<1> QED
  BY <1>3

OfFour(f, a, b, c, d) ==
  IsSeq(f) /\ DOMAIN f = {1, 2, 3, 4} /\ f[1] = a /\ f[2] = b /\ f[3] = c /\ f[4] = d
OfFive(g, a, b, c, d, e) ==
  /\ IsSeq(g) /\ DOMAIN g = {1, 2, 3, 4, 5}
  /\ g[1] = a /\ g[2] = b /\ g[3] = c /\ g[4] = d /\ g[5] = e

LEMMA ThreeAndMore ==
  ASSUME NEW a, NEW b, NEW c, NEW d, NEW e, NEW f, NEW g,
         f = <<a, b, c>> \o <<e>>, g = <<a, b, c>> \o <<d, e>>
  PROVE  OfFour(f, a, b, c, e) /\ OfFive(g, a, b, c, d, e)
<1>1. PICK T, x, y, z : /\ T = {a, b, c, d, e}
                        /\ x = <<a, b, c>> /\ y = <<e>> /\ z = <<d, e>>
  OBVIOUS
<1>2. x \in Seq(T) /\ Len(x) = 3 /\ x[1] = a /\ x[2] = b /\ x[3] = c
  BY <1>1
<1>3. y \in Seq(T) /\ Len(y) = 1 /\ y[1] = e
  BY <1>1
<1>4. z \in Seq(T) /\ Len(z) = 2 /\ z[1] = d /\ z[2] = e
  BY <1>1
<1>5. f = x \o y /\ g = x \o z
  BY <1>1
<1>6. /\ f \in Seq(T) /\ Len(f) = 4
      /\ f[1] = a /\ f[2] = b /\ f[3] = c /\ f[4] = e
  <2>1. /\ x \o y \in Seq(T) /\ Len(x \o y) = Len(x) + Len(y)
        /\ \A i \in 1..(Len(x) + Len(y)) :
             (x \o y)[i] = IF i <= Len(x) THEN x[i] ELSE y[i - Len(x)]
    BY <1>2, <1>3, ConcatProperties
  <2>2. /\ f \in Seq(T) /\ Len(f) = Len(x) + Len(y)
        /\ \A i \in 1..(Len(x) + Len(y)) : f[i] = IF i <= Len(x) THEN x[i] ELSE y[i - Len(x)]
    BY <1>5, <2>1, Zenon
  <2>3. \A i \in 1..4 : f[i] = IF i <= 3 THEN x[i] ELSE y[i - 3]
    BY <1>2, <1>3, <2>2
  <2> QED
    BY <1>2, <1>3, <2>2, <2>3
<1>7. /\ g \in Seq(T) /\ Len(g) = 5
      /\ g[1] = a /\ g[2] = b /\ g[3] = c /\ g[4] = d /\ g[5] = e
  <2>1. /\ x \o z \in Seq(T) /\ Len(x \o z) = Len(x) + Len(z)
        /\ \A i \in 1..(Len(x) + Len(z)) :
             (x \o z)[i] = IF i <= Len(x) THEN x[i] ELSE z[i - Len(x)]
    BY <1>2, <1>4, ConcatProperties
  <2>2. /\ g \in Seq(T) /\ Len(g) = Len(x) + Len(z)
        /\ \A i \in 1..(Len(x) + Len(z)) : g[i] = IF i <= Len(x) THEN x[i] ELSE z[i - Len(x)]
    BY <1>5, <2>1, Zenon
  <2>3. \A i \in 1..5 : g[i] = IF i <= 3 THEN x[i] ELSE z[i - 3]
    BY <1>2, <1>4, <2>2
  <2> QED
    BY <1>2, <1>4, <2>2, <2>3
<1>8. DOMAIN f = {1, 2, 3, 4} /\ DOMAIN g = {1, 2, 3, 4, 5}
  BY <1>6, <1>7, LenProperties
<1>9. IsSeq(f) /\ IsSeq(g)
  BY <1>6, <1>7, Zenon DEF IsSeq
<1> QED
  BY <1>6, <1>7, <1>8, <1>9 DEF OfFour, OfFive

\* The kinds of write.
LEMMA AccountFits ==
  ASSUME NEW u \in Users, NEW rec \in Accounts, rec.made, NEW l
  PROVE  /\ PutPassword(u, rec, l).put = "account" /\ WriteOK(PutPassword(u, rec, l))
         /\ PutPassword(u, rec, l).link = l
         /\ PutAccount(u, rec).put = "account" /\ WriteOK(PutAccount(u, rec))
         /\ PutAccount(u, rec).link = 0
BY DEF PutPassword, PutAccount, WriteOK

\* A new link or session takes the next place of its table.
LEMMA NewLinkFits ==
  ASSUME TablesOK, IdentityAssumption, RoomForLink,
         NEW u \in Users \union {FirstAdmin}, NEW w,
         w = PutLink(Len(link) + 1, [user |-> u, expires |-> now + LinkLife, used |-> FALSE, by |-> u])
  PROVE  w.put = "link" /\ WriteOK(w)
<1>1. Len(link) \in Nat /\ DOMAIN link = 1..Len(link) /\ now + LinkLife \in Nat /\ MaxLinks \in Nat
  BY LenProperties, SMTT(30) DEF TablesOK, IdentityAssumption
<1>2. w.put = "link" /\ w.at = Len(link) + 1 /\ w.to \in Links
  BY <1>1 DEF PutLink, Links
<1>3. w.at \notin DOMAIN link /\ w.at <= MaxLinks
  BY <1>1, <1>2, SMTT(30) DEF RoomForLink
<1> QED
  BY <1>2, <1>3 DEF WriteOK

LEMMA NewSessionFits ==
  ASSUME TablesOK, IdentityAssumption, RoomForSession, NEW u \in Users, NEW w, w = StartSession(u)
  PROVE  w.put = "session" /\ WriteOK(w)
<1>1. /\ Len(session) \in Nat /\ DOMAIN session = 1..Len(session)
      /\ now + SessionLife \in Nat /\ MaxSessions \in Nat
  BY LenProperties, SMTT(30) DEF TablesOK, IdentityAssumption
<1>2. w.put = "session" /\ w.at = Len(session) + 1 /\ w.to \in Sessions
  BY <1>1 DEF StartSession, PutSession, Sessions
<1>3. w.at \notin DOMAIN session /\ w.at <= MaxSessions
  BY <1>1, <1>2, SMTT(30) DEF RoomForSession
<1> QED
  BY <1>2, <1>3 DEF WriteOK

\* A list that answers nothing and sets no password under a link.
LEMMA PlainScript ==
  ASSUME NEW sc, IsSeq(sc), Distinct(sc), \A i \in DOMAIN sc : WriteOK(sc[i]),
         \A i \in DOMAIN sc : sc[i].put /= "answer",
         \A i \in DOMAIN sc : sc[i].put = "account" => sc[i].link = 0
  PROVE  ScriptOK(sc)
BY DEF ScriptOK, Promised, Passworded

\* A list that ends everybody's sessions of an account and answers so.
LEMMA EndingScript ==
  ASSUME NEW sc, IsSeq(sc), Distinct(sc), \A i \in DOMAIN sc : WriteOK(sc[i]),
         NEW u, NEW j \in DOMAIN sc, sc[j].put = "revoke", sc[j].at = u,
         \A i \in DOMAIN sc : sc[i].put = "answer" => j < i /\ sc[i].at = SessionsOf(u),
         \A i \in DOMAIN sc : sc[i].put = "account" => sc[i].link = 0
  PROVE  ScriptOK(sc)
<1>1. ASSUME NEW i \in DOMAIN sc, sc[i].put = "answer", NEW s \in sc[i].at
      PROVE  s \in DOMAIN session /\ \E k \in DOMAIN sc : k < i /\ Ends(sc[k], s)
  <2>1. s \in DOMAIN session /\ session[s].user = u
    BY <1>1 DEF SessionsOf
  <2>2. j < i /\ Ends(sc[j], s)
    BY <1>1, <2>1 DEF Ends
  <2> QED
    BY <2>1, <2>2
<1>2. Promised(sc)
  BY <1>1 DEF Promised
<1> QED
  BY <1>2 DEF ScriptOK, Passworded

LEMMA HarmlessFits ==
  ASSUME NEW w, w.put \notin {"account", "link", "session"}
  PROVE  WriteOK(w)
BY DEF WriteOK

LEMMA BootstrapScript ==
  ASSUME TablesOK, IdentityAssumption, RoomForLink
  PROVE  ScriptOK(BootstrapWrites)
<1>1. PICK a, b, c, sc :
        /\ a = Retire /\ c = PutFile(Len(link) + 1) /\ sc = <<a, b, c>>
        /\ b = PutLink(Len(link) + 1, [user |-> FirstAdmin, expires |-> now + LinkLife,
                                       used |-> FALSE, by |-> FirstAdmin])
        /\ sc = BootstrapWrites
  BY DEF BootstrapWrites
<1>2. a.put = "retire" /\ b.put = "link" /\ c.put = "file" /\ WriteOK(b)
  BY <1>1, NewLinkFits DEF Retire, PutFile
<1>3. WriteOK(a) /\ WriteOK(c)
  BY <1>2, HarmlessFits
<1>4. IsSeq(sc) /\ DOMAIN sc = {1, 2, 3} /\ sc[1] = a /\ sc[2] = b /\ sc[3] = c
  BY <1>1, Three
<1>5. Distinct(sc)
  BY <1>2, <1>4 DEF Distinct
<1>6. ScriptOK(sc)
  BY <1>2, <1>3, <1>4, <1>5, PlainScript
<1> QED
  BY <1>1, <1>6

LEMMA FirstAdminScript ==
  ASSUME IdentityInv, IdentityAssumption, RoomForSession,
         NEW l \in DOMAIN link, NEW u \in Users, OpensFirst(l)
  PROVE  ScriptOK(<< PutPassword(u, [made |-> TRUE, role |-> "admin", password |-> TRUE,
                                     disabled |-> FALSE], l),
                     PutLink(l, [link[l] EXCEPT !.used = TRUE, !.by = u]),
                     StartSession(u), PutFile(0) >>)
<1>1. PICK a, b, c, d, rec, new, sc :
        /\ rec = [made |-> TRUE, role |-> "admin", password |-> TRUE, disabled |-> FALSE]
        /\ new = [link[l] EXCEPT !.used = TRUE, !.by = u]
        /\ a = PutPassword(u, rec, l) /\ b = PutLink(l, new) /\ c = StartSession(u)
        /\ d = PutFile(0) /\ sc = <<a, b, c, d>>
  OBVIOUS
<1>2. a.put = "account" /\ a.link = l /\ WriteOK(a)
  <2>1. rec \in Accounts /\ rec.made
    BY <1>1 DEF Accounts, IdentityAssumption
  <2> QED
    BY <1>1, <2>1, AccountFits
<1>3. b.put = "link" /\ b.at = l /\ WriteOK(b)
  <2>1. link[l] \in Links
    BY ElementOfSeq, LenProperties DEF IdentityInv, TablesOK
  <2>2. new \in Links /\ new.used /\ new.user = link[l].user
    BY <1>1, <2>1 DEF Links
  <2>3. b.put = "link" /\ b.at = l /\ b.to = new
    BY <1>1 DEF PutLink
  <2> QED
    BY <2>2, <2>3 DEF WriteOK
<1>4. c.put = "session" /\ WriteOK(c)
  BY <1>1, NewSessionFits DEF IdentityInv
<1>5. d.put = "file" /\ WriteOK(d)
  BY <1>1, HarmlessFits DEF PutFile
<1>6. /\ IsSeq(sc) /\ DOMAIN sc = {1, 2, 3, 4}
      /\ sc[1] = a /\ sc[2] = b /\ sc[3] = c /\ sc[4] = d
  BY <1>1, Four
<1>7. Distinct(sc)
  BY <1>2, <1>3, <1>4, <1>5, <1>6 DEF Distinct
<1>8. spent[l] = 0 /\ link[l].user = FirstAdmin /\ NoAccounts
  BY SMTT(30) DEF OpensFirst, IdentityInv, TablesOK, LinksOK
<1>9. Passworded(sc)
  BY <1>2, <1>3, <1>4, <1>5, <1>6, <1>8 DEF Passworded
<1>10. Promised(sc)
  BY <1>2, <1>3, <1>4, <1>5, <1>6 DEF Promised
<1>11. ScriptOK(sc)
  BY <1>2, <1>3, <1>4, <1>5, <1>6, <1>7, <1>9, <1>10 DEF ScriptOK
<1> QED
  BY <1>1, <1>11

LEMMA PasswordScript ==
  ASSUME IdentityInv, IdentityAssumption, RoomForSession,
         NEW l \in DOMAIN link, NEW u \in Users, OpenFor(l, u)
  PROVE  ScriptOK(<< Spent(l), PutPassword(u, [account[u] EXCEPT !.password = TRUE], l),
                     Unlock(u), StartSession(u) >>)
<1>1. PICK a, b, c, d, rec, new, sc :
        /\ rec = [account[u] EXCEPT !.password = TRUE]
        /\ new = [link[l] EXCEPT !.used = TRUE]
        /\ a = PutLink(l, new) /\ a = Spent(l) /\ b = PutPassword(u, rec, l) /\ c = Unlock(u)
        /\ d = StartSession(u) /\ sc = <<a, b, c, d>>
  BY DEF Spent
<1>2. a.put = "link" /\ a.at = l /\ WriteOK(a)
  <2>1. link[l] \in Links
    BY ElementOfSeq, LenProperties DEF IdentityInv, TablesOK
  <2>2. new \in Links /\ new.used /\ new.user = link[l].user
    BY <1>1, <2>1 DEF Links
  <2>3. a.put = "link" /\ a.at = l /\ a.to = new
    BY <1>1 DEF PutLink
  <2> QED
    BY <2>2, <2>3 DEF WriteOK
<1>3. b.put = "account" /\ b.link = l /\ WriteOK(b)
  <2>1. account[u] \in Accounts /\ account[u].made
    BY DEF IdentityInv, TablesOK, OpenFor
  <2>2. rec \in Accounts /\ rec.made
    BY <1>1, <2>1 DEF Accounts
  <2>3. b = PutPassword(u, rec, l)
    BY <1>1
  <2> QED
    BY <2>2, <2>3, AccountFits
<1>4. c.put = "lock" /\ WriteOK(c)
  BY <1>1, HarmlessFits DEF Unlock, PutLock
<1>5. d.put = "session" /\ WriteOK(d)
  BY <1>1, NewSessionFits DEF IdentityInv
<1>6. /\ IsSeq(sc) /\ DOMAIN sc = {1, 2, 3, 4}
      /\ sc[1] = a /\ sc[2] = b /\ sc[3] = c /\ sc[4] = d
  BY <1>1, Four
<1>7. Distinct(sc)
  BY <1>2, <1>3, <1>4, <1>5, <1>6 DEF Distinct
<1>8. spent[l] = 0 /\ link[l].user /= FirstAdmin
  <2>1. link[l].user = u /\ ~link[l].used
    BY DEF OpenFor, Open
  <2>2. u /= FirstAdmin
    BY DEF IdentityAssumption
  <2>3. spent[l] > 0 => link[l].used
    BY <2>1, <2>2 DEF IdentityInv, LinksOK
  <2>4. spent[l] \in Nat
    BY DEF IdentityInv, TablesOK
  <2> QED
    BY <2>1, <2>2, <2>3, <2>4
<1>9. Passworded(sc)
  BY <1>2, <1>3, <1>4, <1>5, <1>6, <1>8 DEF Passworded
<1>10. Promised(sc)
  BY <1>2, <1>3, <1>4, <1>5, <1>6 DEF Promised
<1>11. ScriptOK(sc)
  BY <1>2, <1>3, <1>4, <1>5, <1>6, <1>7, <1>9, <1>10 DEF ScriptOK
<1> QED
  BY <1>1, <1>11

LEMMA LogoutScript ==
  ASSUME IdentityInv, NEW s \in DOMAIN session
  PROVE  ScriptOK(<<PutSession(s, [session[s] EXCEPT !.revoked = TRUE]), Answer({s})>>)
<1>1. PICK a, b, new, sc :
        /\ new = [session[s] EXCEPT !.revoked = TRUE]
        /\ a = PutSession(s, new) /\ b = Answer({s}) /\ sc = <<a, b>>
  OBVIOUS
<1>2. session[s] \in Sessions
  BY ElementOfSeq, LenProperties DEF IdentityInv, TablesOK
<1>3. new \in Sessions /\ new.revoked /\ new.user = session[s].user
  BY <1>1, <1>2 DEF Sessions
<1>4. /\ a.put = "session" /\ a.at = s /\ a.to = new
      /\ b.put = "answer" /\ \A t \in b.at : t = s
  BY <1>1 DEF PutSession, Answer
<1>5. WriteOK(a) /\ WriteOK(b)
  BY <1>3, <1>4 DEF WriteOK
<1>6. IsSeq(sc) /\ DOMAIN sc = {1, 2} /\ sc[1] = a /\ sc[2] = b
  BY <1>1, Two
<1>7. Distinct(sc)
  BY <1>4, <1>6 DEF Distinct
<1>8. Ends(a, s)
  BY <1>3, <1>4 DEF Ends
<1>9. Promised(sc)
  BY <1>4, <1>6, <1>8 DEF Promised
<1>10. ScriptOK(sc)
  BY <1>4, <1>5, <1>6, <1>7, <1>9 DEF ScriptOK, Passworded
<1> QED
  BY <1>1, <1>10


\* What is left of the requests: an account is rewritten, or nothing but a lock.
LEMMA LockScript ==
  ASSUME NEW w, w.put \in {"lock", "address"}
  PROVE  ScriptOK(<<w>>)
<1>1. PICK sc : sc = <<w>>
  OBVIOUS
<1>2. IsSeq(sc) /\ DOMAIN sc = {1} /\ sc[1] = w
  BY <1>1, One
<1>3. WriteOK(w)
  BY HarmlessFits
<1>4. Distinct(sc)
  BY <1>2 DEF Distinct
<1>5. ScriptOK(sc)
  BY <1>2, <1>3, <1>4, PlainScript
<1> QED
  BY <1>1, <1>5

LEMMA FailureScript ==
  ASSUME NEW a, NEW b, a.put = "address", b.put = "lock"
  PROVE  ScriptOK(<<a, b>>)
<1>1. PICK sc : sc = <<a, b>>
  OBVIOUS
<1>2. IsSeq(sc) /\ DOMAIN sc = {1, 2} /\ sc[1] = a /\ sc[2] = b
  BY <1>1, Two
<1>3. WriteOK(a) /\ WriteOK(b)
  BY HarmlessFits
<1>4. Distinct(sc)
  BY <1>2 DEF Distinct
<1>5. ScriptOK(sc)
  BY <1>2, <1>3, <1>4, PlainScript
<1> QED
  BY <1>1, <1>5

LEMMA LoginScript ==
  ASSUME IdentityInv, IdentityAssumption, RoomForSession, NEW u \in Users, account[u].made
  PROVE  ScriptOK(<<Unlock(u), PutAccount(u, account[u]), StartSession(u)>>)
<1>1. PICK a, b, c, rec, sc :
        /\ rec = account[u] /\ a = Unlock(u) /\ b = PutAccount(u, rec) /\ c = StartSession(u)
        /\ sc = <<a, b, c>>
  OBVIOUS
<1>2. rec \in Accounts /\ rec.made /\ b = PutAccount(u, rec)
  BY <1>1 DEF IdentityInv, TablesOK
<1>3. b.put = "account" /\ b.link = 0 /\ WriteOK(b)
  BY <1>2, AccountFits
<1>4. a.put = "lock" /\ WriteOK(a)
  BY <1>1, HarmlessFits DEF Unlock, PutLock
<1>5. c.put = "session" /\ WriteOK(c)
  BY <1>1, NewSessionFits DEF IdentityInv
<1>6. IsSeq(sc) /\ DOMAIN sc = {1, 2, 3} /\ sc[1] = a /\ sc[2] = b /\ sc[3] = c
  BY <1>1, Three
<1>7. Distinct(sc)
  BY <1>3, <1>4, <1>5, <1>6 DEF Distinct
<1>8. ScriptOK(sc)
  BY <1>3, <1>4, <1>5, <1>6, <1>7, PlainScript
<1> QED
  BY <1>1, <1>8

LEMMA InviteScript ==
  ASSUME IdentityInv, IdentityAssumption, RoomForLink, NEW u \in Users,
         NEW rec \in Accounts, rec.made
  PROVE  ScriptOK(<<PutAccount(u, rec), Invite(u)>>)
<1>1. PICK a, b, sc : a = PutAccount(u, rec) /\ b = Invite(u) /\ sc = <<a, b>>
  OBVIOUS
<1>2. a.put = "account" /\ a.link = 0 /\ WriteOK(a)
  BY <1>1, AccountFits
<1>3. b.put = "link" /\ WriteOK(b)
  BY <1>1, NewLinkFits DEF Invite, IdentityInv
<1>4. IsSeq(sc) /\ DOMAIN sc = {1, 2} /\ sc[1] = a /\ sc[2] = b
  BY <1>1, Two
<1>5. Distinct(sc)
  BY <1>2, <1>3, <1>4 DEF Distinct
<1>6. ScriptOK(sc)
  BY <1>2, <1>3, <1>4, <1>5, PlainScript
<1> QED
  BY <1>1, <1>6

LEMMA EnableScript ==
  ASSUME NEW u \in Users, NEW rec \in Accounts, rec.made
  PROVE  ScriptOK(<<PutAccount(u, rec)>>)
<1>1. PICK a, sc : a = PutAccount(u, rec) /\ sc = <<a>>
  OBVIOUS
<1>2. a.put = "account" /\ a.link = 0 /\ WriteOK(a)
  BY <1>1, AccountFits
<1>3. IsSeq(sc) /\ DOMAIN sc = {1} /\ sc[1] = a
  BY <1>1, One
<1>4. Distinct(sc)
  BY <1>3 DEF Distinct
<1>5. ScriptOK(sc)
  BY <1>2, <1>3, <1>4, PlainScript
<1> QED
  BY <1>1, <1>5

\* The lists that end sessions and say so.
LEMMA RevokeScript ==
  ASSUME NEW u
  PROVE  ScriptOK(<<Revoke(u), Answer(SessionsOf(u))>>)
<1>1. PICK a, b, sc : a = Revoke(u) /\ b = Answer(SessionsOf(u)) /\ sc = <<a, b>>
  OBVIOUS
<1>2. a.put = "revoke" /\ a.at = u /\ b.put = "answer" /\ b.at = SessionsOf(u)
  BY <1>1 DEF Revoke, Answer
<1>3. WriteOK(a) /\ WriteOK(b)
  BY <1>2, HarmlessFits
<1>4. IsSeq(sc) /\ DOMAIN sc = {1, 2} /\ sc[1] = a /\ sc[2] = b
  BY <1>1, Two
<1>5. Distinct(sc)
  BY <1>2, <1>4 DEF Distinct
<1>6. ScriptOK(sc)
  BY <1>2, <1>3, <1>4, <1>5, EndingScript
<1> QED
  BY <1>1, <1>6

LEMMA ChangeScript ==
  ASSUME NEW u \in Users, NEW rec \in Accounts, rec.made
  PROVE  ScriptOK(<<PutAccount(u, rec), Revoke(u), Answer(SessionsOf(u))>>)
<1>1. PICK a, b, c, sc :
        a = PutAccount(u, rec) /\ b = Revoke(u) /\ c = Answer(SessionsOf(u)) /\ sc = <<a, b, c>>
  OBVIOUS
<1>2. b.put = "revoke" /\ b.at = u /\ c.put = "answer" /\ c.at = SessionsOf(u)
  BY <1>1 DEF Revoke, Answer
<1>3. WriteOK(b) /\ WriteOK(c)
  BY <1>2, HarmlessFits
<1>4. a.put = "account" /\ a.link = 0 /\ WriteOK(a)
  BY <1>1, AccountFits
<1>5. IsSeq(sc) /\ DOMAIN sc = {1, 2, 3} /\ sc[1] = a /\ sc[2] = b /\ sc[3] = c
  BY <1>1, Three
<1>6. Distinct(sc)
  BY <1>2, <1>4, <1>5 DEF Distinct
<1>7. ScriptOK(sc)
  BY <1>2, <1>3, <1>4, <1>5, <1>6, EndingScript
<1> QED
  BY <1>1, <1>7

LEMMA ResetScripts ==
  ASSUME IdentityInv, IdentityAssumption, RoomForLink, NEW u \in Users, account[u].made
  PROVE  /\ ScriptOK(Reset(u) \o <<Answer(SessionsOf(u))>>)
         /\ ScriptOK(Reset(u) \o <<Unlock(u), Answer(SessionsOf(u))>>)
<1>1. PICK a, b, c, d, e, rec :
        /\ rec = [account[u] EXCEPT !.password = FALSE]
        /\ a = PutAccount(u, rec) /\ b = Revoke(u) /\ c = Invite(u)
        /\ d = Unlock(u) /\ e = Answer(SessionsOf(u))
        /\ Reset(u) = <<a, b, c>>
  BY DEF Reset
<1>2. PICK f, g : /\ f = Reset(u) \o <<Answer(SessionsOf(u))>> /\ f = <<a, b, c>> \o <<e>>
                  /\ g = Reset(u) \o <<Unlock(u), Answer(SessionsOf(u))>>
                  /\ g = <<a, b, c>> \o <<d, e>>
  <2>1. /\ Reset(u) \o <<Answer(SessionsOf(u))>> = <<a, b, c>> \o <<e>>
        /\ Reset(u) \o <<Unlock(u), Answer(SessionsOf(u))>> = <<a, b, c>> \o <<d, e>>
    BY <1>1, Zenon
  <2> QED
    BY <2>1, Zenon
<1>3. a.put = "account" /\ a.link = 0 /\ WriteOK(a)
  <2>1. account[u] \in Accounts
    BY DEF IdentityInv, TablesOK
  <2>2. rec \in Accounts /\ rec.made
    BY <1>1, <2>1 DEF Accounts
  <2>3. a = PutAccount(u, rec)
    BY <1>1
  <2> QED
    BY <2>2, <2>3, AccountFits
<1>4. c.put = "link" /\ WriteOK(c)
  BY <1>1, NewLinkFits DEF Invite, IdentityInv
<1>5. /\ b.put = "revoke" /\ b.at = u /\ d.put = "lock"
      /\ e.put = "answer" /\ e.at = SessionsOf(u)
  BY <1>1 DEF Revoke, Answer, Unlock, PutLock
<1>6. WriteOK(b) /\ WriteOK(d) /\ WriteOK(e)
  BY <1>5, HarmlessFits
<1>7. /\ IsSeq(f) /\ DOMAIN f = {1, 2, 3, 4} /\ f[1] = a /\ f[2] = b /\ f[3] = c /\ f[4] = e
      /\ IsSeq(g) /\ DOMAIN g = {1, 2, 3, 4, 5}
      /\ g[1] = a /\ g[2] = b /\ g[3] = c /\ g[4] = d /\ g[5] = e
  <2>1. f = <<a, b, c>> \o <<e>> /\ g = <<a, b, c>> \o <<d, e>>
    BY <1>2
  <2>2. OfFour(f, a, b, c, e) /\ OfFive(g, a, b, c, d, e)
    BY <2>1, ThreeAndMore, Zenon
  <2> QED
    BY <2>2 DEF OfFour, OfFive
<1>8. Distinct(f) /\ Distinct(g)
  BY <1>3, <1>4, <1>5, <1>7 DEF Distinct
<1>9. ScriptOK(f)
  BY <1>3, <1>4, <1>5, <1>6, <1>7, <1>8, EndingScript
<1>10. ScriptOK(g)
  BY <1>3, <1>4, <1>5, <1>6, <1>7, <1>8, EndingScript
<1> QED
  BY <1>2, <1>9, <1>10


-----------------------------------------------------------------------------
(* The steps. *)

LEMMA SystemStep ==
  ASSUME IdentityInv, IdentityAssumption, System
  PROVE  IdentityInv'
<1> USE DEF tables, history
<1>1. CASE Start
  <2>1. /\ (script' = BootstrapWrites /\ RoomForLink) \/ script' = <<>>
        /\ UNCHANGED <<now, account, link, session, over, spent, sockets, calls>>
    BY <1>1 DEF Start, net
  <2>2. PICK sc : script' = sc
    OBVIOUS
  <2>3. ScriptOK(sc)
    BY <2>1, <2>2, BootstrapScript, NoWrites DEF IdentityInv
  <2> QED
    BY <2>1, <2>2, <2>3, Taken
<1> DEFINE Quiet == /\ UNCHANGED <<now, account, link, session, over, spent, sockets>>
                    /\ calls' \subseteq calls
<1>2. ASSUME NEW l \in DOMAIN link, NEW u \in Users, AcceptFirstAdmin(l, u)
      PROVE  IdentityInv'
  BY <1>2, FirstAdminScript, Taken DEF AcceptFirstAdmin, Takes, Does
<1>3. ASSUME NEW l \in DOMAIN link, NEW u \in Users, SetPassword(l, u)
      PROVE  IdentityInv'
  BY <1>3, PasswordScript, Taken DEF SetPassword, Takes, Does
<1>4. ASSUME NEW u \in Users, NEW a \in Addresses, LoginFails(u, a)
      PROVE  IdentityInv'
  <2>1. PICK x, y : x = CountAddressFailure(a) /\ y = CountAccountFailure(u)
    OBVIOUS
  <2>2. x.put = "address" /\ y.put = "lock"
    BY <2>1 DEF CountAddressFailure, CountAccountFailure, PutAddress, PutLock
  <2>3. ScriptOK(<<x>>) /\ ScriptOK(<<x, y>>)
    BY <2>2, LockScript, FailureScript
  <2>4. (script' = <<x>> \/ script' = <<x, y>>) /\ Quiet
    BY <1>4, <2>1 DEF LoginFails, Does
  <2> QED
    BY <2>3, <2>4, Taken
<1>5. ASSUME NEW u \in Users, NEW a \in Addresses, LoginRight(u, a)
      PROVE  IdentityInv'
  BY <1>5, LoginScript, Taken DEF LoginRight, Takes, Does
<1>6. ASSUME NEW s \in DOMAIN session, Logout(s)
      PROVE  IdentityInv'
  BY <1>6, LogoutScript, Taken DEF Logout, Takes, Does
<1>7. ASSUME NEW c \in calls, OtherCall(c)
      PROVE  IdentityInv'
  <2>1. script' = script /\ Quiet
    BY <1>7 DEF OtherCall
  <2> QED
    BY <2>1, Taken DEF IdentityInv
<1>8. ASSUME NEW c \in calls, AdminCall(c)
      PROVE  IdentityInv'
  <2>1. PICK u \in Users :
          \/ \E r \in Roles : CreateUser(c, u, r) \/ SetUserRoles(c, u, r)
          \/ \E disabled \in BOOLEAN : DisableUser(c, u, disabled)
          \/ ResetPassword(c, u) \/ UnlockUser(c, u) \/ RevokeSessions(c, u)
    BY <1>8 DEF AdminCall
  <2>2. account[u] \in Accounts
    BY DEF IdentityInv, TablesOK
  <2>3. ASSUME NEW r \in Roles, CreateUser(c, u, r)
        PROVE  IdentityInv'
    <3>1. PICK rec : rec = [NoAccount EXCEPT !.made = TRUE, !.role = r]
      OBVIOUS
    <3>2. rec \in Accounts /\ rec.made
      BY <3>1 DEF NoAccount, Accounts
    <3>3. script' = <<PutAccount(u, rec), Invite(u)>> /\ Quiet /\ RoomForLink
      BY <2>3, <3>1 DEF CreateUser, AsAdmin, Takes, Does
    <3> QED
      BY <3>2, <3>3, InviteScript, Taken
  <2>4. ASSUME NEW r \in Roles, SetUserRoles(c, u, r)
        PROVE  IdentityInv'
    <3>1. PICK rec : rec = [account[u] EXCEPT !.role = r]
      OBVIOUS
    <3>2. rec \in Accounts /\ rec.made
      BY <2>2, <2>4, <3>1 DEF Accounts, SetUserRoles
    <3>3. script' = <<PutAccount(u, rec), Revoke(u), Answer(SessionsOf(u))>> /\ Quiet
      BY <2>4, <3>1 DEF SetUserRoles, AsAdmin, Takes, Does
    <3> QED
      BY <3>2, <3>3, ChangeScript, Taken
  <2>5. ASSUME NEW disabled \in BOOLEAN, DisableUser(c, u, disabled)
        PROVE  IdentityInv'
    <3>1. PICK rec : rec = [account[u] EXCEPT !.disabled = disabled]
      OBVIOUS
    <3>2. rec \in Accounts /\ rec.made
      BY <2>2, <2>5, <3>1 DEF Accounts, DisableUser
    <3>3. /\ \/ script' = <<PutAccount(u, rec), Revoke(u), Answer(SessionsOf(u))>>
             \/ script' = <<PutAccount(u, rec)>>
          /\ Quiet
      BY <2>5, <3>1 DEF DisableUser, AsAdmin, Takes, Does
    <3> QED
      BY <3>2, <3>3, ChangeScript, EnableScript, Taken
  <2>6. CASE ResetPassword(c, u)
    BY <2>6, ResetScripts, Taken DEF ResetPassword, AsAdmin, Takes, Does
  <2>7. CASE UnlockUser(c, u)
    <3>1. PICK w : w = Unlock(u)
      OBVIOUS
    <3>2. w.put = "lock"
      BY <3>1 DEF Unlock, PutLock
    <3>3. script' = <<w>> /\ Quiet
      BY <2>7, <3>1 DEF UnlockUser, AsAdmin, Takes, Does
    <3> QED
      BY <3>2, <3>3, LockScript, Taken
  <2>8. CASE RevokeSessions(c, u)
    BY <2>8, RevokeScript, Taken DEF RevokeSessions, AsAdmin, Takes, Does
  <2> QED
    BY <2>1, <2>3, <2>4, <2>5, <2>6, <2>7, <2>8
<1>9. CASE OperatorBootstrap
  <2>1. script' = BootstrapWrites /\ RoomForLink /\ Quiet
    BY <1>9 DEF OperatorBootstrap, Takes, Does
  <2> QED
    BY <2>1, BootstrapScript, Taken DEF IdentityInv
<1>10. ASSUME NEW u \in Users, OperatorReset(u)
       PROVE  IdentityInv'
  BY <1>10, ResetScripts, Taken DEF OperatorReset, Takes, Does
<1> QED
  BY <1>1, <1>2, <1>3, <1>4, <1>5, <1>6, <1>7, <1>8, <1>9, <1>10 DEF System

LEMMA ServerStep ==
  ASSUME IdentityInv, IdentityAssumption, Server
  PROVE  IdentityInv'
<1>1. UNCHANGED <<now, account, link, session, over, spent, script>>
  BY DEF Server, Request, Upgrade, SocketRequest, Revalidate, CloseSocket, tables, history
<1>2. TablesOK' /\ OverOK' /\ LinksOK'
  BY <1>1 DEF IdentityInv, TablesOK, OverOK, LinksOK, NoAccounts
<1>3. ScriptOK(script)'
  BY <1>1, SameTables DEF IdentityInv
<1>4. now \in Nat /\ RevalidateEvery \in Nat
  BY DEF IdentityInv, TablesOK, IdentityAssumption
<1>5. ASSUME NEW s, Live(s) PROVE s \in DOMAIN session /\ over[s] = Never
  BY <1>5, InvEnds DEF EndedStaysEnded, Live
<1>6. ASSUME NEW k \in sockets' PROVE
        /\ k.session \in DOMAIN session /\ k.checked \in Nat
        /\ k.checked <= now /\ now <= k.checked + RevalidateEvery
        /\ over[k.session] /= Never => k.checked <= over[k.session]
  <2>1. CASE k \in sockets
    BY <2>1 DEF IdentityInv, SocketsOK
  <2>2. CASE k \notin sockets
    <3>1. ASSUME NEW s, Upgrade(s)
          PROVE  k.session = s /\ k.checked = now /\ Live(s)
      BY <2>2, <3>1 DEF Upgrade
    <3>2. ASSUME NEW o \in sockets, Revalidate(o)
          PROVE  k.session = o.session /\ k.checked = now /\ Live(o.session)
      <4>1. Live(o.session) /\ k = [o EXCEPT !.checked = now]
        BY <2>2, <3>2 DEF Revalidate
      <4> QED
        BY <4>1
    <3>3. k.checked = now /\ Live(k.session)
      BY <2>2, <3>1, <3>2 DEF Server, Request, SocketRequest, CloseSocket
    <3> QED
      BY <1>4, <1>5, <3>3
  <2> QED
    BY <2>1, <2>2
<1>7. SocketsOK'
  BY <1>1, <1>6 DEF SocketsOK
<1>8. ASSUME NEW c \in calls' PROVE
        /\ c.session \in DOMAIN session /\ c.at \in Nat /\ c.at <= now
        /\ over[c.session] /= Never => c.at <= over[c.session] + RevalidateEvery
  <2>1. CASE c \in calls
    BY <2>1 DEF IdentityInv, CallsOK
  <2>2. CASE c \notin calls
    <3>1. ASSUME NEW s, Request(s)
          PROVE  c.at = now /\ Live(c.session)
      BY <2>2, <3>1 DEF Request
    <3>2. ASSUME NEW k \in sockets, SocketRequest(k)
          PROVE  c.at = now /\ c.session = k.session
      BY <2>2, <3>2 DEF SocketRequest
    <3>3. \/ c.at = now /\ Live(c.session)
          \/ c.at = now /\ \E k \in sockets : c.session = k.session
      BY <2>2, <3>1, <3>2 DEF Server, Upgrade, Revalidate, CloseSocket
    <3>4. ASSUME NEW k \in sockets, c.at = now, c.session = k.session, over[c.session] /= Never
          PROVE  c.at <= over[c.session] + RevalidateEvery
      <4>1. /\ k.checked \in Nat /\ now <= k.checked + RevalidateEvery
            /\ k.checked <= over[c.session] /\ c.session \in 1..MaxSessions
        BY <3>4 DEF IdentityInv, SocketsOK, TablesOK
      <4>2. over[c.session] \in Int
        BY <4>1 DEF IdentityInv, TablesOK
      <4> QED
        BY <1>4, <3>4, <4>1, <4>2
    <3>5. \A k \in sockets : k.session \in DOMAIN session
      BY DEF IdentityInv, SocketsOK
    <3> QED
      BY <1>4, <1>5, <3>3, <3>4, <3>5
  <2> QED
    BY <2>1, <2>2
<1>9. CallsOK'
  BY <1>1, <1>8 DEF CallsOK
<1> QED
  BY <1>2, <1>3, <1>7, <1>9 DEF IdentityInv

LEMMA TickStep ==
  ASSUME IdentityInv, IdentityAssumption, Tick
  PROVE  IdentityInv'
<1>1. /\ now' = now + 1 /\ UNCHANGED <<account, link, session, over, spent, script, sockets, calls>>
      /\ \A k \in sockets : now < k.checked + RevalidateEvery
  BY DEF Tick, tables, net, history
<1>2. now \in Nat /\ RevalidateEvery \in Nat
  BY DEF IdentityInv, TablesOK, IdentityAssumption
<1>3. TablesOK' /\ LinksOK'
  BY <1>1, <1>2 DEF IdentityInv, TablesOK, LinksOK, NoAccounts
<1>4. OverOK'
  BY <1>1, <1>2 DEF IdentityInv, OverOK
<1>5. SocketsOK'
  BY <1>1, <1>2 DEF IdentityInv, SocketsOK
<1>6. CallsOK'
  BY <1>1, <1>2 DEF IdentityInv, CallsOK
<1>7. ScriptOK(script)'
  BY <1>1, SameTables DEF IdentityInv
<1> QED
  BY <1>3, <1>4, <1>5, <1>6, <1>7 DEF IdentityInv

LEMMA BrokenOff ==
  ASSUME IdentityInv, WriteFails \/ Kill
  PROVE  IdentityInv'
<1>1. /\ script' = <<>> /\ sockets' \subseteq sockets /\ calls' \subseteq calls
      /\ UNCHANGED <<now, account, link, session, over, spent>>
  BY DEF WriteFails, Kill, tables, net, history
<1> QED
  BY <1>1, NoWrites, Taken

LEMMA Stays ==
  ASSUME IdentityInv, UNCHANGED vars
  PROVE  IdentityInv'
<1>1. /\ script' = script /\ UNCHANGED <<now, account, link, session, over, spent, sockets, calls>>
  BY DEF vars, tables, net, history
<1> QED
  BY <1>1, Taken DEF IdentityInv

LEMMA Begins ==
  ASSUME Init, IdentityAssumption
  PROVE  IdentityInv
<1>1. TablesOK
  BY DEF Init, TablesOK, NoAccount, Accounts, Never, IdentityAssumption
<1>2. OverOK /\ SocketsOK /\ CallsOK /\ LinksOK
  BY DEF Init, OverOK, SocketsOK, CallsOK, LinksOK
<1>3. ScriptOK(script)
  BY NoWrites DEF Init
<1> QED
  BY <1>1, <1>2, <1>3 DEF IdentityInv

LEMMA IdentityInvNext == IdentityInv /\ [Next]_vars => IdentityInv'
BY SystemStep, WriteStep, BrokenOff, ServerStep, TickStep, Stays, IdentityAssumption DEF Next

\* Whatever fails or is killed between the writes of a request: a session that
\* was answered as ended is never live again, no request of an ended session
\* reaches Core later than one revalidation after that answer, and a one-time
\* link sets one password in its life (identity.rs, ws.rs).
THEOREM WhatEndedIsOver == Spec => []EndedIsOver
<1>1. Init => IdentityInv
  BY Begins, IdentityAssumption
<1>2. IdentityInv /\ [Next]_vars => IdentityInv'
  BY IdentityInvNext
<1>3. IdentityInv => EndedIsOver
  BY InvEnds, InvSockets, InvLinks DEF EndedIsOver
<1> QED
  BY <1>1, <1>2, <1>3, PTL DEF Spec

-----------------------------------------------------------------------------
(* Guessing.  The time an account has been locked is a recursive sum, so   *)
(* first that its definition defines a function at all: the sums as far as *)
(* each number exist and agree, by induction over sets of numbers.  Then   *)
(* what is counted for an account agrees with its lock (Paced), and a lock *)
(* still to be written counts one more of an account that is not locked,   *)
(* since no time passes and no other lock is written before it is.         *)

Lasts == [k \in Nat |-> AccountLock * 2^(IF k < MostDoublings THEN k ELSE MostDoublings)]

\* Induction over the numbers, of a set of them: its complement has no least one.
LEMMA Induction ==
  ASSUME NEW S \in SUBSET Nat, 0 \in S, \A n \in S : n + 1 \in S
  PROVE  S = Nat
<1> SUFFICES ASSUME Nat \ S # {} PROVE FALSE
  OBVIOUS
<1>1. IsWellFoundedOn(OpToRel(<, Nat), Nat)
  BY NatLessThanWellFounded
<1>2. PICK n \in Nat \ S : \A m \in Nat \ S : ~(<<m, n>> \in OpToRel(<, Nat))
  BY <1>1, WFMin
<1>3. n # 0 /\ n - 1 \in Nat /\ n - 1 < n /\ (n - 1) + 1 = n
  <2>1. n \in Nat /\ n \notin S
    BY Zenon
  <2>2. n # 0
    BY <2>1, Zenon
  <2> QED
    BY <2>1, <2>2
<1>4. <<n - 1, n>> \in OpToRel(<, Nat)
  BY <1>3 DEF OpToRel
<1>5. n - 1 \in S
  BY <1>2, <1>3, <1>4
<1> QED
  BY <1>2, <1>3, <1>5

\* The sums of a function's first values, as far as n, are a function ...
Sums(f, g, n) ==
  f \in [0..n -> Int] /\ f[0] = 0 /\ \A k \in 1..n : f[k] = f[k - 1] + g[k - 1]

LEMMA SumsExist ==
  ASSUME NEW g \in [Nat -> Int]
  PROVE  \A n \in Nat : \E f : Sums(f, g, n)
<1> DEFINE S == {n \in Nat : \E f : Sums(f, g, n)}
<1>1. 0 \in S
  <2>1. Sums([k \in 0..0 |-> 0], g, 0)
    BY DEF Sums
  <2> QED
    BY <2>1
<1>2. ASSUME NEW n \in S PROVE n + 1 \in S
  <2>1. PICK f : Sums(f, g, n)
    OBVIOUS
  <2>2. PICK h : h = [k \in 0..(n + 1) |-> IF k = n + 1 THEN f[n] + g[n] ELSE f[k]]
    OBVIOUS
  <2>3. n \in Nat /\ f[n] \in Int /\ g[n] \in Int
    BY <2>1 DEF Sums
  <2>4. h \in [0..(n + 1) -> Int] /\ h[0] = 0
    BY <2>1, <2>2, <2>3 DEF Sums
  <2>5. ASSUME NEW k \in 1..(n + 1) PROVE h[k] = h[k - 1] + g[k - 1]
    <3>1. CASE k = n + 1
      BY <2>2, <2>3, <3>1
    <3>2. CASE k # n + 1
      BY <2>1, <2>2, <2>3, <3>2 DEF Sums
    <3> QED
      BY <3>1, <3>2
  <2>6. Sums(h, g, n + 1)
    BY <2>4, <2>5 DEF Sums
  <2> QED
    BY <2>3, <2>6
<1> HIDE DEF S
<1>3. S = Nat
  <2>1. S \in SUBSET Nat
    BY DEF S
  <2> QED
    BY <1>1, <1>2, <2>1, Induction
<1> QED
  BY <1>3 DEF S

\* ... and only one: two of them agree as far as both go.
LEMMA SumsAgree ==
  ASSUME NEW g \in [Nat -> Int], NEW m \in Nat, NEW n \in Nat, m <= n,
         NEW e, NEW f, Sums(e, g, m), Sums(f, g, n)
  PROVE  \A k \in 0..m : e[k] = f[k]
<1> DEFINE S == {k \in Nat : k <= m => e[k] = f[k]}
<1>1. 0 \in S
  BY DEF Sums
<1>2. ASSUME NEW k \in S PROVE k + 1 \in S
  <2>1. CASE k + 1 <= m
    <3>1. k \in Nat /\ k + 1 \in 1..m /\ k + 1 \in 1..n /\ (k + 1) - 1 = k /\ k <= m
      BY <2>1
    <3>2. e[k + 1] = e[k] + g[k] /\ f[k + 1] = f[k] + g[k]
      BY <3>1 DEF Sums
    <3> QED
      BY <3>1, <3>2
  <2>2. CASE ~(k + 1 <= m)
    BY <2>2
  <2> QED
    BY <2>1, <2>2
<1> HIDE DEF S
<1>3. S = Nat
  <2>1. S \in SUBSET Nat
    BY DEF S
  <2> QED
    BY <1>1, <1>2, <2>1, Induction
<1> QED
  BY <1>3 DEF S

LEMMA LastsFacts ==
  ASSUME IdentityAssumption
  PROVE  Lasts \in [Nat -> Int]
<1> DEFINE Exponent(k) == IF k < MostDoublings THEN k ELSE MostDoublings
<1>1. AccountLock \in Nat /\ MostDoublings \in Nat
  BY DEF IdentityAssumption
<1>2. ASSUME NEW k \in Nat PROVE AccountLock * 2^Exponent(k) \in Int
  <2>1. Exponent(k) \in Nat
    BY <1>1
  <2> HIDE DEF Exponent
  <2>2. 2^Exponent(k) \in Int
    BY <2>1
  <2> QED
    BY <1>1, <2>2
<1> QED
  BY <1>2 DEF Lasts

\* So the recursive definition of the time locked defines what it says.
LEMMA LockedForFacts ==
  ASSUME IdentityAssumption
  PROVE  /\ LockedFor \in [Nat -> Int] /\ LockedFor[0] = 0
         /\ \A k \in Nat : LockedFor[k + 1] = LockedFor[k] + Lasts[k]
<1> DEFINE Exponent(k) == IF k < MostDoublings THEN k ELSE MostDoublings
           Next1(f, k) == IF k = 0 THEN 0 ELSE f[k - 1] + AccountLock * 2^Exponent(k - 1)
<1>1. Lasts \in [Nat -> Int] /\ \A k \in Nat : Lasts[k] = AccountLock * 2^Exponent(k)
  BY LastsFacts DEF Lasts
<1> DEFINE Part(n) == CHOOSE f : Sums(f, Lasts, n)
           F == [k \in Nat |-> Part(k)[k]]
<1>2. \A n \in Nat : Sums(Part(n), Lasts, n)
  BY <1>1, SumsExist
<1> HIDE DEF Part
<1>3. F \in [Nat -> Int] /\ F[0] = 0
  BY <1>2 DEF Sums
<1>4. ASSUME NEW k \in Nat PROVE F[k + 1] = F[k] + Lasts[k]
  <2>1. Sums(Part(k), Lasts, k) /\ Sums(Part(k + 1), Lasts, k + 1)
    BY <1>2
  <2>2. Part(k)[k] = Part(k + 1)[k]
    BY <1>1, <2>1, SumsAgree
  <2>3. Part(k + 1)[k + 1] = Part(k + 1)[k] + Lasts[k]
    BY <2>1 DEF Sums
  <2> QED
    BY <2>2, <2>3
<1> HIDE DEF F
<1>5. F = [k \in Nat |-> Next1(F, k)]
  <2>1. ASSUME NEW k \in Nat PROVE F[k] = Next1(F, k)
    <3>1. CASE k = 0
      BY <1>3, <3>1
    <3>2. CASE k # 0
      <4>1. k - 1 \in Nat /\ (k - 1) + 1 = k
        BY <3>2
      <4>2. F[k] = F[k - 1] + Lasts[k - 1]
        BY <1>4, <4>1
      <4>3. Lasts[k - 1] = AccountLock * 2^Exponent(k - 1)
        BY <1>1, <4>1
      <4> HIDE DEF Exponent
      <4> QED
        BY <3>2, <4>2, <4>3
    <3> QED
      BY <3>1, <3>2
  <2> QED
    BY <1>3, <2>1
<1>6. LockedFor = [k \in Nat |-> Next1(LockedFor, k)]
  <2>1. LockedFor = CHOOSE f : f = [k \in Nat |-> Next1(f, k)]
    BY DEF LockedFor
  <2> HIDE DEF Next1
  <2> QED
    BY <1>5, <2>1
<1>7. LockedFor[0] = 0 /\ \A k \in Nat : LockedFor[k + 1] = LockedFor[k] + Lasts[k]
  BY <1>1, <1>6
<1>8. LockedFor \in [Nat -> Int]
  <2> DEFINE S == {k \in Nat : LockedFor[k] \in Int}
  <2>1. 0 \in S /\ \A k \in S : k + 1 \in S
    BY <1>1, <1>7
  <2> HIDE DEF S
  <2>2. S = Nat
    <3>1. S \in SUBSET Nat
      BY DEF S
    <3> QED
      BY <2>1, <3>1, Induction
  <2>3. \A k \in Nat : LockedFor[k] \in Int
    BY <2>2 DEF S
  <2> HIDE DEF Next1
  <2>4. LockedFor = [k \in Nat |-> LockedFor[k]]
    BY <1>6
  <2> QED
    BY <2>3, <2>4
<1> QED
  BY <1>7, <1>8
\* What is counted for an account agrees with its lock, and what was counted
\* took as long as the locks of its full rounds, the last of which may run.
Paced(u) ==
  /\ guesses[u].count = lock[u].rounds * AccountFailures + lock[u].failures
  /\ guesses[u].last <= now
  /\ guesses[u].count > 0 =>
       IF lock[u].failures > 0
       THEN guesses[u].last - guesses[u].since >= LockedFor[lock[u].rounds]
       ELSE /\ lock[u].rounds > 0
            /\ guesses[u].last - guesses[u].since >= LockedFor[lock[u].rounds - 1]
            /\ lock[u].until >= guesses[u].last + Lasts[lock[u].rounds - 1]

\* A lock that is still to be written is cleared, or counts one more where
\* the account is not locked.
PacedWrite(w) ==
  w.put = "lock" =>
    /\ w.at \in Users
    /\ w.to = NoLock \/ (~Locked(w.at) /\ w.to = CountAccountFailure(w.at).to)

LocksTyped ==
  /\ lock \in [Users -> [failures : 0..AccountFailures - 1, rounds : Nat, until : Int]]
  /\ guesses \in [Users -> [count : Nat, since : Int, last : Int]]

PacedList(sc) == \A i \in DOMAIN sc : PacedWrite(sc[i])

PaceInv == LocksTyped /\ (\A u \in Users : Paced(u)) /\ PacedList(script)
LEMMA PaceInvInit == IdentityAssumption /\ Init => PaceInv
<1> SUFFICES ASSUME IdentityAssumption, Init PROVE PaceInv
  OBVIOUS
<1>1. AccountFailures \in Nat /\ AccountFailures > 0
  BY DEF IdentityAssumption
<1>2. now = 0 /\ script = <<>>
  BY DEF Init
<1>3. \A u \in Users : lock[u] = NoLock /\ guesses[u] = NoGuess
  BY DEF Init
<1>4. LocksTyped
  BY <1>1 DEF Init, LocksTyped, NoLock, NoGuess
<1>5. \A u \in Users : Paced(u)
  BY <1>1, <1>2, <1>3 DEF Paced, NoLock, NoGuess
<1>6. PacedList(script)
  BY <1>2 DEF PacedList
<1> QED
  BY <1>4, <1>5, <1>6 DEF PaceInv

\* Where no lock is running, all the rounds that are counted have been waited for.
LEMMA Waited ==
  ASSUME IdentityAssumption, LocksTyped, now \in Int, NEW u \in Users, Paced(u), ~Locked(u)
  PROVE  /\ lock[u].failures \in Nat /\ lock[u].rounds \in Nat
         /\ guesses[u].count = 0 => lock[u].rounds = 0
         /\ guesses[u].count > 0 => now - guesses[u].since >= LockedFor[lock[u].rounds]
<1>1. PICK f, r, t, c, s, l :
        /\ f = lock[u].failures /\ r = lock[u].rounds /\ t = lock[u].until
        /\ c = guesses[u].count /\ s = guesses[u].since /\ l = guesses[u].last
  OBVIOUS
<1>2. /\ f \in 0..AccountFailures - 1 /\ r \in Nat /\ t \in Int
      /\ c \in Nat /\ s \in Int /\ l \in Int /\ AccountFailures \in Nat /\ AccountFailures > 0
  <2>1. AccountFailures \in Nat /\ AccountFailures > 0
    BY DEF IdentityAssumption
  <2>2. /\ lock[u] \in [failures : 0..AccountFailures - 1, rounds : Nat, until : Int]
        /\ guesses[u] \in [count : Nat, since : Int, last : Int]
    BY DEF LocksTyped
  <2> QED
    BY <1>1, <2>1, <2>2
<1>3. /\ c = r * AccountFailures + f /\ l <= now
      /\ c > 0 => IF f > 0 THEN l - s >= LockedFor[r]
                  ELSE /\ r > 0 /\ l - s >= LockedFor[r - 1] /\ t >= l + Lasts[r - 1]
      /\ t <= now
  BY <1>1, <1>2 DEF Paced, Locked
<1>4. c = 0 => r = 0
  <2>1. r > 0 => r * AccountFailures > 0
    BY <1>2
  <2>2. r * AccountFailures \in Nat
    BY <1>2
  <2> QED
    BY <1>2, <1>3, <2>1, <2>2
<1>5. ASSUME c > 0 PROVE now - s >= LockedFor[r]
  <2>1. LockedFor[r] \in Int
    BY <1>2, LockedForFacts
  <2>2. CASE f > 0
    BY <1>2, <1>3, <1>5, <2>1, <2>2
  <2>3. CASE ~(f > 0)
    <3>1. /\ r - 1 \in Nat /\ (r - 1) + 1 = r
          /\ l - s >= LockedFor[r - 1] /\ t >= l + Lasts[r - 1]
      BY <1>2, <1>3, <1>5, <2>3
    <3>2. /\ LockedFor[r] = LockedFor[r - 1] + Lasts[r - 1] /\ LockedFor[r - 1] \in Int
          /\ Lasts[r - 1] \in Int
      <4>1. LockedFor[(r - 1) + 1] = LockedFor[r - 1] + Lasts[r - 1]
        BY <3>1, LockedForFacts
      <4>2. LockedFor[r - 1] \in Int /\ Lasts[r - 1] \in Int
        BY <3>1, LockedForFacts, LastsFacts
      <4> QED
        BY <3>1, <4>1, <4>2
    <3> QED
      BY <1>2, <1>3, <3>1, <3>2
  <2> QED
    BY <2>2, <2>3
<1> QED
  BY <1>1, <1>2, <1>4, <1>5

\* The next wrong password, of an account that is not locked.
LEMMA CountedFacts ==
  ASSUME IdentityAssumption, LocksTyped, now \in Nat, NEW u \in Users, Paced(u), ~Locked(u),
         lock' = [lock EXCEPT ![u] = CountAccountFailure(u).to],
         guesses' = [guesses EXCEPT ![u] = Guessed(u)], now' = now
  PROVE  LocksTyped' /\ Paced(u)'
<1>1. PICK f, r, t, c, s, l, n :
        /\ f = lock[u].failures /\ r = lock[u].rounds /\ t = lock[u].until
        /\ c = guesses[u].count /\ s = guesses[u].since /\ l = guesses[u].last
        /\ n = AccountFailures
  OBVIOUS
<1>2. /\ f \in 0..n - 1 /\ r \in Nat /\ t \in Int
      /\ c \in Nat /\ s \in Int /\ l \in Int /\ n \in Nat /\ n > 0
      /\ lock[u] = [failures |-> f, rounds |-> r, until |-> t]
  <2>1. AccountFailures \in Nat /\ AccountFailures > 0
    BY DEF IdentityAssumption
  <2>2. /\ lock[u] \in [failures : 0..AccountFailures - 1, rounds : Nat, until : Int]
        /\ guesses[u] \in [count : Nat, since : Int, last : Int]
    BY DEF LocksTyped
  <2> QED
    BY <1>1, <2>1, <2>2
<1>3. /\ c = r * n + f /\ l <= now
      /\ c = 0 => r = 0
      /\ c > 0 => now - s >= LockedFor[r]
  BY <1>1, Waited DEF Paced
<1>4. /\ LockedFor[r] \in Int /\ LockedFor[0] = 0 /\ Lasts[r] \in Int
      /\ Lasts[r] = AccountLock * 2^(IF r < MostDoublings THEN r ELSE MostDoublings)
  BY <1>2, LockedForFacts, LastsFacts DEF Lasts
<1>5. PICK first : first = IF c = 0 THEN now ELSE s
  OBVIOUS
<1>6. Guessed(u) = [count |-> c + 1, last |-> now, since |-> first] /\ first \in Int
  BY <1>1, <1>2, <1>5 DEF Guessed
<1>7. now - first >= LockedFor[r]
  <2>1. CASE c = 0
    <3>1. r = 0 /\ first = now
      BY <1>3, <1>5, <2>1, Zenon
    <3>2. LockedFor[r] = 0
      BY <1>4, <3>1
    <3> QED
      BY <3>1, <3>2
  <2>2. CASE c # 0
    <3>1. c > 0 /\ first = s
      BY <1>2, <1>5, <2>2
    <3> QED
      BY <1>3, <3>1
  <2> QED
    BY <2>1, <2>2
<1>8. /\ guesses' \in [Users -> [count : Nat, since : Int, last : Int]]
      /\ guesses'[u].count = c + 1 /\ guesses'[u].last = now /\ guesses'[u].since = first
  <2>1. Guessed(u) \in [count : Nat, since : Int, last : Int]
    BY <1>2, <1>6
  <2>2. guesses'[u] = Guessed(u)
    BY DEF LocksTyped
  <2> QED
    BY <1>6, <2>1, <2>2 DEF LocksTyped
<1>9. CASE f + 1 >= n
  <2>1. CountAccountFailure(u).to = [failures |-> 0, rounds |-> r + 1, until |-> now + Lasts[r]]
    BY <1>1, <1>4, <1>9 DEF CountAccountFailure, PutLock
  <2>2. /\ lock' \in [Users -> [failures : 0..AccountFailures - 1, rounds : Nat, until : Int]]
        /\ lock'[u].failures = 0 /\ lock'[u].rounds = r + 1 /\ lock'[u].until = now + Lasts[r]
    <3>1. [failures |-> 0, rounds |-> r + 1, until |-> now + Lasts[r]]
            \in [failures : 0..AccountFailures - 1, rounds : Nat, until : Int]
      BY <1>1, <1>2, <1>4
    <3>2. lock'[u] = [failures |-> 0, rounds |-> r + 1, until |-> now + Lasts[r]]
      BY <2>1 DEF LocksTyped
    <3> QED
      BY <2>1, <3>1, <3>2 DEF LocksTyped
  <2>3. c + 1 = (r + 1) * n + 0
    <3>1. f + 1 = n
      BY <1>2, <1>9
    <3>2. PICK p, q \in Nat : p = r * n /\ q = (r + 1) * n /\ q = p + n
      BY <1>2
    <3>3. c = p + f
      BY <1>3, <3>2, Zenon
    <3>4. c + 1 = q + 0
      BY <1>2, <3>1, <3>2, <3>3
    <3> QED
      BY <3>2, <3>4
  <2>4. r + 1 > 0 /\ (r + 1) - 1 = r
    BY <1>2
  <2>5. Paced(u)'
    <3>1. guesses'[u].count = lock'[u].rounds * AccountFailures + lock'[u].failures
      BY <1>1, <1>8, <2>2, <2>3
    <3>2. guesses'[u].last - guesses'[u].since >= LockedFor[lock'[u].rounds - 1]
      BY <1>7, <1>8, <2>2, <2>4
    <3>3. lock'[u].until >= guesses'[u].last + Lasts[lock'[u].rounds - 1]
      BY <1>4, <1>8, <2>2, <2>4
    <3>4. lock'[u].failures = 0 /\ lock'[u].rounds > 0 /\ guesses'[u].last <= now'
      BY <1>8, <2>2, <2>4
    <3> QED
      BY <3>1, <3>2, <3>3, <3>4 DEF Paced
  <2> QED
    BY <1>8, <2>2, <2>5 DEF LocksTyped
<1>10. CASE ~(f + 1 >= n)
  <2>1. CountAccountFailure(u).to = [failures |-> f + 1, rounds |-> r, until |-> t]
    BY <1>1, <1>2, <1>10 DEF CountAccountFailure, PutLock
  <2>2. /\ lock' \in [Users -> [failures : 0..AccountFailures - 1, rounds : Nat, until : Int]]
        /\ lock'[u].failures = f + 1 /\ lock'[u].rounds = r
    <3>1. [failures |-> f + 1, rounds |-> r, until |-> t]
            \in [failures : 0..AccountFailures - 1, rounds : Nat, until : Int]
      BY <1>1, <1>2, <1>10
    <3>2. lock'[u] = [failures |-> f + 1, rounds |-> r, until |-> t]
      BY <2>1 DEF LocksTyped
    <3> QED
      BY <2>1, <3>1, <3>2 DEF LocksTyped
  <2>3. c + 1 = r * n + (f + 1)
    <3>1. PICK p \in Nat : p = r * n
      BY <1>2
    <3>2. c = p + f
      BY <1>3, <3>1, Zenon
    <3>3. c + 1 = p + (f + 1)
      BY <1>2, <3>1, <3>2
    <3> QED
      BY <3>1, <3>3
  <2>4. Paced(u)'
    <3>1. guesses'[u].count = lock'[u].rounds * AccountFailures + lock'[u].failures
      BY <1>1, <1>8, <2>2, <2>3
    <3>2. guesses'[u].last - guesses'[u].since >= LockedFor[lock'[u].rounds]
      BY <1>7, <1>8, <2>2
    <3>3. lock'[u].failures > 0 /\ guesses'[u].last <= now'
      BY <1>2, <1>8, <2>2
    <3> QED
      BY <3>1, <3>2, <3>3 DEF Paced
  <2> QED
    BY <1>8, <2>2, <2>4 DEF LocksTyped
<1> QED
  BY <1>9, <1>10

LEMMA ClearedFacts ==
  ASSUME IdentityAssumption, LocksTyped, now \in Nat, NEW u \in Users,
         lock' = [lock EXCEPT ![u] = NoLock], guesses' = [guesses EXCEPT ![u] = NoGuess],
         now' = now
  PROVE  LocksTyped' /\ Paced(u)'
<1>1. AccountFailures \in Nat /\ AccountFailures > 0
  BY DEF IdentityAssumption
<1>2. lock'[u] = NoLock /\ guesses'[u] = NoGuess
  BY DEF LocksTyped
<1>3. /\ NoLock \in [failures : 0..AccountFailures - 1, rounds : Nat, until : Int]
      /\ NoGuess \in [count : Nat, since : Int, last : Int]
  BY <1>1 DEF NoLock, NoGuess
<1>4. LocksTyped'
  BY <1>3 DEF LocksTyped
<1>5. Paced(u)'
  BY <1>1, <1>2 DEF Paced, NoLock, NoGuess
<1> QED
  BY <1>4, <1>5

\* What an account's lock and clock do not change.
LEMMA PacedStays ==
  ASSUME NEW u, Paced(u), lock'[u] = lock[u], guesses'[u] = guesses[u],
         now \in Int, now' \in Int, guesses[u].last \in Int, now <= now'
  PROVE  Paced(u)'
BY DEF Paced

LEMMA PacedWriteStays ==
  ASSUME NEW w, PacedWrite(w), UNCHANGED <<lock, now>>
  PROVE  PacedWrite(w)'
BY DEF PacedWrite, Locked, CountAccountFailure

LEMMA ListStays ==
  ASSUME NEW sc, PacedList(sc), script' = sc, UNCHANGED <<lock, now>>
  PROVE  PacedList(script)'
<1>1. \A i \in DOMAIN sc : PacedWrite(sc[i])'
  BY PacedWriteStays DEF PacedList
<1> QED
  BY <1>1 DEF PacedList

\* A step that writes no lock.
LEMMA LocksSame ==
  ASSUME PaceInv, now \in Int, now' \in Int, now <= now', UNCHANGED <<lock, guesses>>,
         PacedList(script)'
  PROVE  PaceInv'
<1>1. \A u \in Users : guesses[u].last \in Int /\ Paced(u)
  BY DEF PaceInv, LocksTyped
<1>2. ASSUME NEW u \in Users PROVE Paced(u)'
  BY <1>1, PacedStays
<1>3. LocksTyped'
  BY DEF PaceInv, LocksTyped
<1> QED
  BY <1>2, <1>3 DEF PaceInv

\* A list of writes is taken, whatever it is made of.
LEMMA ListTaken ==
  ASSUME PaceInv, now \in Int, UNCHANGED <<now, lock, guesses>>,
         NEW T, NEW sc \in Seq(T), script' = sc, \A w \in T : PacedWrite(w)
  PROVE  PaceInv'
<1>1. \A i \in DOMAIN sc : sc[i] \in T
  BY LenProperties, ElementOfSeq
<1>2. PacedList(sc)
  BY <1>1 DEF PacedList
<1> QED
  BY <1>2, ListStays, LocksSame

LEMMA PaceWriteStep ==
  ASSUME PaceInv, IdentityInv, IdentityAssumption, Write
  PROVE  PaceInv'
<1>1. script # <<>> /\ now' = now /\ now \in Nat /\ IsSeq(script) /\ Distinct(script)
  BY DEF Write, IdentityInv, TablesOK, ScriptOK
<1>2. PICK sc, w, rest : sc = script /\ w = Head(script) /\ rest = Tail(script)
  OBVIOUS
<1>3. /\ 1 \in DOMAIN sc /\ sc[1] = w
      /\ \A i \in DOMAIN rest : i \in Nat \ {0} /\ i + 1 \in DOMAIN sc /\ rest[i] = sc[i + 1]
  BY <1>1, <1>2, PopFacts
<1>4. PacedList(sc) /\ PacedList(rest) /\ PacedWrite(w)
  BY <1>2, <1>3 DEF PaceInv, PacedList
<1>5. CASE w.put # "lock"
  <2>1. UNCHANGED <<lock, guesses>> /\ script' \in {sc, rest}
    BY <1>2, <1>5 DEF Write, RevokeOne, RetireOne, WriteAccount, WriteLink, WriteSession,
       WriteAddress, WriteFile, GiveAnswer, history, tables
  <2>2. PacedList(script)'
    BY <1>1, <1>4, <2>1, ListStays
  <2> QED
    BY <1>1, <2>1, <2>2, LocksSame
<1>6. CASE w.put = "lock"
  <2>1. WriteLock(w) /\ script' = rest
    BY <1>2, <1>6 DEF Write
  <2>2. PICK u \in Users : u = w.at
    BY <1>4, <1>6 DEF PacedWrite
  <2>3. /\ lock' = [lock EXCEPT ![u] = w.to]
        /\ guesses' = [guesses EXCEPT ![u] = IF w.to = NoLock THEN NoGuess ELSE Guessed(u)]
    BY <2>1, <2>2 DEF WriteLock
  <2>4. LocksTyped /\ Paced(u) /\ \A v \in Users : Paced(v) /\ guesses[v].last \in Int
    BY DEF PaceInv, LocksTyped
  <2>5. LocksTyped' /\ Paced(u)'
    <3>1. CASE w.to = NoLock
      BY <1>1, <2>3, <2>4, <3>1, ClearedFacts
    <3>2. CASE w.to # NoLock
      <4>1. ~Locked(u) /\ w.to = CountAccountFailure(u).to
        BY <1>4, <1>6, <2>2, <3>2 DEF PacedWrite
      <4> QED
        BY <1>1, <2>3, <2>4, <3>2, <4>1, CountedFacts
    <3> QED
      BY <3>1, <3>2
  <2>6. ASSUME NEW v \in Users, v # u PROVE Paced(v)'
    <3>1. lock'[v] = lock[v] /\ guesses'[v] = guesses[v]
      BY <2>3, <2>4, <2>6 DEF LocksTyped
    <3> QED
      BY <1>1, <2>4, <3>1, PacedStays
  <2>7. ASSUME NEW i \in DOMAIN rest PROVE rest[i].put # "lock"
    <3>1. i + 1 \in DOMAIN sc /\ rest[i] = sc[i + 1] /\ i + 1 # 1
      BY <1>3
    <3>2. Distinct(sc)
      BY <1>1, <1>2
    <3> QED
      BY <1>3, <1>6, <3>1, <3>2 DEF Distinct
  <2>8. PacedList(script)'
    <3>1. \A i \in DOMAIN rest : PacedWrite(rest[i])'
      BY <2>7 DEF PacedWrite
    <3> QED
      BY <2>1, <3>1 DEF PacedList
  <2>9. \A v \in Users : Paced(v)'
    BY <2>5, <2>6
  <2> QED
    BY <2>5, <2>8, <2>9 DEF PaceInv
<1> QED
  BY <1>5, <1>6

\* The kinds of write a list is made of.
LEMMA NoLockWrite ==
  ASSUME NEW w, w.put # "lock"
  PROVE  PacedWrite(w)
BY DEF PacedWrite

LEMMA UnlockWrite ==
  ASSUME NEW u \in Users
  PROVE  PacedWrite(Unlock(u))
BY DEF PacedWrite, Unlock, PutLock

LEMMA CountWrite ==
  ASSUME NEW u \in Users, ~Locked(u)
  PROVE  PacedWrite(CountAccountFailure(u))
<1>1. CountAccountFailure(u).at = u
  BY DEF CountAccountFailure, PutLock
<1> QED
  BY <1>1 DEF PacedWrite

LEMMA OtherKinds ==
  /\ \A u, rec : PacedWrite(PutAccount(u, rec))
  /\ \A u, rec, l : PacedWrite(PutPassword(u, rec, l))
  /\ \A l, rec : PacedWrite(PutLink(l, rec))
  /\ \A s, rec : PacedWrite(PutSession(s, rec))
  /\ \A l : PacedWrite(PutFile(l))
  /\ \A u : PacedWrite(Revoke(u)) /\ PacedWrite(StartSession(u)) /\ PacedWrite(Invite(u))
  /\ \A a : PacedWrite(CountAddressFailure(a))
  /\ \A S : PacedWrite(Answer(S))
  /\ \A l : PacedWrite(Spent(l))
  /\ PacedWrite(Retire)
BY NoLockWrite DEF PutAccount, PutPassword, PutLink, PutSession, PutFile, Revoke, StartSession,
   Invite, CountAddressFailure, PutAddress, Answer, Spent, Retire

LEMMA PaceSystemStep ==
  ASSUME PaceInv, IdentityInv, System
  PROVE  PaceInv'
<1>1. now \in Int
  BY DEF IdentityInv, TablesOK
<1> DEFINE TakesList(sc) == UNCHANGED <<now, lock, guesses>> /\ script' = sc
<1>2. ASSUME NEW a, TakesList(<<a>>), PacedWrite(a) PROVE PaceInv'
  <2>1. PICK T, sc : T = {a} /\ sc = <<a>>
    OBVIOUS
  <2>2. sc \in Seq(T)
    BY <2>1
  <2>3. \A w \in T : PacedWrite(w)
    BY <1>2, <2>1
  <2>4. script' = sc /\ UNCHANGED <<now, lock, guesses>>
    BY <1>2, <2>1, Zenon
  <2> QED
    BY <1>1, <2>2, <2>3, <2>4, ListTaken
<1>3. ASSUME NEW a, NEW b, TakesList(<<a, b>>), PacedWrite(a), PacedWrite(b) PROVE PaceInv'
  <2>1. PICK T, sc : T = {a, b} /\ sc = <<a, b>>
    OBVIOUS
  <2>2. sc \in Seq(T)
    BY <2>1
  <2>3. \A w \in T : PacedWrite(w)
    BY <1>3, <2>1
  <2>4. script' = sc /\ UNCHANGED <<now, lock, guesses>>
    BY <1>3, <2>1, Zenon
  <2> QED
    BY <1>1, <2>2, <2>3, <2>4, ListTaken
<1>4. ASSUME NEW a, NEW b, NEW c, TakesList(<<a, b, c>>), PacedWrite(a), PacedWrite(b), PacedWrite(c)
      PROVE  PaceInv'
  <2>1. PICK T, sc : T = {a, b, c} /\ sc = <<a, b, c>>
    OBVIOUS
  <2>2. sc \in Seq(T)
    BY <2>1
  <2>3. \A w \in T : PacedWrite(w)
    BY <1>4, <2>1
  <2>4. script' = sc /\ UNCHANGED <<now, lock, guesses>>
    BY <1>4, <2>1, Zenon
  <2> QED
    BY <1>1, <2>2, <2>3, <2>4, ListTaken
<1>5. ASSUME NEW a, NEW b, NEW c, NEW d, TakesList(<<a, b, c, d>>),
             PacedWrite(a), PacedWrite(b), PacedWrite(c), PacedWrite(d)
      PROVE  PaceInv'
  <2>1. PICK T, sc : T = {a, b, c, d} /\ sc = <<a, b, c, d>>
    OBVIOUS
  <2>2. sc \in Seq(T)
    BY <2>1
  <2>3. \A w \in T : PacedWrite(w)
    BY <1>5, <2>1
  <2>4. script' = sc /\ UNCHANGED <<now, lock, guesses>>
    BY <1>5, <2>1, Zenon
  <2> QED
    BY <1>1, <2>2, <2>3, <2>4, ListTaken
<1>6. ASSUME script' = <<>>, UNCHANGED <<now, lock, guesses>> PROVE PaceInv'
  <2>1. PacedList(<<>>)
    BY DEF PacedList
  <2> QED
    BY <1>1, <1>6, <2>1, ListStays, LocksSame
<1> HIDE DEF TakesList
<1>7. ASSUME NEW writes, Does(writes) PROVE TakesList(writes)
  BY <1>7 DEF Does, TakesList, tables, history
<1>8. CASE Start
  <2>1. UNCHANGED <<now, lock, guesses>> /\ (script' = BootstrapWrites \/ script' = <<>>)
    BY <1>8 DEF Start, history
  <2>2. CASE script' = BootstrapWrites
    <3>1. TakesList(BootstrapWrites)
      BY <2>1, <2>2 DEF TakesList
    <3> QED
      BY <1>4, <3>1, OtherKinds DEF BootstrapWrites
  <2> QED
    BY <1>6, <2>1, <2>2
<1>9. ASSUME NEW l \in DOMAIN link, NEW u \in Users, AcceptFirstAdmin(l, u) PROVE PaceInv'
  <2>1. TakesList(<<PutPassword(u, [made |-> TRUE, role |-> "admin", password |-> TRUE,
                                 disabled |-> FALSE], l),
                 PutLink(l, [link[l] EXCEPT !.used = TRUE, !.by = u]),
                 StartSession(u), PutFile(0)>>)
    BY <1>7, <1>9 DEF AcceptFirstAdmin, Takes
  <2> QED
    BY <1>5, <2>1, OtherKinds
<1>10. ASSUME NEW l \in DOMAIN link, NEW u \in Users, SetPassword(l, u) PROVE PaceInv'
  <2>1. TakesList(<<Spent(l), PutPassword(u, [account[u] EXCEPT !.password = TRUE], l), Unlock(u),
                 StartSession(u)>>)
    BY <1>7, <1>10 DEF SetPassword, Takes
  <2> QED
    BY <1>5, <2>1, OtherKinds, UnlockWrite
<1>11. ASSUME NEW u \in Users, NEW a \in Addresses, LoginFails(u, a) PROVE PaceInv'
  <2>1. \/ TakesList(<<CountAddressFailure(a)>>)
        \/ ~Locked(u) /\ TakesList(<<CountAddressFailure(a), CountAccountFailure(u)>>)
    BY <1>7, <1>11 DEF LoginFails
  <2> QED
    BY <1>2, <1>3, <2>1, OtherKinds, CountWrite
<1>12. ASSUME NEW u \in Users, NEW a \in Addresses, LoginRight(u, a) PROVE PaceInv'
  <2>1. TakesList(<<Unlock(u), PutAccount(u, account[u]), StartSession(u)>>)
    BY <1>7, <1>12 DEF LoginRight, Takes
  <2> QED
    BY <1>4, <2>1, OtherKinds, UnlockWrite
<1>13. ASSUME NEW s \in DOMAIN session, Logout(s) PROVE PaceInv'
  <2>1. TakesList(<<PutSession(s, [session[s] EXCEPT !.revoked = TRUE]), Answer({s})>>)
    BY <1>7, <1>13 DEF Logout, Takes
  <2> QED
    BY <1>3, <2>1, OtherKinds
<1>14. ASSUME NEW c \in calls, NEW u \in Users, NEW r \in Roles,
              CreateUser(c, u, r) \/ SetUserRoles(c, u, r)
       PROVE  PaceInv'
  <2>1. \/ TakesList(<<PutAccount(u, [NoAccount EXCEPT !.made = TRUE, !.role = r]), Invite(u)>>)
        \/ TakesList(<<PutAccount(u, [account[u] EXCEPT !.role = r]), Revoke(u), Answer(SessionsOf(u))>>)
    BY <1>7, <1>14 DEF CreateUser, SetUserRoles, Takes
  <2> QED
    BY <1>3, <1>4, <2>1, OtherKinds
<1>15. ASSUME NEW c \in calls, NEW u \in Users, NEW disabled \in BOOLEAN, DisableUser(c, u, disabled)
       PROVE  PaceInv'
  <2>1. PICK put : put = PutAccount(u, [account[u] EXCEPT !.disabled = disabled])
    OBVIOUS
  <2>2. TakesList(<<put, Revoke(u), Answer(SessionsOf(u))>>) \/ TakesList(<<put>>)
    BY <1>7, <1>15, <2>1 DEF DisableUser, Takes
  <2>3. PacedWrite(put)
    BY <2>1, OtherKinds
  <2> QED
    BY <1>2, <1>4, <2>2, <2>3, OtherKinds
<1>16. ASSUME NEW c, NEW u \in Users, UnlockUser(c, u) \/ RevokeSessions(c, u) PROVE PaceInv'
  <2>1. TakesList(<<Unlock(u)>>) \/ TakesList(<<Revoke(u), Answer(SessionsOf(u))>>)
    BY <1>7, <1>16 DEF UnlockUser, RevokeSessions, Takes
  <2> QED
    BY <1>2, <1>3, <2>1, OtherKinds, UnlockWrite
<1>17. CASE OperatorBootstrap
  <2>1. TakesList(BootstrapWrites)
    BY <1>7, <1>17 DEF OperatorBootstrap, Takes
  <2> QED
    BY <1>4, <2>1, OtherKinds DEF BootstrapWrites
<1>18. ASSUME NEW c, NEW u \in Users, ResetPassword(c, u) \/ OperatorReset(u) PROVE PaceInv'
  <2>1. PICK a, b, d, e, f :
          /\ a = PutAccount(u, [account[u] EXCEPT !.password = FALSE]) /\ b = Revoke(u)
          /\ d = Invite(u) /\ e = Unlock(u) /\ f = Answer(SessionsOf(u))
          /\ Reset(u) = <<a, b, d>>
    BY DEF Reset
  <2>2. \/ TakesList(Reset(u) \o <<f>>)
        \/ TakesList(Reset(u) \o <<e, f>>)
    BY <1>7, <1>18, <2>1 DEF ResetPassword, OperatorReset, Takes
  <2>3. PICK T : T = {a, b, d, e, f}
    OBVIOUS
  <2>4. <<a, b, d>> \in Seq(T) /\ <<f>> \in Seq(T) /\ <<e, f>> \in Seq(T)
    BY <2>3
  <2>5. <<a, b, d>> \o <<f>> \in Seq(T) /\ <<a, b, d>> \o <<e, f>> \in Seq(T)
    BY <2>4, ConcatProperties
  <2>6. PICK sc \in Seq(T) : script' = sc /\ UNCHANGED <<now, lock, guesses>>
    BY <2>1, <2>2, <2>5, Zenon DEF TakesList
  <2>7. PacedWrite(a) /\ PacedWrite(b) /\ PacedWrite(d) /\ PacedWrite(e) /\ PacedWrite(f)
    BY <2>1, OtherKinds, UnlockWrite
  <2>8. \A w \in T : PacedWrite(w)
    BY <2>3, <2>7
  <2> QED
    BY <1>1, <2>6, <2>8, ListTaken
<1>19. ASSUME NEW c \in calls, AdminCall(c) \/ OtherCall(c) PROVE PaceInv'
  <2>1. CASE OtherCall(c)
    <3>1. UNCHANGED <<now, lock, guesses, script>>
      BY <2>1 DEF OtherCall, tables, history
    <3>2. PacedList(script)'
      BY <3>1, ListStays DEF PaceInv
    <3> QED
      BY <1>1, <3>1, <3>2, LocksSame
  <2> QED
    BY <1>14, <1>15, <1>16, <1>18, <1>19, <2>1 DEF AdminCall
<1> QED
  BY <1>8, <1>9, <1>10, <1>11, <1>12, <1>13, <1>17, <1>18, <1>19 DEF System

LEMMA PaceInvNext ==
  IdentityAssumption /\ IdentityInv /\ PaceInv /\ [Next]_vars => PaceInv'
<1> SUFFICES ASSUME IdentityAssumption, IdentityInv, PaceInv, [Next]_vars PROVE PaceInv'
  OBVIOUS
<1>1. now \in Nat
  BY DEF IdentityInv, TablesOK
<1>2. ASSUME UNCHANGED <<now, lock, guesses, script>> PROVE PaceInv'
  <2>1. PacedList(script)'
    BY <1>2, ListStays DEF PaceInv
  <2> QED
    BY <1>1, <1>2, <2>1, LocksSame
<1>3. ASSUME now' \in {now, now + 1}, UNCHANGED <<lock, guesses>>, script' = <<>> PROVE PaceInv'
  <2>1. now' \in Int /\ now <= now'
    BY <1>1, <1>3
  <2>2. PacedList(script)'
    BY <1>3 DEF PacedList
  <2> QED
    BY <1>1, <1>3, <2>1, <2>2, LocksSame
<1>4. CASE System
  BY <1>4, PaceSystemStep
<1>5. CASE Write
  BY <1>5, PaceWriteStep
<1>6. CASE WriteFails \/ Kill \/ Tick
  <2>1. now' \in {now, now + 1} /\ UNCHANGED <<lock, guesses>> /\ script' = <<>>
    BY <1>6 DEF WriteFails, Kill, Tick, tables, history
  <2> QED
    BY <1>3, <2>1
<1>7. CASE Server
  <2>1. UNCHANGED <<now, lock, guesses, script>>
    BY <1>7 DEF Server, Request, Upgrade, SocketRequest, Revalidate, CloseSocket, tables, history
  <2> QED
    BY <1>2, <2>1
<1>8. CASE UNCHANGED vars
  BY <1>2, <1>8 DEF vars, tables, history
<1> QED
  BY <1>4, <1>5, <1>6, <1>7, <1>8 DEF Next

\* A number that is a multiple and a rest is that multiple of its divisor.
LEMMA Division ==
  ASSUME NEW n \in Nat, NEW d \in Nat, d > 0, NEW q \in Nat, NEW m \in 0..d - 1, n = q * d + m
  PROVE  n \div d = q
OBVIOUS

LEMMA PaceInvPaces == IdentityAssumption /\ PaceInv => GuessesArePaced
<1> SUFFICES ASSUME IdentityAssumption, PaceInv, NEW u \in Users, guesses[u].count > 0
             PROVE  guesses[u].last - guesses[u].since
                      >= LockedFor[(guesses[u].count - 1) \div AccountFailures]
  BY DEF GuessesArePaced
<1>1. PICK f, r, c, n :
        f = lock[u].failures /\ r = lock[u].rounds /\ c = guesses[u].count /\ n = AccountFailures
  OBVIOUS
<1>2. f \in 0..n - 1 /\ r \in Nat /\ c \in Nat /\ n \in Nat /\ n > 0 /\ c > 0
  <2>1. AccountFailures \in Nat /\ AccountFailures > 0
    BY DEF IdentityAssumption
  <2>2. /\ lock[u] \in [failures : 0..AccountFailures - 1, rounds : Nat, until : Int]
        /\ guesses[u] \in [count : Nat, since : Int, last : Int]
    BY DEF PaceInv, LocksTyped
  <2> QED
    BY <1>1, <2>1, <2>2
<1>3. Paced(u) /\ c = r * n + f
  BY <1>1 DEF PaceInv, Paced
<1>4. CASE f > 0
  <2>1. c - 1 = r * n + (f - 1) /\ f - 1 \in 0..n - 1 /\ c - 1 \in Nat
    <3>1. r * n \in Nat
      BY <1>2
    <3> QED
      BY <1>2, <1>3, <1>4, <3>1
  <2>2. (c - 1) \div n = r
    BY <1>2, <2>1, Division
  <2> QED
    BY <1>1, <1>2, <1>3, <1>4, <2>2 DEF Paced
<1>5. CASE ~(f > 0)
  <2>1. r > 0 /\ guesses[u].last - guesses[u].since >= LockedFor[r - 1]
    BY <1>1, <1>2, <1>3, <1>5 DEF Paced
  <2>2. c - 1 = (r - 1) * n + (n - 1) /\ n - 1 \in 0..n - 1 /\ c - 1 \in Nat /\ r - 1 \in Nat
    <3>1. (r - 1) * n = r * n - n /\ r * n \in Nat /\ f = 0
      BY <1>2, <1>5
    <3> QED
      BY <1>2, <1>3, <2>1, <3>1
  <2>3. (c - 1) \div n = r - 1
    BY <1>2, <2>2, Division
  <2> QED
    BY <1>1, <2>1, <2>3
<1> QED
  BY <1>4, <1>5

\* n wrong passwords in a row for one account take at least the doubling
\* lockouts of their full rounds, from whatever addresses, through failed
\* writes and restarts, for every length of a round, of a lock and of the
\* doubling (identity.rs count_account_failure, login).
THEOREM GuessesStayPaced == Spec => []GuessesArePaced
<1>1. Init => IdentityInv /\ PaceInv
  BY Begins, PaceInvInit, IdentityAssumption
<1>2. IdentityInv /\ [Next]_vars => IdentityInv'
  BY IdentityInvNext
<1>3. IdentityInv /\ PaceInv /\ [Next]_vars => PaceInv'
  BY PaceInvNext, IdentityAssumption
<1>4. PaceInv => GuessesArePaced
  BY PaceInvPaces, IdentityAssumption
<1> QED
  BY <1>1, <1>2, <1>3, <1>4, PTL DEF Spec

-----------------------------------------------------------------------------
(* Access.                                                                 *)

Bounds == [faults : Nat, restarts : Nat, changes : Nat, visits : Nat]
Disks == [workspaces : [Workspaces -> WorkspaceRecords],
          documents : [Documents -> DocumentRecords],
          current : [People -> Workspaces \union {None}]]
Answers == [members : [Workspaces -> [People -> Held]], acl : [Documents -> Acls]]

(* The inductive invariant. *)

\* Nobody but its owner holds anything in a personal workspace.
Alone(table) == \A p \in People : \A v \in People \ {p} : table[p].members[v] = Nothing

\* A document that is known lies in a workspace.
Placed(table) == \A d \in Documents : table[d].known => table[d].ws \in Workspaces

\* Members in memory are those last answered, but for an unsaved workspace.
MemoryIsAnswered == \A w \in Workspaces : w \notin unsaved => workspace[w].members = answered.members[w]

GlassIsForAVisit == \A u \in People : breakGlass[u] \in {None, at[u]}

AccessInv ==
  /\ AccessTypeOK
  /\ Alone(workspace) /\ Alone(disk.workspaces)
  /\ Placed(document) /\ Placed(disk.documents)
  /\ MemoryIsAnswered
  /\ DiskIsAnswered
  /\ GlassIsForAVisit

-----------------------------------------------------------------------------
(* The levels and the records. *)

LEMMA LevelFacts ==
  /\ Held = 0..4 /\ Level = 1..4
  /\ Nothing \in Held /\ Owner \in Held /\ View \in Level
  /\ Level \subseteq Held
BY DEF Held, Level, Nothing, View, Owner

LEMMA RecordFacts ==
  ASSUME NEW u \in People
  PROVE  /\ OwnedBy(u) \in [People -> Held]
         /\ OwnedBy(u)[u] = Owner
         /\ \A v \in People \ {u} : OwnedBy(u)[v] = Nothing
         /\ Personal(u) \in WorkspaceRecords
         /\ SharedBy(u) \in WorkspaceRecords
         /\ Personal(u).members = OwnedBy(u)
         /\ SharedBy(u).members = OwnedBy(u)
BY LevelFacts DEF OwnedBy, Personal, SharedBy, WorkspaceRecords, AgentWrites

LEMMA MetaFacts ==
  ASSUME NEW w \in Workspaces
  PROVE  /\ Meta(w, NoAcl) \in DocumentRecords
         /\ Meta(w, NoAcl).known /\ Meta(w, NoAcl).ws = w /\ Meta(w, NoAcl).acl = NoAcl
         /\ NoAcl \in Acls
BY DEF Meta, DocumentRecords, Acls

LEMMA EmptyFacts ==
  /\ Unmade \in WorkspaceRecords /\ Unknown \in DocumentRecords
  /\ Unmade.members \in [People -> Held] /\ ~Unknown.known
  /\ \A u \in People : Unmade.members[u] = Nothing
BY LevelFacts DEF Unmade, Unknown, WorkspaceRecords, DocumentRecords, AgentWrites, Acls

-----------------------------------------------------------------------------
LEMMA InvInit == AccessInit => AccessInv
<1> SUFFICES ASSUME AccessInit PROVE AccessInv
  OBVIOUS
<1>1. AccessTypeOK
  BY EmptyFacts, AccessAssumption DEF AccessInit, AccessTypeOK, Workspaces, Acls, MemberRoles
<1>2. Alone(workspace) /\ Alone(disk.workspaces)
  BY EmptyFacts DEF AccessInit, Alone, Workspaces
<1>3. Placed(document) /\ Placed(disk.documents)
  BY EmptyFacts DEF AccessInit, Placed
<1>4. MemoryIsAnswered /\ DiskIsAnswered
  BY EmptyFacts DEF AccessInit, MemoryIsAnswered, DiskIsAnswered
<1>5. GlassIsForAVisit
  BY DEF AccessInit, GlassIsForAVisit
<1> QED
  BY <1>1, <1>2, <1>3, <1>4, <1>5 DEF AccessInv

-----------------------------------------------------------------------------
(* Writes to the database.  Whatever becomes of a write, the disk agrees   *)
(* with the answers on everything that is not unsaved.                     *)

LEMMA SavesFacts ==
  ASSUME NEW thing \in Workspaces \union Documents, NEW written, NEW budget \in Bounds,
         unsaved \subseteq Workspaces \union Documents,
         Saves(thing, written, budget)
  PROVE  /\ room' \in Bounds
         /\ unsaved' \subseteq Workspaces \union Documents
         /\ unsaved \ {thing} \subseteq unsaved'
         /\ disk' \in {disk, written}
         /\ thing \notin unsaved' => disk' = written
<1>1. CASE disk' = written /\ unsaved' = unsaved \ {thing} /\ room' = budget
  BY <1>1
<1>2. CASE /\ budget.faults > 0 /\ room' = [budget EXCEPT !.faults = @ - 1]
           /\ unsaved' = unsaved \union {thing} /\ UNCHANGED disk
  <2>1. room' \in Bounds
    BY <1>2 DEF Bounds
  <2> QED
    BY <1>2, <2>1
<1> QED
  BY <1>1, <1>2 DEF Saves

LEMMA WithWorkspaceFacts ==
  ASSUME disk \in Disks, NEW w \in Workspaces, NEW rec \in WorkspaceRecords
  PROVE  /\ WithWorkspace(w, rec) \in Disks
         /\ WithWorkspace(w, rec).workspaces = [disk.workspaces EXCEPT ![w] = rec]
         /\ WithWorkspace(w, rec).documents = disk.documents
         /\ WithWorkspace(w, rec).current = disk.current
BY DEF WithWorkspace, Disks

LEMMA WithDocumentFacts ==
  ASSUME disk \in Disks, NEW d \in Documents, NEW rec \in DocumentRecords
  PROVE  /\ WithDocument(d, rec) \in Disks
         /\ WithDocument(d, rec).documents = [disk.documents EXCEPT ![d] = rec]
         /\ WithDocument(d, rec).workspaces = disk.workspaces
         /\ WithDocument(d, rec).current = disk.current
BY DEF WithDocument, Disks

LEMMA TypeFacts ==
  AccessTypeOK <=> /\ role \in [People -> MemberRoles]
                   /\ workspace \in [Workspaces -> WorkspaceRecords]
                   /\ document \in [Documents -> DocumentRecords]
                   /\ open \subseteq Documents /\ seen \subseteq People
                   /\ at \in [People -> Workspaces]
                   /\ breakGlass \in [People -> Workspaces \union {None}]
                   /\ disk \in Disks /\ answered \in Answers
                   /\ unsaved \subseteq Workspaces \union Documents
                   /\ room \in Bounds
BY DEF AccessTypeOK, Disks, Answers, Bounds

LEMMA SavesWorkspace ==
  ASSUME AccessInv, NEW w \in Workspaces, NEW rec \in WorkspaceRecords, NEW budget \in Bounds,
         w \in People => \A v \in People \ {w} : rec.members[v] = Nothing,
         Saves(w, WithWorkspace(w, rec), budget),
         workspace' = [workspace EXCEPT ![w] = rec],
         answered' = [answered EXCEPT !.members[w] = rec.members]
  PROVE  /\ workspace' \in [Workspaces -> WorkspaceRecords]
         /\ answered' \in Answers /\ disk' \in Disks /\ room' \in Bounds
         /\ unsaved' \subseteq Workspaces \union Documents
         /\ Alone(workspace)' /\ Alone(disk.workspaces)' /\ Placed(disk.documents)'
         /\ MemoryIsAnswered' /\ DiskIsAnswered'
<1> USE TypeFacts DEF AccessInv
<1>1. /\ workspace' \in [Workspaces -> WorkspaceRecords]
      /\ answered' \in Answers
      /\ answered'.members = [answered.members EXCEPT ![w] = rec.members]
      /\ answered'.acl = answered.acl
  BY DEF Answers, WorkspaceRecords
<1>2. /\ disk' \in Disks /\ room' \in Bounds
      /\ disk'.documents = disk.documents
      /\ disk'.workspaces \in {disk.workspaces, [disk.workspaces EXCEPT ![w] = rec]}
      /\ w \notin unsaved' => disk'.workspaces = [disk.workspaces EXCEPT ![w] = rec]
      /\ unsaved' \subseteq Workspaces \union Documents
      /\ unsaved \ {w} \subseteq unsaved'
  BY SavesFacts, WithWorkspaceFacts
<1>3. Alone(workspace)' /\ Alone(disk.workspaces)' /\ Placed(disk.documents)'
  BY <1>2 DEF Alone, Placed, Disks, Workspaces
<1>4. MemoryIsAnswered'
  BY <1>1, <1>2 DEF MemoryIsAnswered, Answers
<1>5. DiskIsAnswered'
  <2>1. ASSUME NEW x \in Workspaces, x \notin unsaved'
        PROVE  disk'.workspaces[x].members = answered'.members[x]
    BY <2>1, <1>1, <1>2 DEF DiskIsAnswered, Answers, Disks
  <2>2. ASSUME NEW d \in Documents, d \notin unsaved', disk'.documents[d].known
        PROVE  disk'.documents[d].acl = answered'.acl[d]
    <3>1. d # w
      BY AccessAssumption
    <3> QED
      BY <2>2, <3>1, <1>1, <1>2 DEF DiskIsAnswered
  <2> QED
    BY <2>1, <2>2 DEF DiskIsAnswered
<1> QED
  BY <1>1, <1>2, <1>3, <1>4, <1>5

LEMMA SavesDocument ==
  ASSUME AccessInv, NEW d \in Documents, NEW rec \in DocumentRecords, NEW budget \in Bounds,
         rec.known => rec.ws \in Workspaces,
         Saves(d, WithDocument(d, rec), budget),
         answered' = [answered EXCEPT !.acl[d] = rec.acl],
         workspace' = workspace
  PROVE  /\ answered' \in Answers /\ disk' \in Disks /\ room' \in Bounds
         /\ unsaved' \subseteq Workspaces \union Documents
         /\ Alone(disk.workspaces)' /\ Placed(disk.documents)'
         /\ MemoryIsAnswered' /\ DiskIsAnswered'
<1> USE TypeFacts DEF AccessInv
<1>1. /\ answered' \in Answers
      /\ answered'.members = answered.members
      /\ answered'.acl = [answered.acl EXCEPT ![d] = rec.acl]
  BY DEF Answers, DocumentRecords
<1>2. /\ disk' \in Disks /\ room' \in Bounds
      /\ disk'.workspaces = disk.workspaces
      /\ disk'.documents \in {disk.documents, [disk.documents EXCEPT ![d] = rec]}
      /\ d \notin unsaved' => disk'.documents = [disk.documents EXCEPT ![d] = rec]
      /\ unsaved' \subseteq Workspaces \union Documents
      /\ unsaved \ {d} \subseteq unsaved'
  BY SavesFacts, WithDocumentFacts
<1>3. Alone(disk.workspaces)' /\ Placed(disk.documents)'
  BY <1>2 DEF Alone, Placed, Disks
<1>4. \A w \in Workspaces : w # d /\ (w \notin unsaved' => w \notin unsaved)
  BY <1>2, AccessAssumption
<1>5. MemoryIsAnswered'
  BY <1>1, <1>4 DEF MemoryIsAnswered
<1>6. DiskIsAnswered'
  <2>1. ASSUME NEW w \in Workspaces, w \notin unsaved'
        PROVE  disk'.workspaces[w].members = answered'.members[w]
    BY <2>1, <1>1, <1>2, <1>4 DEF DiskIsAnswered
  <2>2. ASSUME NEW e \in Documents, e \notin unsaved', disk'.documents[e].known
        PROVE  disk'.documents[e].acl = answered'.acl[e]
    BY <2>2, <1>1, <1>2 DEF DiskIsAnswered, Answers, Disks
  <2> QED
    BY <2>1, <2>2 DEF DiskIsAnswered
<1> QED
  BY <1>1, <1>2, <1>3, <1>5, <1>6

LEMMA LessFacts ==
  ASSUME room \in Bounds
  PROVE  /\ room.restarts > 0 => Less("restarts") \in Bounds
         /\ room.changes > 0 => Less("changes") \in Bounds
         /\ room.visits > 0 => Less("visits") \in Bounds
BY DEF Less, Bounds

-----------------------------------------------------------------------------
(* One lemma per request. *)

LEMMA RestartInv == AccessInv /\ Restart => AccessInv'
<1> SUFFICES ASSUME AccessInv, Restart PROVE AccessInv'
  OBVIOUS
<1> USE TypeFacts DEF AccessInv, Restart
<1>1. AccessTypeOK'
  <2>1. /\ workspace' \in [Workspaces -> WorkspaceRecords]
        /\ document' \in [Documents -> DocumentRecords]
        /\ open' \subseteq Documents
    BY DEF Disks, Documents
  <2>2. /\ at' \in [People -> Workspaces]
        /\ breakGlass' \in [People -> Workspaces \union {None}]
    BY DEF Workspaces
  <2>3. room' \in Bounds
    BY LessFacts
  <2> QED
    BY <2>1, <2>2, <2>3 DEF AccessTypeOK, Disks, Answers, Bounds
<1>2. (Alone(workspace) /\ Alone(disk.workspaces))'
  BY DEF Alone
<1>3. (Placed(document) /\ Placed(disk.documents))'
  BY DEF Placed
<1>4. MemoryIsAnswered' /\ DiskIsAnswered'
  BY DEF MemoryIsAnswered, DiskIsAnswered
<1>5. GlassIsForAVisit'
  BY DEF GlassIsForAVisit
<1> QED
  BY <1>1, <1>2, <1>3, <1>4, <1>5

LEMMA FreshUserInv == ASSUME NEW u \in People PROVE AccessInv /\ FreshUser(u) => AccessInv'
<1> SUFFICES ASSUME AccessInv, FreshUser(u) PROVE AccessInv'
  OBVIOUS
<1> USE TypeFacts DEF AccessInv
<1>1. u \in Workspaces
  BY DEF Workspaces
<1>2. /\ workspace' \in [Workspaces -> WorkspaceRecords]
      /\ answered' \in Answers /\ disk' \in Disks /\ room' \in Bounds
      /\ unsaved' \subseteq Workspaces \union Documents
      /\ Alone(workspace)' /\ Alone(disk.workspaces)' /\ Placed(disk.documents)'
      /\ MemoryIsAnswered' /\ DiskIsAnswered'
  <2>1. CASE workspace[u].made /\ room' = Less("visits") /\ UNCHANGED <<workspace, disk, answered, unsaved>>
    <3>1. room' \in Bounds
      BY <2>1, LessFacts DEF FreshUser
    <3> QED
      BY <2>1, <3>1 DEF Alone, Placed, MemoryIsAnswered, DiskIsAnswered
  <2>2. CASE /\ ~workspace[u].made
             /\ workspace' = [workspace EXCEPT ![u] = Personal(u)]
             /\ answered' = [answered EXCEPT !.members[u] = OwnedBy(u)]
             /\ Saves(u, WithWorkspace(u, Personal(u)), Less("visits"))
    <3>1. Less("visits") \in Bounds
      BY LessFacts DEF FreshUser
    <3> QED
      BY <1>1, <2>2, <3>1, RecordFacts, SavesWorkspace
  <2> QED
    BY <2>1, <2>2 DEF FreshUser
<1>3. at' \in [People -> Workspaces] /\ breakGlass' \in [People -> Workspaces \union {None}]
  <2>1. disk.current[u] \in Workspaces \union {None}
    BY DEF Disks
  <2> QED
    BY <1>1, <2>1 DEF FreshUser
<1>4. GlassIsForAVisit'
  BY DEF FreshUser, GlassIsForAVisit
<1>5. /\ role' = role /\ document' = document /\ open' = open
      /\ seen' \subseteq People
  BY DEF FreshUser
<1>6. AccessTypeOK'
  BY <1>2, <1>3, <1>5 DEF AccessTypeOK, Disks, Answers, Bounds
<1> QED
  BY <1>2, <1>4, <1>5, <1>6 DEF Placed

LEMMA ChangeRoleInv ==
  ASSUME NEW u \in People, NEW r \in MemberRoles PROVE AccessInv /\ ChangeRole(u, r) => AccessInv'
<1> SUFFICES ASSUME AccessInv, ChangeRole(u, r) PROVE AccessInv'
  OBVIOUS
<1> USE TypeFacts DEF AccessInv, ChangeRole, memory
<1>1. role' \in [People -> MemberRoles] /\ room' \in Bounds
  BY LessFacts
<1>2. AccessTypeOK'
  BY <1>1 DEF AccessTypeOK, Disks, Answers, Bounds
<1> QED
  BY <1>2 DEF Alone, Placed, MemoryIsAnswered, DiskIsAnswered, GlassIsForAVisit

LEMMA CreateWorkspaceInv ==
  ASSUME NEW u \in People, NEW w \in Workspaces
  PROVE  AccessInv /\ CreateWorkspace(u, w) => AccessInv'
<1> SUFFICES ASSUME AccessInv, CreateWorkspace(u, w) PROVE AccessInv'
  OBVIOUS
<1> USE TypeFacts DEF AccessInv, CreateWorkspace
<1>1. w \notin People
  BY AccessAssumption
<1>2. /\ workspace' \in [Workspaces -> WorkspaceRecords]
      /\ answered' \in Answers
      /\ answered'.members = [answered.members EXCEPT ![w] = OwnedBy(u)]
      /\ answered'.acl = answered.acl
  BY RecordFacts DEF Answers
<1>3. /\ disk' \in Disks
      /\ disk'.workspaces = [disk.workspaces EXCEPT ![w] = SharedBy(u)]
      /\ disk'.documents = disk.documents
  BY RecordFacts, WithWorkspaceFacts
<1>4. AccessTypeOK'
  BY <1>2, <1>3 DEF AccessTypeOK, Disks, Answers, Bounds
<1>5. (Alone(workspace) /\ Alone(disk.workspaces))'
  BY <1>1, <1>3 DEF Alone, Disks, Workspaces
<1>6. (Placed(document) /\ Placed(disk.documents))'
  BY <1>3 DEF Placed
<1>7. MemoryIsAnswered'
  BY <1>2, RecordFacts DEF MemoryIsAnswered, Answers
<1>8. DiskIsAnswered'
  BY <1>2, <1>3, RecordFacts DEF DiskIsAnswered, Answers, Disks
<1>9. GlassIsForAVisit'
  BY DEF GlassIsForAVisit
<1> QED
  BY <1>4, <1>5, <1>6, <1>7, <1>8, <1>9

LEMMA SetWorkspaceInv ==
  ASSUME NEW w \in Workspaces, NEW rec \in WorkspaceRecords, w \notin People
  PROVE  AccessInv /\ SetWorkspace(w, rec) => AccessInv'
<1> SUFFICES ASSUME AccessInv, SetWorkspace(w, rec) PROVE AccessInv'
  OBVIOUS
<1> USE TypeFacts DEF AccessInv, SetWorkspace
<1>1. Less("changes") \in Bounds
  BY LessFacts
<1>2. /\ workspace' \in [Workspaces -> WorkspaceRecords]
      /\ answered' \in Answers /\ disk' \in Disks /\ room' \in Bounds
      /\ unsaved' \subseteq Workspaces \union Documents
      /\ Alone(workspace)' /\ Alone(disk.workspaces)' /\ Placed(disk.documents)'
      /\ MemoryIsAnswered' /\ DiskIsAnswered'
  BY <1>1, SavesWorkspace
<1>3. AccessTypeOK'
  BY <1>2 DEF AccessTypeOK, Disks, Answers, Bounds
<1> QED
  BY <1>2, <1>3 DEF Placed, GlassIsForAVisit

\* The three requests that change a workspace: only of a shared one.
LEMMA WorkspaceRequestsInv ==
  ASSUME NEW u \in People, NEW w \in Workspaces, NEW v \in People, NEW level \in Held,
         NEW mode \in AgentWrites, AccessInv,
         SetMember(u, w, v, level) \/ RemoveMember(u, w, v) \/ SetAgentWrites(u, w, mode)
  PROVE  AccessInv'
<1> USE DEF SetMember, RemoveMember, SetAgentWrites
<1>1. workspace[w] \in WorkspaceRecords
  BY TypeFacts DEF AccessInv
<1>2. w \notin People
  BY AccessAssumption DEF MayManage
<1>3. /\ [workspace[w] EXCEPT !.members[v] = level] \in WorkspaceRecords
      /\ [workspace[w] EXCEPT !.members[v] = Nothing] \in WorkspaceRecords
      /\ [workspace[w] EXCEPT !.agentWrites = mode] \in WorkspaceRecords
  BY <1>1, LevelFacts DEF WorkspaceRecords
<1> QED
  BY <1>2, <1>3, SetWorkspaceInv

LEMMA SelectWorkspaceInv ==
  ASSUME NEW u \in People, NEW w \in Workspaces
  PROVE  AccessInv /\ SelectWorkspace(u, w) => AccessInv'
<1> SUFFICES ASSUME AccessInv, SelectWorkspace(u, w) PROVE AccessInv'
  OBVIOUS
<1> USE TypeFacts DEF AccessInv, SelectWorkspace
<1>1. /\ at' = [at EXCEPT ![u] = w] /\ at' \in [People -> Workspaces]
      /\ \E g \in {None, w} : breakGlass' = [breakGlass EXCEPT ![u] = g]
      /\ breakGlass' \in [People -> Workspaces \union {None}]
  OBVIOUS
<1>2. room' \in Bounds
  <2>1. CASE room' = Less("visits")
    BY <2>1, LessFacts
  <2>2. CASE room.faults > 0 /\ room' = [Less("visits") EXCEPT !.faults = @ - 1]
    <3> DEFINE budget == Less("visits")
    <3>1. budget \in Bounds
      BY LessFacts
    <3>2. budget.faults = room.faults
      BY DEF Less, Bounds
    <3> HIDE DEF budget
    <3>3. budget.faults > 0 => [budget EXCEPT !.faults = @ - 1] \in Bounds
      BY <3>1 DEF Bounds
    <3> QED
      BY <2>2, <3>2, <3>3 DEF budget
  <2> QED
    BY <2>1, <2>2
<1>3. /\ disk' \in Disks
      /\ disk'.workspaces = disk.workspaces /\ disk'.documents = disk.documents
  BY DEF Disks
<1>4. AccessTypeOK'
  BY <1>1, <1>2, <1>3 DEF AccessTypeOK, Disks, Answers, Bounds
<1>5. GlassIsForAVisit'
  BY <1>1 DEF GlassIsForAVisit
<1> QED
  BY <1>3, <1>4, <1>5 DEF Alone, Placed, MemoryIsAnswered, DiskIsAnswered

\* What DocFor, ProduceArtifact and SetDocumentAccess have in common.
LEMMA DocumentInv ==
  ASSUME AccessInv, NEW d \in Documents, NEW rec \in DocumentRecords,
         rec.known => rec.ws \in Workspaces,
         document' = [document EXCEPT ![d] = rec], open' \subseteq Documents,
         UNCHANGED <<role, workspace, seen, at, breakGlass>>,
         answered' \in Answers, disk' \in Disks, room' \in Bounds,
         unsaved' \subseteq Workspaces \union Documents,
         Alone(disk.workspaces)', Placed(disk.documents)', MemoryIsAnswered', DiskIsAnswered'
  PROVE  AccessInv'
<1> USE TypeFacts DEF AccessInv
<1>1. document' \in [Documents -> DocumentRecords] /\ Placed(document)'
  BY DEF Placed
<1>2. AccessTypeOK'
  BY <1>1 DEF AccessTypeOK, Disks, Answers, Bounds
<1> QED
  BY <1>1, <1>2 DEF Alone, GlassIsForAVisit

LEMMA DocForInv ==
  ASSUME NEW u \in People, NEW h \in Harnesses
  PROVE  AccessInv /\ DocFor(u, h) => AccessInv'
<1> SUFFICES ASSUME AccessInv, DocFor(u, h) PROVE AccessInv'
  OBVIOUS
<1> DEFINE d == <<at[u], h>>
           fresh == Meta(at[u], NoAcl)
<1> USE TypeFacts DEF AccessInv
<1>1. d \in Documents /\ at[u] \in Workspaces
  BY DEF Documents
<1>2. fresh \in DocumentRecords /\ fresh.ws \in Workspaces /\ fresh.acl = NoAcl
  BY <1>1, MetaFacts
<1>3. /\ document' = [document EXCEPT ![d] = fresh] /\ open' \subseteq Documents
      /\ UNCHANGED <<role, workspace, seen, at, breakGlass>>
  BY <1>1 DEF DocFor
<1>4. CASE UNCHANGED <<disk, unsaved, room, answered>>
  <2>1. /\ Alone(disk.workspaces)' /\ Placed(disk.documents)'
        /\ MemoryIsAnswered' /\ DiskIsAnswered'
    BY <1>3, <1>4 DEF Alone, Placed, MemoryIsAnswered, DiskIsAnswered
  <2> HIDE DEF d, fresh
  <2> QED
    BY <1>1, <1>2, <1>3, <1>4, <2>1, DocumentInv
<1>5. CASE /\ answered' = [answered EXCEPT !.acl[d] = NoAcl]
           /\ Saves(d, WithDocument(d, fresh), room)
  <2> HIDE DEF d, fresh
  <2>1. /\ answered' \in Answers /\ disk' \in Disks /\ room' \in Bounds
        /\ unsaved' \subseteq Workspaces \union Documents
        /\ Alone(disk.workspaces)' /\ Placed(disk.documents)'
        /\ MemoryIsAnswered' /\ DiskIsAnswered'
    BY <1>1, <1>2, <1>3, <1>5, SavesDocument
  <2> QED
    BY <1>1, <1>2, <1>3, <2>1, DocumentInv
<1> QED
  BY <1>4, <1>5 DEF DocFor

LEMMA ProduceArtifactInv ==
  ASSUME NEW u \in People, NEW h \in Harnesses, NEW f \in Files
  PROVE  AccessInv /\ ProduceArtifact(u, h, f) => AccessInv'
<1> SUFFICES ASSUME AccessInv, ProduceArtifact(u, h, f) PROVE AccessInv'
  OBVIOUS
<1> USE TypeFacts DEF AccessInv
<1>1. f \in Documents /\ at[u] \in Workspaces
  BY DEF Documents
<1>2. /\ Meta(at[u], NoAcl) \in DocumentRecords
      /\ Meta(at[u], NoAcl).ws \in Workspaces /\ Meta(at[u], NoAcl).acl = NoAcl
  BY <1>1, MetaFacts
<1>3. /\ document' = [document EXCEPT ![f] = Meta(at[u], NoAcl)] /\ open' \subseteq Documents
      /\ UNCHANGED <<role, workspace, seen, at, breakGlass>>
      /\ answered' = [answered EXCEPT !.acl[f] = NoAcl]
      /\ Saves(f, WithDocument(f, Meta(at[u], NoAcl)), room)
  BY <1>1 DEF ProduceArtifact
<1>4. /\ answered' \in Answers /\ disk' \in Disks /\ room' \in Bounds
      /\ unsaved' \subseteq Workspaces \union Documents
      /\ Alone(disk.workspaces)' /\ Placed(disk.documents)'
      /\ MemoryIsAnswered' /\ DiskIsAnswered'
  BY <1>1, <1>2, <1>3, SavesDocument
<1> QED
  BY <1>1, <1>2, <1>3, <1>4, DocumentInv

LEMMA SetDocumentAccessInv ==
  ASSUME NEW u \in People, NEW d \in Documents, NEW acl \in Tightenings \union {NoAcl}
  PROVE  AccessInv /\ SetDocumentAccess(u, d, acl) => AccessInv'
<1> SUFFICES ASSUME AccessInv, SetDocumentAccess(u, d, acl) PROVE AccessInv'
  OBVIOUS
<1> DEFINE there == [disk.documents[d] EXCEPT !.acl = acl]
<1> USE TypeFacts DEF AccessInv
<1>1. acl \in Acls
  BY AccessAssumption DEF Acls
<1>2. /\ [document[d] EXCEPT !.acl = acl] \in DocumentRecords
      /\ document[d].known => [document[d] EXCEPT !.acl = acl].ws \in Workspaces
  BY <1>1 DEF DocumentRecords, Placed
<1>3. /\ there \in DocumentRecords /\ there.acl = acl
      /\ disk.documents[d].known => there.ws \in Workspaces
  <2>1. disk.documents[d] \in DocumentRecords
    BY DEF Disks
  <2> QED
    BY <1>1, <2>1 DEF DocumentRecords, Placed
<1>4. /\ document' = [document EXCEPT ![d] = [document[d] EXCEPT !.acl = acl]]
      /\ document[d].known /\ open' \subseteq Documents
      /\ UNCHANGED <<role, workspace, seen, at, breakGlass>>
      /\ answered' = [answered EXCEPT !.acl[d] = acl]
      /\ Less("changes") \in Bounds
  BY LessFacts DEF SetDocumentAccess
<1>5. /\ answered' \in Answers /\ disk' \in Disks /\ room' \in Bounds
      /\ unsaved' \subseteq Workspaces \union Documents
      /\ Alone(disk.workspaces)' /\ Placed(disk.documents)'
      /\ MemoryIsAnswered' /\ DiskIsAnswered'
  <2>1. CASE ~disk.documents[d].known /\ room' = Less("changes") /\ UNCHANGED <<disk, unsaved>>
    <3>1. /\ answered' \in Answers /\ answered'.members = answered.members
          /\ answered'.acl = [answered.acl EXCEPT ![d] = acl]
      BY <1>1, <1>4 DEF Answers
    <3>2. MemoryIsAnswered' /\ DiskIsAnswered'
      BY <1>4, <2>1, <3>1 DEF MemoryIsAnswered, DiskIsAnswered, Answers
    <3> QED
      BY <1>4, <2>1, <3>1, <3>2 DEF Alone, Placed
  <2>2. CASE /\ disk.documents[d].known
             /\ Saves(d, WithDocument(d, there), Less("changes"))
    <3> HIDE DEF there
    <3> QED
      BY <1>3, <1>4, <2>2, SavesDocument
  <2> QED
    BY <2>1, <2>2 DEF SetDocumentAccess
<1> QED
  BY <1>2, <1>4, <1>5, DocumentInv

-----------------------------------------------------------------------------
LEMMA InvNext == AccessInv /\ [AccessNext]_accessVars => AccessInv'
<1> SUFFICES ASSUME AccessInv, [AccessNext]_accessVars PROVE AccessInv'
  OBVIOUS
<1>1. CASE UNCHANGED accessVars
  BY <1>1 DEF accessVars, memory, AccessInv, AccessTypeOK, Alone, Placed, MemoryIsAnswered,
              DiskIsAnswered, GlassIsForAVisit
<1>2. CASE Restart
  BY <1>2, RestartInv
<1>3. ASSUME NEW u \in People,
             \/ FreshUser(u)
             \/ \E r \in MemberRoles : ChangeRole(u, r)
             \/ \E w \in Workspaces : CreateWorkspace(u, w) \/ SelectWorkspace(u, w)
      PROVE  AccessInv'
  BY <1>3, FreshUserInv, ChangeRoleInv, CreateWorkspaceInv, SelectWorkspaceInv
<1>4. ASSUME NEW u \in People, NEW w \in Workspaces,
             \/ \E v \in People :
                  \/ \E level \in Given : SetMember(u, w, v, level)
                  \/ RemoveMember(u, w, v)
             \/ \E mode \in AgentWrites : SetAgentWrites(u, w, mode)
      PROVE  AccessInv'
  <2>1. ASSUME NEW v \in People, NEW level \in Given, SetMember(u, w, v, level) PROVE AccessInv'
    <3>1. level \in Held /\ "direct" \in AgentWrites
      BY AccessAssumption, LevelFacts DEF AgentWrites
    <3> QED
      BY <2>1, <3>1, WorkspaceRequestsInv
  <2>2. ASSUME NEW v \in People, RemoveMember(u, w, v) PROVE AccessInv'
    BY <2>2, LevelFacts, WorkspaceRequestsInv DEF AgentWrites
  <2>3. ASSUME NEW mode \in AgentWrites, SetAgentWrites(u, w, mode) PROVE AccessInv'
    BY <2>3, LevelFacts, WorkspaceRequestsInv
  <2> QED
    BY <1>4, <2>1, <2>2, <2>3
<1>5. ASSUME NEW u \in People, NEW h \in Harnesses,
             DocFor(u, h) \/ \E f \in Files : ProduceArtifact(u, h, f)
      PROVE  AccessInv'
  BY <1>5, DocForInv, ProduceArtifactInv
<1>6. ASSUME NEW u \in People, NEW d \in Documents, NEW acl \in Tightenings \union {NoAcl},
             SetDocumentAccess(u, d, acl)
      PROVE  AccessInv'
  BY <1>6, SetDocumentAccessInv
<1> QED
  BY <1>1, <1>2, <1>3, <1>4, <1>5, <1>6 DEF AccessNext

LEMMA AccessIsInvariant == AccessSpec => []AccessInv
BY InvInit, InvNext, PTL DEF AccessSpec

-----------------------------------------------------------------------------
(* What the invariant says of the check. *)

\* What one holds on a document is a number, and no more than the level in
\* the workspace, whatever the tightening.
LEMMA HeldOnFacts ==
  ASSUME AccessInv, NEW u \in People, NEW d \in Documents, document[d].known
  PROVE  /\ LevelIn(document[d].ws, u) \in Held
         /\ HeldOn(d, u) \in Int
         /\ HeldOn(d, u) <= LevelIn(document[d].ws, u)
<1> USE TypeFacts DEF AccessInv
<1>1. document[d].ws \in Workspaces
  BY DEF Placed
<1>2. LevelIn(document[d].ws, u) \in 0..4
  BY <1>1, LevelFacts DEF LevelIn, WorkspaceRecords
<1>3. document[d].acl[u] \in 0..5
  <2>1. document[d].acl \in Acls
    BY DEF DocumentRecords
  <2> QED
    BY <2>1, LevelFacts DEF Acls, NoAcl, Owner
<1> QED
  BY <1>2, <1>3, LevelFacts DEF HeldOn, Lower

LEMMA PersonalFacts ==
  ASSUME AccessInv, NEW u \in People, NEW d \in Documents, Passes(u, d, View),
         document[d].ws \in People, document[d].ws # u
  PROVE  Wide(u, d)
<1>1. LevelIn(document[d].ws, u) = Nothing
  BY DEF AccessInv, Alone, LevelIn
<1>2. ~(HeldOn(d, u) >= View)
  BY <1>1, HeldOnFacts DEF Passes, Nothing, View
<1> QED
  BY <1>2 DEF Passes, Wide

LEMMA MembersFacts ==
  ASSUME AccessInv, NEW u \in People, NEW d \in Documents, NEW need \in Level,
         Passes(u, d, need), ~Wide(u, d), document[d].ws \notin unsaved
  PROVE  answered.members[document[d].ws][u] >= need
<1>1. document[d].ws \in Workspaces
  BY DEF AccessInv, Placed, Passes
<1>2. LevelIn(document[d].ws, u) = answered.members[document[d].ws][u]
  BY <1>1 DEF AccessInv, MemoryIsAnswered, LevelIn
<1>3. HeldOn(d, u) >= need
  BY DEF Passes, Wide
<1> QED
  BY <1>2, <1>3, HeldOnFacts, LevelFacts DEF Passes

LEMMA InvDecides == AccessInv => AccessIsDecided
<1> SUFFICES ASSUME AccessInv PROVE AccessIsDecided
  OBVIOUS
<1>1. seen \subseteq People
  BY DEF AccessInv, AccessTypeOK
<1>2. MembersDecide
  BY <1>1, MembersFacts DEF MembersDecide
<1>3. PersonalIsPrivate
  BY <1>1, PersonalFacts DEF PersonalIsPrivate
<1>4. GlassIsForTheVisit
  BY <1>1 DEF AccessInv, GlassIsForAVisit, GlassIsForTheVisit
<1> QED
  BY <1>2, <1>3, <1>4 DEF AccessIsDecided

-----------------------------------------------------------------------------
\* Core's memory, the tables and the answers keep their types, whatever is
\* requested, fails to be written or is restarted.
THEOREM AccessTypeCorrect == AccessSpec => []AccessTypeOK
BY AccessIsInvariant, PTL DEF AccessInv

\* What a restart would read back is what was last answered, of members and
\* of tightenings, but for what the database failed to take: no request
\* changes memory and leaves its record behind.
THEOREM RestartForgetsNothing == AccessSpec => []DiskIsAnswered
BY AccessIsInvariant, PTL DEF AccessInv

\* Nobody passes the check of acl.rs beyond the members last answered, a
\* personal workspace stays its owner's, and a break-glass ends with the
\* visit: for any people, workspaces, documents, restarts and failed writes.
THEOREM AccessStaysDecided == AccessSpec => []AccessIsDecided
<1>1. AccessInv => AccessIsDecided
  BY InvDecides
<1> QED
  BY <1>1, AccessIsInvariant, PTL

=============================================================================
