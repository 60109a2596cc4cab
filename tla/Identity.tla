------------------------------ MODULE Identity ------------------------------
(***************************************************************************)
(* Who a person is: the accounts, one-time links, sessions and lockouts of *)
(* localspace-core's identity.rs, the requests of lib.rs that change them, *)
(* and the sockets and calls of localspace-server that carry a session.    *)
(*                                                                         *)
(* Core's thread takes one request at a time, and it alone writes these    *)
(* records; each write is a transaction of its own, so a request is here   *)
(* the list of writes it still has to make (script).  Between two of them  *)
(* the server's tasks read sessions, a socket looks at its own, a write    *)
(* fails, or the process is killed.  The clock does not move while Core is *)
(* busy: its unit is far longer than a request.                            *)
(***************************************************************************)
EXTENDS Integers, Sequences, FiniteSets

CONSTANTS
  Users,            \* the people an account may be made for, by email
  Addresses,        \* where they sign in from
  Roles,            \* what an account may be; one of them is "admin"
  AccountFailures,  \* ACCOUNT_FAILURES
  AccountLock,      \* ACCOUNT_LOCK_MS
  MostDoublings,    \* rounds.min(10)
  AddressFailures,  \* IP_FAILURES
  AddressWindow,    \* IP_WINDOW_MS
  AddressLock,      \* IP_LOCK_MS
  LinkLife,         \* INVITE_TTL_MS
  SessionLife,      \* session_ttl_ms
  RevalidateEvery,  \* REVALIDATE_EVERY
  MaxLinks, MaxSessions, MaxSockets, MaxCalls,  \* bounds of the model
  Budgets           \* how many requests, failed logins, faults and ticks a behaviour may have

\* the holder of a link that is for no account yet
FirstAdmin == "first administrator"

ASSUME IdentityAssumption ==
  /\ "admin" \in Roles /\ FirstAdmin \notin Users
  /\ {AccountFailures, AccountLock, AddressFailures, LinkLife, SessionLife,
      RevalidateEvery} \subseteq Nat \ {0}
  /\ {MostDoublings, AddressWindow, AddressLock, MaxLinks, MaxSessions,
      MaxSockets, MaxCalls} \subseteq Nat
  /\ Budgets \subseteq [requests : Nat, logins : Nat, faults : Nat, ticks : Nat]

VARIABLES
  now,      \* the clock
  up,       \* whether the service runs
  account,  \* the users table
  link,     \* the invites table, in the order they were made
  session,  \* the sessions table, likewise
  lock,     \* account:<id> of the locks table
  address,  \* ip:<address> of the locks table
  file,     \* the link first-admin-link.txt names; 0 when there is no file
  script,   \* the writes Core's thread still has to make for its request
  sockets,  \* the open websockets, each with the caller of its upgrade
  calls,    \* requests that wait for Core, each with its caller
  over,     \* when it was answered that a session is ended; Never before
  guesses,  \* wrong passwords counted for an account since its lock was cleared
  spent,    \* how many passwords each link has set
  left      \* what is left of the behaviour's budget

tables == <<account, link, session, lock, address, file>>
net == <<sockets, calls>>
history == <<over, guesses, spent>>
vars == <<now, up, tables, script, net, history, left>>

-----------------------------------------------------------------------------
Never == -1
LongAgo == -AddressWindow - 1   \* window_start_ms = 0, against a clock past 1970

NoAccount == [made |-> FALSE, role |-> "admin", password |-> FALSE, disabled |-> FALSE]
NoLock == [failures |-> 0, rounds |-> 0, until |-> 0]
NoTries == [failures |-> 0, until |-> 0, window |-> LongAgo]
NoGuess == [count |-> 0, since |-> 0, last |-> 0]

Accounts == [made : BOOLEAN, role : Roles, password : BOOLEAN, disabled : BOOLEAN]
Links == [user : Users \union {FirstAdmin}, expires : Nat, used : BOOLEAN, by : Users \union {FirstAdmin}]
Sessions == [user : Users, expires : Nat, revoked : BOOLEAN]

TypeOK ==
  /\ now \in Nat /\ up \in BOOLEAN
  /\ account \in [Users -> Accounts]
  /\ link \in Seq(Links) /\ Len(link) <= MaxLinks
  /\ session \in Seq(Sessions) /\ Len(session) <= MaxSessions
  /\ lock \in [Users -> [failures : 0..AccountFailures - 1, rounds : Nat, until : Nat]]
  /\ address \in [Addresses -> [failures : 0..AddressFailures - 1, until : Nat, window : Int]]
  /\ file \in 0..Len(link)
  /\ sockets \subseteq [session : DOMAIN session, role : Roles, checked : 0..now]
  /\ calls \subseteq [session : DOMAIN session, role : Roles, at : 0..now]

Init ==
  /\ now = 0 /\ up = FALSE
  /\ account = [u \in Users |-> NoAccount]
  /\ link = <<>> /\ session = <<>>
  /\ lock = [u \in Users |-> NoLock]
  /\ address = [a \in Addresses |-> NoTries]
  /\ file = 0 /\ script = <<>> /\ sockets = {} /\ calls = {}
  /\ over = [s \in 1..MaxSessions |-> Never]
  /\ guesses = [u \in Users |-> NoGuess]
  /\ spent = [l \in 1..MaxLinks |-> 0]
  /\ left \in Budgets

-----------------------------------------------------------------------------
(* What the handlers read. *)

NoAccounts == \A u \in Users : ~account[u].made                \* is_empty

\* Directory::session
Live(s) ==
  /\ s \in DOMAIN session
  /\ ~session[s].revoked /\ session[s].expires > now
  /\ account[session[s].user].made /\ ~account[session[s].user].disabled

\* a link neither used nor expired
Open(l) == l \in DOMAIN link /\ ~link[l].used /\ link[l].expires > now

\* invite_status, when it is ForUser
OpenFor(l, u) ==
  /\ Open(l) /\ link[l].user = u
  /\ u \in Users /\ account[u].made /\ ~account[u].disabled

\* Mutant: the link opens whoever there is.
OpensFirstAnyway(l) == Open(l) /\ link[l].user = FirstAdmin

\* accept_first_admin's conditions, and invite_status's FirstAdmin
OpensFirst(l) == Open(l) /\ link[l].user = FirstAdmin /\ NoAccounts

Locked(u) == lock[u].until > now                               \* account_locked_until
AddressLocked(a) == address[a].until > now                     \* address_locked_until

\* The role a session's caller is given when it is authenticated.
RoleOf(s) == account[session[s].user].role

-----------------------------------------------------------------------------
(* The writes, each a transaction. *)

PutAccount(u, rec) == [put |-> "account", at |-> u, to |-> rec, link |-> 0]
PutPassword(u, rec, l) == [put |-> "account", at |-> u, to |-> rec, link |-> l]
PutLink(l, rec) == [put |-> "link", at |-> l, to |-> rec]
PutSession(s, rec) == [put |-> "session", at |-> s, to |-> rec]
PutLock(u, rec) == [put |-> "lock", at |-> u, to |-> rec]
PutAddress(a, rec) == [put |-> "address", at |-> a, to |-> rec]
PutFile(l) == [put |-> "file", at |-> l]
Revoke(u) == [put |-> "revoke", at |-> u]
Retire == [put |-> "retire", at |-> FirstAdmin]
Answer(S) == [put |-> "answer", at |-> S]

\* unlock
Unlock(u) == PutLock(u, NoLock)

\* start_session
StartSession(u) ==
  PutSession(Len(session) + 1, [user |-> u, expires |-> now + SessionLife, revoked |-> FALSE])

\* invite
Invite(u) ==
  PutLink(Len(link) + 1,
          [user |-> u, expires |-> now + LinkLife, used |-> FALSE, by |-> u])

\* count_address_failure
CountAddressFailure(a) ==
  LET fresh == now - address[a].window > AddressWindow
      failures == (IF fresh THEN 0 ELSE address[a].failures) + 1
  IN  PutAddress(a, IF failures >= AddressFailures
                    THEN [failures |-> 0, until |-> now + AddressLock, window |-> now]
                    ELSE [address[a] EXCEPT !.failures = failures,
                                            !.window = IF fresh THEN now ELSE @])

\* Mutants: one failure too many before the lock; every lock as long as the first.
CountAccountFailureLate(u) ==
  PutLock(u, IF lock[u].failures + 1 > AccountFailures
             THEN [failures |-> 0, rounds |-> lock[u].rounds + 1, until |-> now + AccountLock]
             ELSE [lock[u] EXCEPT !.failures = @ + 1])
CountAccountFailureFlat(u) ==
  PutLock(u, IF lock[u].failures + 1 >= AccountFailures
             THEN [failures |-> 0, rounds |-> lock[u].rounds + 1, until |-> now + AccountLock]
             ELSE [lock[u] EXCEPT !.failures = @ + 1])

\* count_account_failure
CountAccountFailure(u) ==
  LET doublings == IF lock[u].rounds < MostDoublings THEN lock[u].rounds ELSE MostDoublings
  IN  PutLock(u, IF lock[u].failures + 1 >= AccountFailures
                 THEN [failures |-> 0, rounds |-> lock[u].rounds + 1,
                       until |-> now + AccountLock * 2^doublings]
                 ELSE [lock[u] EXCEPT !.failures = @ + 1])

SessionsOf(u) == {s \in DOMAIN session : session[s].user = u}

\* Core's thread takes the next request; a busy one has writes to make.
Idle == up /\ script = <<>>
Spend(what) == left[what] > 0 /\ left' = [left EXCEPT ![what] = @ - 1]
Does(writes) == script' = writes /\ UNCHANGED <<now, up, tables, sockets, history>>
Takes(writes) == Does(writes) /\ Spend("requests")
RoomForLink == Len(link) < MaxLinks
RoomForSession == Len(session) < MaxSessions

-----------------------------------------------------------------------------
(* The server's own requests (handle_system). *)

\* bootstrap_invite: earlier links of its kind die, then there is a new one.
Spent(l) == PutLink(l, [link[l] EXCEPT !.used = TRUE])
BootstrapWrites ==
  << Retire, PutLink(Len(link) + 1, [user |-> FirstAdmin, expires |-> now + LinkLife,
                                     used |-> FALSE, by |-> FirstAdmin]),
     PutFile(Len(link) + 1) >>

\* The service starts: it mints the first administrator's link while there is
\* nobody, and takes a stale file away when there is somebody.
Start ==
  /\ ~up /\ script = <<>> /\ up' = TRUE
  /\ \/ NoAccounts /\ RoomForLink /\ script' = BootstrapWrites /\ UNCHANGED file
     \/ NoAccounts /\ ~RoomForLink /\ script' = <<>> /\ UNCHANGED file
     \/ ~NoAccounts /\ script' = <<>> /\ file' = 0
  /\ UNCHANGED <<now, account, link, session, lock, address, net, history, left>>

\* The first administrator's account is written before its link is spent.
AcceptFirstAdmin(l, u) ==
  /\ Idle /\ RoomForSession /\ OpensFirst(l)
  /\ Takes(<< PutPassword(u, [made |-> TRUE, role |-> "admin", password |-> TRUE,
                              disabled |-> FALSE], l),
              PutLink(l, [link[l] EXCEPT !.used = TRUE, !.by = u]),
              StartSession(u), PutFile(0) >>)
  /\ UNCHANGED calls

\* A first or a reset password: the link is spent first.
SetPassword(l, u) ==
  /\ Idle /\ RoomForSession /\ OpenFor(l, u)
  /\ Takes(<< Spent(l), PutPassword(u, [account[u] EXCEPT !.password = TRUE], l),
              Unlock(u), StartSession(u) >>)
  /\ UNCHANGED calls

\* Every answer but the right password's, and the writes it costs.
LoginFails(u, a) ==
  /\ Idle /\ ~AddressLocked(a) /\ Spend("logins")
  /\ \/ /\ ~account[u].made \/ Locked(u) \/ account[u].disabled \/ ~account[u].password
        /\ Does(<<CountAddressFailure(a)>>)
     \/ /\ account[u].made /\ ~Locked(u) /\ ~account[u].disabled /\ account[u].password
        /\ Does(<<CountAddressFailure(a), CountAccountFailure(u)>>)
  /\ UNCHANGED calls

LoginRight(u, a) ==
  /\ Idle /\ RoomForSession /\ ~AddressLocked(a)
  /\ account[u].made /\ ~Locked(u) /\ ~account[u].disabled /\ account[u].password
  /\ Takes(<<Unlock(u), PutAccount(u, account[u]), StartSession(u)>>)
  /\ UNCHANGED calls

Logout(s) ==
  /\ Idle /\ s \in DOMAIN session /\ ~session[s].revoked
  /\ Takes(<<PutSession(s, [session[s] EXCEPT !.revoked = TRUE]), Answer({s})>>)
  /\ UNCHANGED calls

-----------------------------------------------------------------------------
(* An administrator's requests.  The caller's role is the one the call came  *)
(* with (require_admin).                                                     *)

AsAdmin(c) == Idle /\ c \in calls /\ c.role = "admin" /\ calls' = calls \ {c}

CreateUser(c, u, r) ==
  /\ AsAdmin(c) /\ RoomForLink /\ ~account[u].made
  /\ Takes(<<PutAccount(u, [NoAccount EXCEPT !.made = TRUE, !.role = r]), Invite(u)>>)

SetUserRoles(c, u, r) ==
  /\ AsAdmin(c) /\ account[u].made
  /\ Takes(<<PutAccount(u, [account[u] EXCEPT !.role = r]), Revoke(u), Answer(SessionsOf(u))>>)

DisableUser(c, u, disabled) ==
  /\ AsAdmin(c) /\ account[u].made
  /\ LET put == PutAccount(u, [account[u] EXCEPT !.disabled = disabled])
     IN  Takes(IF disabled THEN <<put, Revoke(u), Answer(SessionsOf(u))>> ELSE <<put>>)

\* reset_password
Reset(u) == << PutAccount(u, [account[u] EXCEPT !.password = FALSE]), Revoke(u), Invite(u) >>

ResetPassword(c, u) ==
  /\ AsAdmin(c) /\ RoomForLink /\ account[u].made
  /\ Takes(Reset(u) \o <<Answer(SessionsOf(u))>>)

UnlockUser(c, u) == AsAdmin(c) /\ Takes(<<Unlock(u)>>)

RevokeSessions(c, u) == AsAdmin(c) /\ Takes(<<Revoke(u), Answer(SessionsOf(u))>>)

\* Any other request, and an administrator's request of somebody who is none:
\* nothing of these tables changes.
OtherCall(c) ==
  /\ Idle /\ c \in calls /\ calls' = calls \ {c}
  /\ UNCHANGED <<now, up, tables, script, sockets, history, left>>

AdminCall(c) ==
  \E u \in Users :
     \/ \E r \in Roles : CreateUser(c, u, r) \/ SetUserRoles(c, u, r)
     \/ \E disabled \in BOOLEAN : DisableUser(c, u, disabled)
     \/ ResetPassword(c, u) \/ UnlockUser(c, u) \/ RevokeSessions(c, u)

\* `localspace admin`, with the service stopped.
OperatorBootstrap ==
  /\ ~up /\ script = <<>> /\ RoomForLink /\ NoAccounts
  /\ Takes(BootstrapWrites) /\ UNCHANGED calls

OperatorReset(u) ==
  /\ ~up /\ script = <<>> /\ RoomForLink /\ account[u].made
  /\ Takes(Reset(u) \o <<Unlock(u), Answer(SessionsOf(u))>>) /\ UNCHANGED calls

-----------------------------------------------------------------------------
(* Core's thread makes its next write. *)

Put(table, at, to) == IF at \in DOMAIN table THEN [table EXCEPT ![at] = to] ELSE Append(table, to)

Guessed(u) ==
  [count |-> guesses[u].count + 1, last |-> now,
   since |-> IF guesses[u].count = 0 THEN now ELSE guesses[u].since]

WriteAccount(w) ==
  /\ account' = [account EXCEPT ![w.at] = w.to]
  /\ spent' = IF w.link = 0 THEN spent ELSE [spent EXCEPT ![w.link] = @ + 1]
  /\ UNCHANGED <<link, session, lock, address, file, over, guesses>>

WriteLink(w) ==
  /\ link' = Put(link, w.at, w.to)
  /\ UNCHANGED <<account, session, lock, address, file, history>>

WriteSession(w) ==
  /\ session' = Put(session, w.at, w.to)
  /\ UNCHANGED <<account, link, lock, address, file, history>>

WriteLock(w) ==
  /\ lock' = [lock EXCEPT ![w.at] = w.to]
  /\ guesses' = [guesses EXCEPT ![w.at] = IF w.to = NoLock THEN NoGuess ELSE Guessed(w.at)]
  /\ UNCHANGED <<account, link, session, address, file, over, spent>>

WriteAddress(w) ==
  /\ address' = [address EXCEPT ![w.at] = w.to]
  /\ UNCHANGED <<account, link, session, lock, file, history>>

WriteFile(w) == file' = w.at /\ UNCHANGED <<account, link, session, lock, address, history>>

GiveAnswer(w) ==
  /\ over' = [s \in 1..MaxSessions |-> IF s \in w.at /\ over[s] = Never THEN now ELSE over[s]]
  /\ UNCHANGED <<tables, guesses, spent>>

\* Mutant: the loop ends with the first live session.
RevokeFirst(w) ==
  LET live == {s \in SessionsOf(w.at) : ~session[s].revoked}
  IN  /\ \/ \E s \in live : session' = [session EXCEPT ![s].revoked = TRUE]
         \/ live = {} /\ UNCHANGED session
      /\ script' = Tail(script)
      /\ UNCHANGED <<account, link, lock, address, file, history>>

\* revoke_sessions: one session after another.
RevokeOne(w) ==
  LET live == {s \in SessionsOf(w.at) : ~session[s].revoked}
  IN  /\ \/ \E s \in live :
             /\ session' = [session EXCEPT ![s].revoked = TRUE]
             /\ script' = IF live = {s} THEN Tail(script) ELSE script
         \/ live = {} /\ script' = Tail(script) /\ UNCHANGED session
      /\ UNCHANGED <<account, link, lock, address, file, history>>

\* bootstrap_invite's loop: one link after another, as their hashes order them.
RetireOne ==
  LET earlier == {l \in DOMAIN link : link[l].user = FirstAdmin /\ ~link[l].used}
  IN  /\ \/ \E l \in earlier :
             /\ link' = [link EXCEPT ![l].used = TRUE]
             /\ script' = IF earlier = {l} THEN Tail(script) ELSE script
         \/ earlier = {} /\ script' = Tail(script) /\ UNCHANGED link
      /\ UNCHANGED <<account, session, lock, address, file, history>>

Write ==
  /\ script /= <<>>
  /\ LET w == Head(script)
     IN  \/ w.put = "revoke" /\ RevokeOne(w)
         \/ w.put = "retire" /\ RetireOne
         \/ /\ script' = Tail(script)
            /\ \/ w.put = "account" /\ WriteAccount(w)
               \/ w.put = "link" /\ WriteLink(w)
               \/ w.put = "session" /\ WriteSession(w)
               \/ w.put = "lock" /\ WriteLock(w)
               \/ w.put = "address" /\ WriteAddress(w)
               \/ w.put = "file" /\ WriteFile(w)
               \/ w.put = "answer" /\ GiveAnswer(w)
  /\ UNCHANGED <<now, up, net, left>>

\* A write fails: the request answers with the error and leaves the rest.
WriteFails ==
  /\ script /= <<>> /\ Head(script).put /= "answer"
  /\ Spend("faults") /\ script' = <<>>
  /\ UNCHANGED <<now, up, tables, net, history>>

\* The process ends, in whatever it was doing.
Kill ==
  /\ up \/ script /= <<>>
  /\ Spend("faults") /\ up' = FALSE /\ script' = <<>> /\ sockets' = {} /\ calls' = {}
  /\ UNCHANGED <<now, tables, history>>

-----------------------------------------------------------------------------
(* The server's tasks, beside Core. *)

RoomForCall == Cardinality(calls) < MaxCalls

\* auth::require: the session is read for every request.
Request(s) ==
  /\ up /\ RoomForCall /\ Live(s)
  /\ calls' = calls \union {[session |-> s, role |-> RoleOf(s), at |-> now]}
  /\ UNCHANGED <<now, up, tables, script, sockets, history, left>>

\* ws::upgrade
Upgrade(s) ==
  /\ up /\ Cardinality(sockets) < MaxSockets /\ Live(s)
  /\ sockets' = sockets \union {[session |-> s, role |-> RoleOf(s), checked |-> now]}
  /\ UNCHANGED <<now, up, tables, script, calls, history, left>>

\* A request on a socket goes to Core as the caller of the upgrade.
SocketRequest(k) ==
  /\ k \in sockets /\ RoomForCall
  /\ calls' = calls \union {[session |-> k.session, role |-> k.role, at |-> now]}
  /\ UNCHANGED <<now, up, tables, script, sockets, history, left>>

\* Mutant: the timer looks at the account alone.
RevalidateAccount(k) ==
  /\ k \in sockets /\ now >= k.checked + RevalidateEvery
  /\ sockets' = (sockets \ {k}) \union
                  (IF ~account[session[k.session].user].disabled
                   THEN {[k EXCEPT !.checked = now]} ELSE {})
  /\ UNCHANGED <<now, up, tables, script, calls, history, left>>

\* The socket's timer: a session that is no longer live closes it.
Revalidate(k) ==
  /\ k \in sockets /\ now >= k.checked + RevalidateEvery
  /\ sockets' = (sockets \ {k}) \union
                  (IF Live(k.session) THEN {[k EXCEPT !.checked = now]} ELSE {})
  /\ UNCHANGED <<now, up, tables, script, calls, history, left>>

CloseSocket(k) ==
  /\ k \in sockets /\ sockets' = sockets \ {k}
  /\ UNCHANGED <<now, up, tables, script, calls, history, left>>

\* The clock; a socket's timer is never late by a whole unit.
Tick ==
  /\ script = <<>> /\ Spend("ticks")
  /\ \A k \in sockets : now < k.checked + RevalidateEvery
  /\ now' = now + 1
  /\ UNCHANGED <<up, tables, script, net, history>>

-----------------------------------------------------------------------------
System ==
  \/ Start
  \/ \E l \in DOMAIN link, u \in Users : AcceptFirstAdmin(l, u) \/ SetPassword(l, u)
  \/ \E u \in Users, a \in Addresses : LoginFails(u, a) \/ LoginRight(u, a)
  \/ \E s \in DOMAIN session : Logout(s)
  \/ \E c \in calls : AdminCall(c) \/ OtherCall(c)
  \/ OperatorBootstrap
  \/ \E u \in Users : OperatorReset(u)

Server ==
  \/ \E s \in DOMAIN session : Request(s) \/ Upgrade(s)
  \/ \E k \in sockets : SocketRequest(k) \/ Revalidate(k) \/ CloseSocket(k)

Next == System \/ Write \/ WriteFails \/ Kill \/ Server \/ Tick

Spec == Init /\ [][Next]_vars

-----------------------------------------------------------------------------
(* Properties. *)

\* A session that somebody was told is ended - by signing out, or because an
\* administrator changed the role, disabled the account, forgot the password
\* or ended the sessions - is never live again: not after the account is
\* enabled again, not after a failed write, not after a restart.
EndedStaysEnded == \A s \in DOMAIN session : over[s] /= Never => ~Live(s)

\* No request reaches Core for an ended session later than one revalidation
\* after the answer that ended it: the socket that was open is closed by then.
SocketsFollowSessions ==
  \A c \in calls : over[c.session] /= Never => c.at <= over[c.session] + RevalidateEvery

\* A one-time link sets one password in its life, whatever is killed or fails
\* between its writes, and links of the first administrator make one account.
LinksWorkOnce ==
  /\ \A l \in DOMAIN link : spent[l] <= 1
  /\ Cardinality({l \in DOMAIN link : link[l].user = FirstAdmin /\ spent[l] > 0}) <= 1

\* What was ended or used up is over (identity.rs, ws.rs), the three above
\* together.
EndedIsOver == EndedStaysEnded /\ SocketsFollowSessions /\ LinksWorkOnce

\* How long k rounds of lockout last together.
LockedFor[k \in Nat] ==
  IF k = 0 THEN 0
  ELSE LockedFor[k - 1] +
       AccountLock * 2^(IF k - 1 < MostDoublings THEN k - 1 ELSE MostDoublings)

\* Guessing is paced: n wrong passwords in a row for one account take at least
\* the doubling lockouts of the full rounds before the last of them, whatever
\* addresses they come from and however the service is restarted in between.
GuessesArePaced ==
  \A u \in Users : guesses[u].count > 0 =>
    guesses[u].last - guesses[u].since >= LockedFor[(guesses[u].count - 1) \div AccountFailures]
=============================================================================
