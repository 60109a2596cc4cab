----------------------------- MODULE MCAccounts -----------------------------
(***************************************************************************)
(* Who people are (Identity) and what they may do (Access).  The two share  *)
(* no variable, so a behaviour is one of them: `part` says which, and the   *)
(* other's variables are left alone.                                        *)
(***************************************************************************)
EXTENDS Identity, Access, TLC

CONSTANTS u1, u2, a1, anna, ben, team, board, picture

VARIABLE part

\* Behaviours of many requests, and behaviours of many passwords.
SomeBudgets == { [requests |-> 4, logins |-> 0, faults |-> 1, ticks |-> 2],
                 [requests |-> 1, logins |-> 5, faults |-> 1, ticks |-> 3] }

\* Two people, one shared workspace, one harness and one exported file: the
\* smallest instance in which somebody is shut out of something.
SomeTightenings == { (anna :> Owner) @@ (ben :> Nothing), (anna :> View) @@ (ben :> Comment) }

\* Behaviours of many decisions, and behaviours of many comings and goings.
SomeRooms == { [faults |-> 1, restarts |-> 1, changes |-> 2, visits |-> 2],
               [faults |-> 1, restarts |-> 1, changes |-> 1, visits |-> 3] }

\* The part a behaviour is not about stays in one of its initial states.
StillIdentity == left = CHOOSE b \in Budgets : TRUE
StillAccess == role = [u \in People |-> "admin"] /\ room = CHOOSE r \in Rooms : TRUE

AccountsInit ==
  /\ Init /\ AccessInit
  /\ \/ part = "identity" /\ StillAccess
     \/ part = "access" /\ StillIdentity

AccountsNext ==
  \/ part = "identity" /\ Next /\ UNCHANGED <<part, accessVars>>
  \/ part = "access" /\ AccessNext /\ UNCHANGED <<part, vars>>

AccountsSpec == AccountsInit /\ [][AccountsNext]_<<part, vars, accessVars>>

Alike == Permutations(Users)
=============================================================================
