------------------------------- MODULE MCTurns -------------------------------
(* Two people on a shared engine with one slot. Ann has two chats in the team *)
(* workspace and a workspace of her own to go to; Bob has one chat, there.    *)
EXTENDS Turns, TLC

CONSTANTS ann, bob, team, home

MCUsers == {ann, bob}
MCWorkspaces == {team, home}
MCMayEnter == (ann :> MCWorkspaces) @@ (bob :> {team})
MCChats == {[user |-> ann, workspace |-> team, no |-> 1],
            [user |-> ann, workspace |-> team, no |-> 2],
            [user |-> bob, workspace |-> team, no |-> 1]}
=============================================================================
