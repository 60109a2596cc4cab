------------------------------ MODULE MCHistory ------------------------------
(* One person and their agent on two documents where agents propose; what    *)
(* other people write is, to the history, a commit of no run (DocSync).      *)
EXTENDS History, TLC

CONSTANTS ann, board, plan, blank, some

MCUsers == {ann}
MCDocs == {board, plan}
MCMayEdit == (ann :> MCDocs)
MCContents == {blank, some}
MCSymmetry == Permutations(MCDocs)
=============================================================================
