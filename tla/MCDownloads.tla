----------------------------- MODULE MCDownloads -----------------------------
(* Three models, one of them of two files. People ask for the two others,     *)
(* which is how the line fills; or for one, whose file somebody puts into the *)
(* folder by hand or takes out, which is how a download, a scan and a person  *)
(* meet; or for the one of two files. Which of these is chosen at the start.  *)
EXTENDS Downloads, TLC

CONSTANTS large, small, seeing, weights, tiny, language, vision

VARIABLE asked   \* the models people ask for

MCModels == {large, small, seeing}
MCFiles == {weights, tiny, language, vision}
MCFilesOf == (large :> <<weights>>) @@ (small :> <<tiny>>) @@ (seeing :> <<language, vision>>)
MCSize == [f \in MCFiles |-> IF f = weights THEN 2 ELSE 1]
MCBringable == {weights}

MCInit == Init /\ asked \in {{large, small}, {large}, {seeing}}

MCNext ==
  /\ \/ Request \/ Fetching \/ Scanning \/ Restart
     \/ asked = {large} /\ \E f \in Files, content \in Contents : Bring(f, content)
  /\ \A m \in Models \ asked : shown'[m] = "none"
  /\ UNCHANGED asked

MCSpec == MCInit /\ [][MCNext]_<<vars, asked>> /\ WF_vars(Fetching /\ ~AwaitsNetwork)
=============================================================================
