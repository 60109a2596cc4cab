-------------------------------- MODULE Trail --------------------------------
(***************************************************************************)
(* What the audit log promises whoever reads its files in order: records   *)
(* with rising numbers, and a past that never changes.  It only grows, one *)
(* record at a time, at its end.                                           *)
(***************************************************************************)
EXTENDS Integers, Sequences

VARIABLE trail  \* the numbers of the records, as the files are read

Init == trail = <<>> \/ trail = <<0>>

Grows ==
  /\ Len(trail') = Len(trail) + 1
  /\ SubSeq(trail', 1, Len(trail)) = trail
  /\ \A i \in 1 .. Len(trail) : trail[i] < trail'[Len(trail')]

Spec == Init /\ [][Grows]_trail
=============================================================================
