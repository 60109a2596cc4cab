---------------------------- MODULE Reconciling ----------------------------
(***************************************************************************)
(* A JSON value reconciled into a document (docs.rs: apply_json and below)  *)
(* and the comparison of two projections (diff_changes).  A value is a leaf *)
(* [leaf], a map [map] from keys to values, or a list [list].  A document    *)
(* may also hold an Automerge text [text], which a replica writes and whose *)
(* projection is the string it says.  What the reconciliation returns is    *)
(* the document it leaves and the changes it counts.                        *)
(***************************************************************************)
EXTENDS Naturals, Sequences, FiniteSets, FiniteSetsExt, SequencesExt

Leaf(v) == [is |-> "leaf", leaf |-> v]
Object(f) == [is |-> "map", map |-> f]
Array(s) == [is |-> "list", list |-> s]
Text(v) == [is |-> "text", text |-> v]

None0 == [added |-> 0, removed |-> 0, changed |-> 0]
Merge(a, b) == [added |-> a.added + b.added, removed |-> a.removed + b.removed, changed |-> a.changed + b.changed]
MergeAll(S, Of(_)) == FoldSet(LAMBDA x, acc : Merge(acc, Of(x)), None0, S)

RECURSIVE ReconcileMap(_, _), ReconcileList(_, _), ReconcileProp(_, _), DiffInto(_, _)
RECURSIVE Projection(_), SameTexts(_, _)

\* one property that is there: same shape recurses, the same leaf stays, and all
\* else is replaced: another shape, another leaf, and a text whatever it says
ReconcileProp(current, next) ==
  IF current.is = "map" /\ next.is = "map" THEN ReconcileMap(current, next)
  ELSE IF current.is = "list" /\ next.is = "list" THEN ReconcileList(current, next)
  ELSE IF current.is = "leaf" /\ current = next THEN [doc |-> current, counts |-> None0]
  ELSE [doc |-> next, counts |-> [None0 EXCEPT !.changed = 1]]

\* a mutant: keys the new value does not have are left where they are
ReconcileMapKeeps(current, next) ==
  LET old == DOMAIN current.map
      new == DOMAIN next.map
      each == [k \in old \cap new |-> ReconcileProp(current.map[k], next.map[k])] IN
  [doc |-> Object([k \in old \cup new |-> IF k \in old \cap new THEN each[k].doc ELSE IF k \in new THEN next.map[k] ELSE current.map[k]]),
   counts |-> Merge([added |-> Cardinality(new \ old), removed |-> 0, changed |-> 0],
                    MergeAll(old \cap new, LAMBDA k : each[k].counts))]

\* first the keys that are gone, then each key of the new value
ReconcileMap(current, next) ==
  LET old == DOMAIN current.map
      new == DOMAIN next.map
      each == [k \in old \cap new |-> ReconcileProp(current.map[k], next.map[k])] IN
  [doc |-> Object([k \in new |-> IF k \in old THEN each[k].doc ELSE next.map[k]]),
   counts |-> Merge([added |-> Cardinality(new \ old), removed |-> Cardinality(old \ new), changed |-> 0],
                    MergeAll(old \cap new, LAMBDA k : each[k].counts))]

\* trimmed from the end, then index by index, then appended
ReconcileList(current, next) ==
  LET old == Len(current.list)
      new == Len(next.list)
      kept == IF old < new THEN old ELSE new
      each == [i \in 1..kept |-> ReconcileProp(current.list[i], next.list[i])] IN
  [doc |-> Array([i \in 1..new |-> IF i <= kept THEN each[i].doc ELSE next.list[i]]),
   counts |-> Merge([added |-> new - kept, removed |-> old - kept, changed |-> 0],
                    MergeAll(1..kept, LAMBDA i : each[i].counts))]

\* apply_json: the root of a crdt document must be a map
ApplyJson(doc, next) == ReconcileMap(doc, next)

\* diff_changes: what a replica's message changed, from the two projections
DiffInto(before, after) ==
  IF before.is = "map" /\ after.is = "map"
  THEN LET a == DOMAIN before.map
           b == DOMAIN after.map IN
       Merge([added |-> Cardinality(b \ a), removed |-> Cardinality(a \ b), changed |-> 0],
             MergeAll(a \cap b, LAMBDA k : DiffInto(before.map[k], after.map[k])))
  ELSE IF before.is = "list" /\ after.is = "list"
  THEN LET a == Len(before.list)
           b == Len(after.list)
           common == IF a < b THEN a ELSE b IN
       Merge([added |-> b - common, removed |-> a - common, changed |-> 0],
             MergeAll(1..common, LAMBDA i : DiffInto(before.list[i], after.list[i])))
  ELSE IF before = after THEN None0 ELSE [None0 EXCEPT !.changed = 1]

IsEmpty(c) == c = None0

\* DocStore::json: the document as a value, a text as its string
Projection(v) ==
  CASE v.is = "map" -> Object([k \in DOMAIN v.map |-> Projection(v.map[k])])
    [] v.is = "list" -> Array([i \in DOMAIN v.list |-> Projection(v.list[i])])
    [] v.is = "text" -> Leaf(v.text)
    [] v.is = "leaf" -> v

\* the texts that are written over with the very words they said
SameTexts(doc, next) ==
  IF doc.is = "map" /\ next.is = "map"
  THEN FoldSet(LAMBDA k, n : n + SameTexts(doc.map[k], next.map[k]), 0, DOMAIN doc.map \cap DOMAIN next.map)
  ELSE IF doc.is = "list" /\ next.is = "list"
  THEN FoldSet(LAMBDA i, n : n + SameTexts(doc.list[i], next.list[i]), 0, DOMAIN doc.list \cap DOMAIN next.list)
  ELSE IF doc.is = "text" /\ Projection(doc) = next THEN 1 ELSE 0

\* A document that a value was reconciled into is that value, whatever it was
\* before, and what the reconciliation counted is what comparing the projections
\* before and after finds, the same from a tool, a surface or a replica; except
\* that a text whose words stay is written all the same and counted as changed.
\* So nothing is announced and committed exactly when the document held the value
\* already and no text (docs.rs apply_json and diff_changes).
ReconcilesExactly(doc, next) ==
  LET done == ApplyJson(doc, next)
      found == DiffInto(Projection(doc), next) IN
  /\ done.doc = next
  /\ done.counts = [found EXCEPT !.changed = @ + SameTexts(doc, next)]
  /\ IsEmpty(done.counts) <=> doc = next
=============================================================================
