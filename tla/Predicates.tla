----------------------------- MODULE Predicates ------------------------------
(***************************************************************************)
(* The predicates of a source plan and the key of its fetch (plan.py).     *)
(* A value has a kind and a payload; a string, too, is named by a number.  *)
(* A row is a function from columns to values.                             *)
(***************************************************************************)
EXTENDS Selection, SequencesExt, FiniteSetsExt, TLC

\* seq \in Only(seq): it is a sequence, whatever of.
Only(seq) == Seq(ToSet(seq))

Null == <<"none", 0>>

IsValue(v) == v = <<v[1], v[2]>> /\ v[2] \in Int

Get(row, col) == IF col \in DOMAIN row THEN row[col] ELSE Null

\* Values of two kinds have no order (TypeError), nor has None.
Less(v, w) == v[1] = w[1] /\ v # Null /\ v[2] < w[2]
Comparable(v, w) == v[1] = w[1] /\ v # Null

Matches(p, row) ==
  /\ p.column \in DOMAIN row
  /\ LET cell == row[p.column]
         value == p.value[1]
     IN  CASE p.op = "IN" -> cell \in ToSet(p.value)
           [] p.op = "="  -> cell = value
           [] p.op = "!=" -> cell # value
           [] p.op = ">"  -> Less(value, cell)
           [] p.op = "<"  -> Less(cell, value)
           [] p.op = ">=" -> Comparable(cell, value) /\ ~Less(cell, value)
           [] p.op = "<=" -> Comparable(cell, value) /\ ~Less(value, cell)

MatchesAll(row, preds) == \A i \in DOMAIN preds : Matches(preds[i], row)
Filter(rows, preds) == Selected(rows, {i \in DOMAIN rows : MatchesAll(rows[i], preds)})

ServerFilters(sp) == sp.pushed \o sp.rls

\* f"{column}{op}{value}": the kind of a value shows inside a list only.
Text(p) == <<p.column, p.op, IF p.op = "IN" THEN p.value ELSE p.value[1][2]>>

\* Slip: the row filter of the role is left out of the key.
FingerprintWithoutRLS(sp) == ToBag([i \in DOMAIN sp.pushed |-> Text(sp.pushed[i])])

\* The sorted predicates that the source applies; not the limit of the plan.
Fingerprint(sp) ==
  ToBag([i \in DOMAIN ServerFilters(sp) |-> Text(ServerFilters(sp)[i])])
=============================================================================
