----------------------------- MODULE TableRows -----------------------------
(***************************************************************************)
(* The table of one model, as the server keeps it: rows with a unique      *)
(* field `key` and one more field, `flag`, by their primary keys.          *)
(***************************************************************************)
CONSTANTS Rows,     \* primary keys
          Absent,   \* a primary key without a row
          NoRow     \* no primary key

\* The row with a key, in a table.
Holder(t, k) == {r \in Rows : t[r] # Absent /\ t[r].key = k}

UniqueKeys(t) == \A r, s \in Rows : t[r] # Absent /\ t[s] # Absent /\ t[r].key = t[s].key => r = s

\* The row an operation's `where` names: a unique key, and a filter for an
\* extended `where`.
Selected(t, op) == {r \in Holder(t, op.where) : op.filter => t[r].flag}

\* The three statements, as the server runs them on a table: the row they touch
\* and the table they leave, or the violation they raise.
Refused(t, why) == [table |-> t, row |-> NoRow, fate |-> why]

InsertRow(t, op) ==
  IF Holder(t, op.create) # {} \/ t[op.row] # Absent THEN Refused(t, "conflict")
  ELSE [table |-> [t EXCEPT ![op.row] = [key |-> op.create, flag |-> op.flag]],
        row |-> op.row, fate |-> "ok"]

UpdateRow(t, op, r) ==
  IF Holder(t, op.to) \ {r} # {} THEN Refused(t, "conflict")
  ELSE [table |-> [t EXCEPT ![r] = [key |-> op.to, flag |-> op.flag]],
        row |-> r, fate |-> "ok"]

DeleteRow(t, r) == [table |-> [t EXCEPT ![r] = Absent], row |-> r, fate |-> "ok"]
=============================================================================
