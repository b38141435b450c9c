---------------------------- MODULE AtomicWrites ----------------------------
(***************************************************************************)
(* What the write engine promises a caller: an operation, or all of the    *)
(* operations of one $transaction([...]), take effect at one moment,       *)
(* exactly as if they had run then, in order, against the table alone; a   *)
(* call that is answered with an error has had no effect at all.           *)
(* WriteEngine.tla shows how planning reads, guards, locks and a retry     *)
(* keep the promise.                                                       *)
(***************************************************************************)
EXTENDS TableRows, Naturals, Sequences

CONSTANTS Calls,      \* operations and $transaction([...]) calls made by clients
          Workloads   \* substrate, initial table and operations of each call

VARIABLES work,       \* the workload: [on, table, ops]
          table,      \* the committed rows
          answered    \* what each call has been told: [status, rows]

atomicVars == <<work, table, answered>>

Waiting == [status |-> "none", rows |-> <<>>]
Failed  == [status |-> "failed", rows |-> <<>>]

\* What an operation means.
Meaning(t, op) ==
  LET found == Selected(t, op)
      r     == CHOOSE x \in found : TRUE IN
  CASE op.kind = "create" -> InsertRow(t, op)
    [] op.kind = "upsert" /\ found = {} -> InsertRow(t, op)
    [] op.kind = "upsert" /\ found # {} /\ op.conditional /\ ~t[r].flag ->
         [table |-> t, row |-> r, fate |-> "ok"]
    [] op.kind = "upsert" /\ found # {} /\ (op.conditional => t[r].flag) -> UpdateRow(t, op, r)
    [] op.kind # "upsert" /\ op.kind # "create" /\ found = {} -> Refused(t, "notFound")
    [] op.kind = "update" /\ found # {} -> UpdateRow(t, op, r)
    [] op.kind = "delete" /\ found # {} -> DeleteRow(t, r)

\* An operation after those before it.
Then(done, op) ==
  LET next == Meaning(done.table, op) IN
  IF done.fate # "ok" THEN done
  ELSE [table |-> next.table, fate |-> next.fate, rows |-> Append(done.rows, next.row)]

\* The operations of a call, one after the other.
InOrder(t, ops) ==
  LET upTo[i \in 0..Len(ops)] ==
        IF i = 0 THEN [table |-> t, fate |-> "ok", rows |-> <<>>]
        ELSE Then(upTo[i - 1], ops[i])
  IN  upTo[Len(ops)]

AtomicInit == /\ work \in Workloads
              /\ table = work.table
              /\ answered = [c \in Calls |-> Waiting]

Succeed(c) == /\ answered[c] = Waiting
              /\ LET done == InOrder(table, work.ops[c]) IN
                   /\ done.fate = "ok"
                   /\ table' = done.table
                   /\ answered' = [answered EXCEPT ![c] = [status |-> "ok", rows |-> done.rows]]
              /\ UNCHANGED work

Fail(c) == /\ answered[c] = Waiting
           /\ answered' = [answered EXCEPT ![c] = Failed]
           /\ UNCHANGED <<work, table>>

AtomicNext == \E c \in Calls : Succeed(c) \/ Fail(c)

AtomicSpec == AtomicInit /\ [][AtomicNext]_atomicVars
=============================================================================
