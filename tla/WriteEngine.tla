---------------------------- MODULE WriteEngine ----------------------------
(***************************************************************************)
(* The execution of single-row writes (src/query-engine/write-engine) and  *)
(* of $transaction([...]) (src/client/client.ts) against a database that   *)
(* other callers write to.                                                 *)
(*                                                                         *)
(* An operation reads first, to choose its arm, and then writes.  On a     *)
(* driver with transactions the two are joined by a row lock; on a driver  *)
(* with atomic batches only (D1, Neon HTTP) by guards that go into the     *)
(* batch.  Nothing joins the premise of a create arm, that no row is       *)
(* there, but the unique constraint: its loser is retried, once, from the  *)
(* read (executeRoutedOperation).                                          *)
(*                                                                         *)
(* A locate and the probes of an upsert's conditionals are one step: the   *)
(* locate's row lock or the batch's snapshot joins them.  So are a failing *)
(* statement and the ROLLBACK after it.  A folded UPDATE or DELETE on a    *)
(* driver with transactions takes two steps like the unfolded one: the     *)
(* server's scan, which may wait for a lock, and its write.                *)
(***************************************************************************)
EXTENDS TableRows, Naturals, Sequences, SequencesExt

CONSTANTS Calls,      \* operations and $transaction([...]) calls made by clients
          Workloads,  \* substrate, initial table and operations of each call
          Keys,       \* values of the unique field
          Same,       \* a row a transaction has not written
          Nobody      \* the holder of a free lock

Values == [key : Keys, flag : BOOLEAN]
Tables == [Rows -> Values \cup {Absent}]

\* `where` and `filter` select, `create` and `row` are the keys of a row to insert,
\* `to` and `flag` are written; `plain`: one statement can do it.
Ops == [kind : {"create", "upsert", "update", "delete"}, where : Keys, filter : BOOLEAN,
        conditional : BOOLEAN, plain : BOOLEAN, create : Keys, row : Rows \cup {NoRow},
        to : Keys, flag : BOOLEAN]

\* The rows a call may insert.
Created(ops) == {op.row : op \in {o \in Range(ops) : o.kind \in {"create", "upsert"}}}

ASSUME MarkersAssumption ==
  /\ NoRow \notin Rows /\ Nobody \notin Calls
  /\ Same \notin Values \cup {Absent} /\ Absent \notin Values

\* A new row has a primary key of its own.
ASSUME WorkloadsAssumption ==
  \A w \in Workloads :
    /\ w \in [on : {"postgres", "innodb", "batch"}, table : Tables, ops : [Calls -> Seq(Ops)]]
    /\ UniqueKeys(w.table)
    /\ \A c \in Calls : \A r \in Created(w.ops[c]) :
         /\ r \in Rows /\ w.table[r] = Absent
         /\ \A d \in Calls \ {c} : r \notin Created(w.ops[d])

VARIABLES
  work,     \* the workload, with `on`: "postgres", "innodb" (drivers with
            \* transactions) or "batch" (a batch-only driver, with RETURNING)
  table,    \* the committed rows
  draft,    \* of each call: the rows it has written and not committed
  lock,     \* of each row: the call that locked it
  gap,      \* of each key: the calls that locked its absence (InnoDB), or whose
            \* transaction has entered it in the unique index, and may have left it
  call,     \* of each call: where it is and what it has been told
  holders   \* of each call of one operation: who held its key since it began

vars == <<work, table, draft, lock, gap, call, holders>>

Interactive == work.on # "batch"
Returning   == work.on # "innodb"
Single(c)   == Len(work.ops[c]) = 1
Op(c)       == work.ops[c][call[c].at]
Plan(c)     == Last(call[c].plans)

\* INSERT ... ON CONFLICT DO UPDATE, or an UPDATE or DELETE ... RETURNING.
Folded(op) == /\ Returning
              /\ op.plain
              /\ op.kind = "upsert" =>
                   ~op.conditional /\ ~op.filter /\ op.create = op.where

\* Does a read come first?
Locates(op) == /\ op.kind # "create"
               /\ Folded(op) => Interactive /\ op.kind # "upsert"

\* What an operation does about the row its locate found in t.
Arm(t, op, r) ==
  CASE op.kind = "create"                 -> "insert"
    [] op.kind = "upsert" /\ r = NoRow    -> "insert"
    [] op.kind = "upsert" /\ r # NoRow    ->
         IF op.conditional /\ ~t[r].flag THEN "skip" ELSE "update"
    [] op.kind \in {"update", "delete"}   -> IF r = NoRow THEN "missing" ELSE op.kind

PlanFor(t, op, r) == [row |-> r, arm |-> Arm(t, op, r)]
Unlocated(op) == [row |-> NoRow,
                  arm |-> IF op.kind = "create" THEN "insert" ELSE "folded"]

\* A bug: the create arm of an upsert has no racePin.
PinnedNever(op, p) == FALSE

\* Only a create arm chosen by a plain unique `where` has a racePin.
Pinned(op, p) == op.kind = "upsert" /\ p.arm = "insert" /\ ~op.filter

\* The rows a write addresses: those its `where` names, or the captured key.
ByWhere(op) == IF Interactive THEN op.kind = "upsert"
               ELSE op.kind = "delete" \/ Folded(op)
Targets(t, op, p) == IF ByWhere(op) THEN Selected(t, op)
                     ELSE {r \in Rows : r = p.row /\ t[r] # Absent}

\* The write of an arm, and what it answers.
Statement(t, op, p) ==
  LET hit == Targets(t, op, p)
      r   == CHOOSE x \in hit : TRUE IN
  CASE p.arm = "insert"                -> InsertRow(t, op)
    [] p.arm = "skip"                  -> [table |-> t, row |-> p.row, fate |-> "ok"]
    [] p.arm = "folded" /\ op.kind = "upsert" ->
         IF Holder(t, op.where) = {} THEN InsertRow(t, op)
         ELSE UpdateRow(t, op, CHOOSE x \in Holder(t, op.where) : TRUE)
    [] p.arm = "missing"               -> Refused(t, "notFound")
    [] OTHER -> IF hit = {} THEN Refused(t, IF Interactive THEN "notFound" ELSE "ok")
                ELSE IF op.kind = "delete" THEN DeleteRow(t, r)
                ELSE UpdateRow(t, op, r)
----------------------------------------------------------------------------
(* The guards of an operation in a batch: [op, rows, flagged, exists] holds *)
(* of a table when a row among `rows` does, or does not, match.             *)

Guard(op, rows, flagged, exists, why, raceable) ==
  [op |-> op, rows |-> rows, flagged |-> flagged, exists |-> exists,
   why |-> why, raceable |-> raceable]

GuardHolds(t, g) ==
  g.exists = (\E r \in Selected(t, g.op) \cap g.rows : g.flagged => t[r].flag)

\* The row is still the one the plan captured.
Found(op, p) == Guard(op, {p.row}, FALSE, TRUE, "notFound", FALSE)

\* A bug: a skip trusts what planning read.
GuardsOfWritesOnly(op, p) ==
  CASE op.kind = "delete" \/ (op.kind = "update" /\ Folded(op)) ->
         <<Guard(op, Rows, FALSE, TRUE, "notFound", FALSE)>>
    [] p.arm = "update" -> <<Found(op, p)>>
    [] OTHER -> <<>>

Guards(op, p) ==
  CASE op.kind = "delete" \/ (op.kind = "update" /\ Folded(op)) ->
         <<Guard(op, Rows, FALSE, TRUE, "notFound", FALSE)>>
    [] op.kind = "update" /\ ~Folded(op) -> <<Found(op, p)>>
    [] p.arm = "update" /\ op.kind = "upsert" ->
         IF op.conditional THEN <<Guard(op, {p.row}, TRUE, TRUE, "premise", FALSE)>>
         ELSE <<Found(op, p)>>
    [] p.arm = "skip" -> <<Found(op, p), Guard(op, {p.row}, TRUE, FALSE, "premise", TRUE)>>
    [] OTHER -> <<>>

\* An operation of a batch, behind its guards, after those before it.
Entry(run, op, p) ==
  LET guards == Guards(op, p)
      broken == {i \in DOMAIN guards : ~GuardHolds(run.table, guards[i])}
      next   == Statement(run.table, op, p) IN
  IF run.fate # "ok" THEN run
  ELSE IF broken # {} THEN [run EXCEPT !.fate = "guard", !.culprit = <<guards[Min(broken)]>>]
  ELSE IF next.fate # "ok" THEN [run EXCEPT !.fate = next.fate]
  ELSE [run EXCEPT !.table = next.table, !.rows = Append(@, next.row)]

\* One atomic batch: the operations in order.
BatchRun(t, ops, plans) ==
  LET upTo[i \in 0..Len(ops)] ==
        IF i = 0 THEN [table |-> t, rows |-> <<>>, fate |-> "ok", culprit |-> <<>>]
        ELSE Entry(upTo[i - 1], ops[i], plans[i])
  IN  upTo[Len(ops)]
----------------------------------------------------------------------------
(* The server: what a call sees, and whom its next statement waits for.     *)

View(c) == [r \in Rows |-> IF draft[c][r] = Same THEN table[r] ELSE draft[c][r]]

\* Callers whose uncommitted write puts a key's constraint in doubt.
Claims(c, k) ==
  {d \in Calls \ {c} :
     \E r \in Rows :
       LET committed == table[r] # Absent /\ table[r].key = k IN
         \/ draft[d][r] # Same /\ (committed \/ r \in Holder(View(d), k))
         \/ ~Returning /\ committed /\ lock[r] = d}

\* Whom a new entry of a key in the unique index waits for.
Entrants(c, k) == Claims(c, k) \cup (gap[k] \ {c})

Lockers(c, rows) == {lock[r] : r \in rows} \ {c, Nobody}

Blockers(c) ==
  LET op == Op(c)
      p  == Plan(c)
      found == Selected(View(c), op) IN
  CASE call[c].pc = "scan" /\ Locates(op) ->
         Lockers(c, found) \cup (IF Returning THEN {} ELSE Claims(c, op.where))
    [] call[c].pc = "scan" /\ ~Locates(op) ->
         Entrants(c, op.create) \cup
           (IF op.kind = "create" \/ found = {} THEN {}
            ELSE Lockers(c, found) \cup (IF op.to = op.where THEN {} ELSE Entrants(c, op.to)))
    [] call[c].pc = "wait" -> Lockers(c, {p.row})
    [] call[c].pc = "write" /\ p.arm = "insert" -> Entrants(c, op.create)
    [] call[c].pc = "write" /\ p.arm = "update" ->
         Lockers(c, Targets(View(c), op, p))
           \cup (IF op.to = op.where THEN {} ELSE Entrants(c, op.to))
    [] call[c].pc = "write" /\ p.arm = "delete" -> Lockers(c, Targets(View(c), op, p))
    [] OTHER -> {}

Unblocked(c) == Blockers(c) = {}

\* The calls that wait for each other, and for c.
Deadlocked(c) == \E S \in SUBSET Calls :
                   /\ c \in S
                   /\ \A d \in S : Blockers(d) \cap S # {}
                   /\ \A d \in S : \E e \in S : d \in Blockers(e)
----------------------------------------------------------------------------
Untouched == [r \in Rows |-> Same]

Init == /\ work \in Workloads
        /\ table = work.table
        /\ draft = [c \in Calls |-> Untouched]
        /\ lock = [r \in Rows |-> Nobody]
        /\ gap = [k \in Keys |-> {}]
        /\ call = [c \in Calls |->
                     [pc |-> IF work.ops[c] = <<>> THEN "done" ELSE "idle",
                      at |-> 1, attempt |-> 1,
                      plans |-> <<>>,      \* of the current operation, or of a batch
                      suspects |-> <<>>,   \* guards not yet probed
                      outcome |-> "none", rows |-> <<>>]]
        /\ holders = [c \in Calls |-> <<>>]

\* One direct statement runs without a transaction.
Direct(c) == Interactive /\ Single(c) /\ Folded(work.ops[c][1])

\* What a call leaves behind when its transaction ends.
Leave(c) == /\ draft' = [draft EXCEPT ![c] = Untouched]
            /\ lock' = [r \in Rows |-> IF lock[r] = c THEN Nobody ELSE lock[r]]
            /\ gap' = [k \in Keys |-> gap[k] \ {c}]

Begin(c) == /\ call[c].pc = "idle"
            /\ call' = [call EXCEPT ![c].pc = "scan"]
            /\ UNCHANGED <<table, draft, lock, gap>>

\* A bug: a failed operation leaves its transaction open.
RejectInTransaction(c, why) ==
  /\ call' = [call EXCEPT ![c].pc = "done", ![c].outcome = why]
  /\ UNCHANGED <<draft, lock, gap>>

\* The call is over with an error, and its transaction is rolled back.
Reject(c, why) ==
  /\ call' = [call EXCEPT ![c].pc = "done", ![c].outcome = why]
  /\ Leave(c)

\* A retryable race is run once more, from the read and in a new transaction.
Retry(c) ==
  /\ call' = [call EXCEPT ![c].pc = "scan", ![c].attempt = 2, ![c].plans = <<>>]
  /\ Leave(c)

\* Not so in a $transaction([...]).  A batch has no retry; and the failed
\* statement has made the transaction's scope rollback-only, so that the second
\* run ends with the same failure at its first statement.
Throw(c, why, raceable) ==
  IF raceable /\ Single(c) /\ call[c].attempt = 1 THEN Retry(c) ELSE Reject(c, why)
----------------------------------------------------------------------------
(* Drivers with transactions, statement by statement.                       *)

Take(c, r) ==
  /\ call' = [call EXCEPT ![c].pc = "write", ![c].plans = <<PlanFor(View(c), Op(c), r)>>]
  /\ lock' = IF r # NoRow THEN [lock EXCEPT ![r] = c] ELSE lock
  /\ gap' = IF r = NoRow /\ ~Returning THEN [gap EXCEPT ![Op(c).where] = @ \cup {c}] ELSE gap
  /\ UNCHANGED <<table, draft>>

\* SELECT ... FOR UPDATE.
Locate(c) ==
  /\ call[c].pc = "scan" /\ Interactive /\ Locates(Op(c))
  /\ Unblocked(c)
  /\ LET found == Selected(View(c), Op(c)) IN
       IF found = {} THEN Take(c, NoRow) ELSE \E r \in found : Take(c, r)

\* PostgreSQL waits for the row its snapshot found, and then looks at it again.
Wait(c) ==
  /\ call[c].pc = "scan" /\ Interactive /\ Locates(Op(c)) /\ Returning
  /\ ~Unblocked(c)
  /\ \E r \in Selected(View(c), Op(c)) :
       call' = [call EXCEPT ![c].pc = "wait", ![c].plans = <<[row |-> r, arm |-> "none"]>>]
  /\ UNCHANGED <<table, draft, lock, gap>>

Wake(c) ==
  /\ call[c].pc = "wait"
  /\ Unblocked(c)
  /\ Take(c, IF Plan(c).row \in Selected(View(c), Op(c)) THEN Plan(c).row ELSE NoRow)

\* A statement commits by itself when there is no transaction; else its rows stay
\* drafts, and the row it touched, changed or not, stays locked.
Keep(c, t, row) ==
  LET dirty == {r \in Rows : t[r] # View(c)[r]} IN
  IF Direct(c) THEN table' = t /\ Leave(c)
  ELSE /\ draft' = [draft EXCEPT ![c] = [r \in Rows |-> IF r \in dirty THEN t[r] ELSE @[r]]]
       /\ lock' = [r \in Rows |-> IF r \in dirty \cup {row} THEN c ELSE lock[r]]
       /\ gap' = [k \in Keys |-> gap[k] \cup {d \in {c} : \E r \in dirty : r \in Holder(t, k)}]
       /\ UNCHANGED table

\* The operation is done: on to the next, to COMMIT, or, if it ran directly, back
\* to the caller.
Advance(c, row) ==
  LET last == call[c].at = Len(work.ops[c]) IN
  call' = [call EXCEPT
    ![c].pc = IF ~last THEN "scan" ELSE IF Direct(c) THEN "done" ELSE "commit",
    ![c].outcome = IF Direct(c) THEN "ok" ELSE @,
    ![c].rows = Append(@, row),
    ![c].at = IF last THEN @ ELSE @ + 1]

Write(c) ==
  LET p    == IF Locates(Op(c)) THEN Plan(c) ELSE Unlocated(Op(c))
      done == Statement(View(c), Op(c), p) IN
  /\ Interactive
  /\ call[c].pc \in {"scan", "write"} /\ Locates(Op(c)) = (call[c].pc = "write")
  /\ Unblocked(c)
  /\ \/ /\ done.fate = "ok"
        /\ Keep(c, done.table, done.row)
        /\ Advance(c, done.row)
     \/ /\ done.fate # "ok"
        /\ Throw(c, done.fate, done.fate = "conflict" /\ Pinned(Op(c), p))
        /\ UNCHANGED table

\* The server breaks a deadlock; the failure counts as a race if the statement
\* carried a racePin.
Victim(c) ==
  /\ Interactive /\ Deadlocked(c)
  /\ Throw(c, "deadlock",
           call[c].pc = "write" /\ Pinned(Op(c), Plan(c)))
  /\ UNCHANGED table

Commit(c) == /\ call[c].pc = "commit"
             /\ table' = View(c)
             /\ call' = [call EXCEPT ![c].pc = "done", ![c].outcome = "ok"]
             /\ Leave(c)
----------------------------------------------------------------------------
(* Batch-only drivers: plan every operation, then send one atomic batch.    *)

PlanBatch(c) ==
  LET op == Op(c)
      found == Selected(table, op)
      last == call[c].at = Len(work.ops[c])
      Planned(p) == /\ call' = [call EXCEPT ![c].plans = Append(@, p),
                                            ![c].pc = IF last THEN "batch" ELSE @,
                                            ![c].at = IF last THEN @ ELSE @ + 1]
                    /\ UNCHANGED <<draft, lock, gap>> IN
  /\ call[c].pc = "scan" /\ ~Interactive
  /\ \/ ~Locates(op) /\ Planned(Unlocated(op))
     \/ /\ Locates(op)
        /\ LET p == PlanFor(table, op, IF found = {} THEN NoRow ELSE CHOOSE r \in found : TRUE) IN
             IF p.arm = "missing" THEN Reject(c, "notFound") ELSE Planned(p)
  /\ UNCHANGED table

\* A failed guard is known at once if the driver tells which statement failed.
RunBatch(c) ==
  LET run == BatchRun(table, work.ops[c], call[c].plans) IN
  /\ call[c].pc = "batch"
  /\ \/ /\ run.fate = "ok"
        /\ table' = run.table
        /\ call' = [call EXCEPT ![c].pc = "done", ![c].outcome = "ok", ![c].rows = run.rows]
        /\ UNCHANGED <<draft, lock, gap>>
     \/ /\ run.fate = "conflict"
        /\ Throw(c, "conflict", Pinned(work.ops[c][1], call[c].plans[1]))
        /\ UNCHANGED table
     \/ /\ run.fate = "guard"
        /\ \/ Throw(c, run.culprit[1].why, run.culprit[1].raceable)
           \/ /\ call' = [call EXCEPT ![c].pc = "blame",
                             ![c].suspects = FlattenSeq([i \in DOMAIN work.ops[c] |->
                                               Guards(work.ops[c][i], call[c].plans[i])])]
              /\ UNCHANGED <<draft, lock, gap>>
        /\ UNCHANGED table

\* A bug: the first guard is blamed unprobed.
BlameFirst(c) ==
  /\ call[c].pc = "blame" /\ call[c].suspects # <<>>
  /\ Throw(c, Head(call[c].suspects).why, Head(call[c].suspects).raceable)
  /\ UNCHANGED table

\* Else each guard is probed again, after the rollback.
Blame(c) ==
  LET g == Head(call[c].suspects) IN
  /\ call[c].pc = "blame"
  /\ \/ call[c].suspects = <<>> /\ Reject(c, "unattributed")
     \/ /\ call[c].suspects # <<>> /\ ~GuardHolds(table, g)
        /\ Throw(c, g.why, g.raceable)
     \/ /\ call[c].suspects # <<>> /\ GuardHolds(table, g)
        /\ call' = [call EXCEPT ![c].suspects = Tail(@)]
        /\ UNCHANGED <<draft, lock, gap>>
  /\ UNCHANGED table
----------------------------------------------------------------------------
\* The holders of a lone call's key, from its beginning to its answer.
History ==
  holders' = [c \in Calls |->
    IF call'[c].pc = "idle" \/ call[c].pc = "done" \/ ~Single(c) THEN holders[c]
    ELSE LET now == Holder(table', work.ops[c][1].where) IN
         IF holders[c] # <<>> /\ Last(holders[c]) = now THEN holders[c]
         ELSE Append(holders[c], now)]

Recorded(A) == A /\ History /\ UNCHANGED work

Step(c) == \/ Recorded(Begin(c))
           \/ Recorded(Locate(c))
           \/ Recorded(Wait(c))
           \/ Recorded(Wake(c))
           \/ Recorded(Write(c))
           \/ Recorded(Commit(c))
           \/ Recorded(PlanBatch(c))
           \/ Recorded(RunBatch(c))
           \/ Recorded(Blame(c))

Deadlock(c) == Recorded(Victim(c))

Next == \E c \in Calls : Step(c) \/ Deadlock(c)

Spec == Init /\ [][Next]_vars

\* Drivers answer, and a server breaks every deadlock.
FairSpec == Spec /\ \A c \in Calls : WF_vars(Step(c)) /\ WF_vars(Deadlock(c))
----------------------------------------------------------------------------
Plans == [row : Rows \cup {NoRow},
          arm : {"insert", "update", "delete", "skip", "missing", "folded", "none"}]

Premises == [op : Ops, rows : SUBSET (Rows \cup {NoRow}), flagged : BOOLEAN, exists : BOOLEAN,
             why : {"notFound", "premise"}, raceable : BOOLEAN]

CallStates == [pc : {"idle", "scan", "wait", "write", "commit", "batch", "blame", "done"},
               at : Nat \ {0}, attempt : {1, 2}, plans : Seq(Plans), suspects : Seq(Premises),
               outcome : {"none", "ok", "notFound", "conflict", "deadlock", "premise",
                          "unattributed"},
               rows : Seq(Rows \cup {NoRow})]

\* Every variable keeps to its type (the tables, what the server holds for each
\* transaction, and where each call is).
TypeOK ==
  /\ work \in Workloads
  /\ table \in Tables
  /\ draft \in [Calls -> [Rows -> Values \cup {Absent, Same}]]
  /\ lock \in [Rows -> Calls \cup {Nobody}]
  /\ gap \in [Keys -> SUBSET Calls]
  /\ call \in [Calls -> CallStates]
  /\ holders \in [Calls -> Seq(SUBSET Rows)]

\* What a caller knows.
Answered == [c \in Calls |->
               [status |-> IF call[c].outcome \in {"none", "ok"} THEN call[c].outcome ELSE "failed",
                rows |-> IF call[c].outcome = "ok" THEN call[c].rows ELSE <<>>]]

Atomic == INSTANCE AtomicWrites WITH answered <- Answered

\* A call that succeeds takes effect at one moment, as if its operations had run
\* then, alone and in order, and answers with the rows they touched; a call that
\* fails has no effect (the arms, locks, guards and pins of every operation).
ImplementsAtomicWrites == Atomic!AtomicSpec

\* A lone upsert that pins its premise fails with a conflict only if its key has
\* changed hands twice since it began: losing one race is not an error (racePin,
\* isRetryableRace, executeRoutedOperation).
ConflictOutlivesRetry ==
  \A c \in Calls :
    call[c].outcome = "conflict" /\ Single(c) =>
      LET op == work.ops[c][1] IN
        op.kind = "upsert" /\ ~op.filter /\ op.create = op.where /\ op.to = op.where
          => Len(holders[c]) >= 3

\* A lone call that reports a missing row is right: its key had no row at some
\* moment since the call began, or changed hands (guards and their attribution).
NotFoundIsTrue ==
  \A c \in Calls :
    call[c].outcome = "notFound" /\ Single(c) /\ ~work.ops[c][1].filter =>
      {} \in Range(holders[c]) \/ Len(holders[c]) > 1

\* Concurrent upserts never fail with a duplicate error.  They do in a
\* $transaction([...]), whose upserts are not retried (Throw).
UpsertsNeverConflict ==
  \A c \in Calls :
    call[c].outcome = "conflict" =>
      \E d \in Calls : \E i \in DOMAIN work.ops[d] : work.ops[d][i].kind # "upsert"

\* Every call is answered: locks are given back, deadlocks broken, retries bounded.
EveryCallIsAnswered == \A c \in Calls : call[c].pc # "idle" ~> call[c].pc = "done"
=============================================================================
