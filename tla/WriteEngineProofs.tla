-------------------------- MODULE WriteEngineProofs --------------------------
EXTENDS WriteEngine, NestedWrite, WellFoundedInduction, TLAPS

(***************************************************************************)
(* Sequences.  Induction on a bound, from the well-foundedness of <.       *)
(***************************************************************************)

LEMMA Least ==
  ASSUME NEW T, T \subseteq Nat, T # {}
  PROVE  \E n \in T : \A m \in T : ~(m < n)
  <1> DEFINE R == {ss \in Nat \X Nat : ss[1] < ss[2]}
  <1>1. IsWellFoundedOn(R, Nat)
    BY NatLessThanWellFounded, Zenon DEF OpToRel
  <1> HIDE DEF R
  <1>2. \E x \in T : \A y \in T : ~(<<y, x>> \in R)
    BY <1>1, WFMin, Zenon
  <1> QED BY <1>2 DEF R

LEMMA Induction ==
  ASSUME NEW S, NEW N \in Nat, 0 \in S, \A n \in 0..N : n \in S /\ n # N => n + 1 \in S
  PROVE  0..N \subseteq S
  <1> DEFINE T == {n \in 0..N : n \notin S}
  <1>1. SUFFICES ASSUME T # {} PROVE FALSE
    BY <1>1
  <1>2. T \subseteq Nat
    OBVIOUS
  <1>3. PICK n \in T : \A m \in T : ~(m < n)
    BY <1>1, <1>2, Least
  <1>4. n \in Nat /\ n # 0 /\ n - 1 \in 0..N /\ n - 1 # N /\ n - 1 < n /\ (n - 1) + 1 = n
    BY <1>3
  <1>5. n - 1 \in S
    BY <1>3, <1>4
  <1> QED BY <1>3, <1>4, <1>5

-----------------------------------------------------------------------------
(***************************************************************************)
(* Where a call is.                                                        *)
(***************************************************************************)

\* The plan of a located operation, by its arm.
PlanFits(op, p) ==
  /\ p.arm = "insert"  => op.kind = "upsert" /\ p.row = NoRow
  /\ p.arm = "missing" => op.kind \in {"update", "delete"} /\ p.row = NoRow
  /\ p.arm = "update"  => op.kind \in {"upsert", "update"} /\ p.row \in Rows
  /\ p.arm = "delete"  => op.kind = "delete" /\ p.row \in Rows
  /\ p.arm = "skip"    => op.kind = "upsert" /\ op.conditional /\ p.row \in Rows
  /\ p.arm \in {"insert", "missing", "update", "delete", "skip"}

\* What a batch has planned for an operation.
Planned(op, p) ==
  /\ p.arm # "missing"
  /\ IF Locates(op) THEN PlanFits(op, p) ELSE p = Unlocated(op)

\* A call in state s, that has written some rows.
Sane(c, s, written) ==
  LET ops == work.ops[c]
      op  == ops[s.at]
      p   == Last(s.plans) IN
  /\ s.pc # "done" => s.at \in DOMAIN ops /\ s.outcome = "none"
  /\ s.pc = "idle" => s.at = 1 /\ s.attempt = 1 /\ s.plans = <<>>
  /\ s.pc \in {"wait", "write", "commit"} => Interactive
  /\ s.pc \in {"batch", "blame"} => ~Interactive
  /\ s.pc = "wait" => Returning /\ Locates(op) /\ s.plans # <<>> /\ p.row \in Rows
  /\ s.pc = "write" => Locates(op) /\ s.plans # <<>> /\ PlanFits(op, p)
  /\ s.pc = "commit" => s.at = Len(ops)
  /\ ~Interactive /\ s.pc = "scan" => Len(s.plans) = s.at - 1
  /\ s.pc \in {"batch", "blame"} => Len(s.plans) = Len(ops)
  /\ ~Interactive => \A i \in 1..Len(s.plans) : Planned(ops[i], s.plans[i])
  /\ s.attempt = 2 => Len(ops) = 1 /\ ops[1].kind = "upsert"
  /\ s.pc # "commit" => s.at > 1 \/ written = Untouched
  /\ s.pc \notin {"commit", "done"} /\ s.at = 1 => s.rows = <<>>
  /\ s.pc = "blame" /\ Len(ops) = 1 => s.suspects \in Seq(Range(Guards(ops[1], s.plans[1])))

CallInv == \A c \in Calls : Sane(c, call[c], draft[c])
-----------------------------------------------------------------------------
(***************************************************************************)
(* The server: rows, locks and keys.                                       *)
(***************************************************************************)

\* A table as a transaction sees it, with the rows it has written.
Seen(t, written) == [r \in Rows |-> IF written[r] = Same THEN t[r] ELSE written[r]]

\* A row written and not committed is locked, and new ones are its writer's.
Own(w, t, dr, lk) ==
  \A c \in Calls, r \in Rows :
    dr[c][r] # Same => lk[r] = c /\ (t[r] = Absent => r \in Created(w.ops[c]))

\* What is locked is there.
Present(t, dr, lk) ==
  \A c \in Calls, r \in Rows : lk[r] = c /\ t[r] = Absent => dr[c][r] # Same

\* The table that each call sees keeps the unique constraint, and will, whoever
\* else commits.
UniqueViews(t, dr) == UniqueKeys(t) /\ \A c \in Calls : UniqueKeys(Seen(t, dr[c]))
OwnKeys(dr) ==
  \A c, d \in Calls, r, s \in Rows :
    c # d /\ dr[c][r] \notin {Same, Absent} /\ dr[d][s] \notin {Same, Absent}
      => dr[c][r].key # dr[d][s].key

Server(w, t, dr, lk) ==
  Own(w, t, dr, lk) /\ Present(t, dr, lk) /\ UniqueViews(t, dr) /\ OwnKeys(dr)

\* A conditional upsert goes by the flag of its row.
ByFlag(flag, op, p) == /\ p.arm = "skip" => ~flag
                       /\ p.arm = "update" /\ op.kind = "upsert" /\ op.conditional => flag

\* The row a plan found is locked, and still what it was.
Chosen(c) ==
  call[c].pc = "write" /\ Plan(c).row # NoRow =>
    /\ lock[Plan(c).row] = c
    /\ Plan(c).row \in Selected(View(c), Op(c))
    /\ ByFlag(View(c)[Plan(c).row].flag, Op(c), Plan(c))

\* A batch is planned without a transaction.
Unheld == (\A c \in Calls : draft[c] = Untouched) /\ (\A r \in Rows : lock[r] = Nobody)

\* But on InnoDB, only a writer holds places in the unique index.
EntriesOnly == Returning =>
  \A c \in Calls, k \in Keys : c \in gap[k] => draft[c] # Untouched

ServerInv == /\ Server(work, table, draft, lock)
             /\ \A c \in Calls : Chosen(c)
             /\ ~Interactive => Unheld
             /\ EntriesOnly
-----------------------------------------------------------------------------
(***************************************************************************)
(* Lone calls.                                                             *)
(***************************************************************************)

Lone(c) == call[c].pc # "done" /\ Single(c)
LoneOp(c) == work.ops[c][1]

\* The history of its key ends with the present.
HoldersInv ==
  \A c \in Calls : Lone(c) /\ call[c].pc # "idle" =>
    holders[c] # <<>> /\ Last(holders[c]) = Holder(table, LoneOp(c).where)

\* A row that it may insert is not there.
FreshInv == \A c \in Calls : Lone(c) => \A r \in Created(work.ops[c]) : table[r] = Absent

\* It has locked nothing when it has found nothing; but on InnoDB the absence.
Empty(c) == \A d \in Calls : Holder(View(d), LoneOp(c).where) = {}
Absence(c) ==
  Lone(c) /\ (call[c].pc \in {"idle", "scan", "wait"}
              \/ (call[c].pc = "write" /\ Plan(c).row = NoRow)) =>
    /\ \A r \in Rows : lock[r] # c
    /\ call[c].pc = "write" /\ ~Returning /\ ~LoneOp(c).filter =>
         c \in gap[LoneOp(c).where] /\ Empty(c)

\* What it has chosen, in state s, was so, or its key has changed hands since, by
\* its history h.  The turns of a second attempt are counted where the first lost
\* a race for the same key.
OwnPremise(op) == op.kind = "upsert" /\ ~op.filter /\ op.create = op.where /\ op.to = op.where
Counted(c, s) == s.attempt = 2 => work.on # "innodb" /\ OwnPremise(LoneOp(c))
InPlay(c, s) == s.pc \notin {"idle", "done"} /\ Single(c) /\ ~LoneOp(c).filter

Choice(c, s, h) ==
  LET p == Last(s.plans) IN
  InPlay(c, s) =>
    /\ Counted(c, s) =>
         /\ s.pc = "wait" => p.row \in Last(h) \/ Len(h) > s.attempt
         /\ s.pc \in {"write", "batch", "blame"}
            /\ (p.arm = "missing" \/ (p.arm = "insert" /\ LoneOp(c).kind = "upsert")) =>
              Last(h) = {} \/ Len(h) > s.attempt
         /\ s.attempt = 2 => Len(h) > 1 \/ (~Interactive /\ Last(h) # {})
    /\ s.pc \in {"batch", "blame"} /\ p.row # NoRow => p.row \in Last(h) \/ Len(h) > 1

LoneInv == /\ HoldersInv
           /\ FreshInv
           /\ \A c \in Calls : Absence(c) /\ Choice(c, call[c], holders[c])
-----------------------------------------------------------------------------
(***************************************************************************)
(* Statements.                                                             *)
(***************************************************************************)

\* The rows a statement may change.
Hit(t, op, p) == IF p.arm = "folded" /\ op.kind = "upsert" THEN Holder(t, op.where)
                 ELSE Targets(t, op, p)

Inserts(t, op, s) == /\ op.kind \in {"create", "upsert"} /\ op.row \in Rows
                     /\ t[op.row] = Absent /\ Holder(t, op.create) = {}
                     /\ s.table = [t EXCEPT ![op.row] = [key |-> op.create, flag |-> op.flag]]
                     /\ s.row = op.row /\ s.fate = "ok"
Updates(t, op, r, s) == /\ op.kind \in {"upsert", "update"} /\ r \in Rows
                        /\ Holder(t, op.to) \ {r} = {}
                        /\ s.table = [t EXCEPT ![r] = [key |-> op.to, flag |-> op.flag]]
                        /\ s.row = r /\ s.fate = "ok"
Deletes(t, op, r, s) == /\ op.kind = "delete" /\ r \in Rows
                        /\ s.table = [t EXCEPT ![r] = Absent]
                        /\ s.row = r /\ s.fate = "ok"

\* The plans a statement is given.
Given(op, p) == IF Locates(op) THEN PlanFits(op, p) ELSE p = Unlocated(op)

LEMMA HitIsThere ==
  ASSUME NEW t \in Tables, NEW op \in Ops, NEW p
  PROVE  \A r \in Hit(t, op, p) : r \in Rows /\ t[r] # Absent
  BY DEF Hit, Targets, Selected, Holder

LEMMA UpdateCases ==
  ASSUME NEW t \in Tables, NEW op \in Ops, op.kind \in {"upsert", "update"}, NEW r \in Rows,
         NEW s, s = UpdateRow(t, op, r)
  PROVE  \/ Updates(t, op, r, s)
         \/ /\ s.table = t /\ s.fate = "conflict" /\ s.row = NoRow
            /\ Holder(t, op.to) \ {r} # {}
  <1>1. CASE Holder(t, op.to) \ {r} # {}
    <2>1. s = [table |-> t, row |-> NoRow, fate |-> "conflict"]
      BY <1>1 DEF UpdateRow, Refused
    <2> QED BY <1>1, <2>1
  <1>2. CASE Holder(t, op.to) \ {r} = {}
    <2>1. s = [table |-> [t EXCEPT ![r] = [key |-> op.to, flag |-> op.flag]],
               row |-> r, fate |-> "ok"]
      BY <1>2 DEF UpdateRow
    <2>2. /\ s.table = [t EXCEPT ![r] = [key |-> op.to, flag |-> op.flag]]
          /\ s.row = r /\ s.fate = "ok"
      BY <2>1
    <2> QED BY <1>2, <2>2 DEF Updates
  <1> QED BY <1>1, <1>2

LEMMA StatementCases ==
  ASSUME NEW t \in Tables, NEW op \in Ops, NEW p \in Plans, Given(op, p),
         op.kind \in {"create", "upsert"} => op.row \in Rows,
         NEW s, s = Statement(t, op, p)
  PROVE  \/ /\ s.table = t /\ s.fate = "notFound" /\ s.row = NoRow
            /\ \/ p.arm = "missing"
               \/ Interactive /\ Hit(t, op, p) = {} /\ p.arm \in {"update", "delete"}
         \/ /\ s.table = t /\ s.fate = "ok" /\ s.row = NoRow /\ ~Interactive
            /\ Hit(t, op, p) = {} /\ p.arm \in {"folded", "update", "delete"}
            /\ op.kind # "create" /\ (p.arm = "folded" => op.kind # "upsert")
         \/ s.table = t /\ s.fate = "ok" /\ s.row = p.row /\ p.arm = "skip"
         \/ /\ s.table = t /\ s.fate = "conflict" /\ s.row = NoRow
            /\ \/ /\ \/ p.arm = "insert"
                     \/ p.arm = "folded" /\ op.kind = "upsert" /\ Holder(t, op.where) = {}
                  /\ Holder(t, op.create) # {} \/ t[op.row] # Absent
               \/ \E r \in Hit(t, op, p) : Holder(t, op.to) \ {r} # {} /\ p.arm # "insert"
         \/ /\ Inserts(t, op, s)
            /\ p.arm = "insert" \/ (p.arm = "folded" /\ Holder(t, op.where) = {})
         \/ \E r \in Hit(t, op, p) : Updates(t, op, r, s) /\ p.arm \in {"update", "folded"}
         \/ \E r \in Hit(t, op, p) : Deletes(t, op, r, s) /\ p.arm \in {"delete", "folded"}
  <1>1. op.kind \in {"create", "upsert", "update", "delete"}
    BY DEF Ops
  <1>2. Hit(t, op, p) \subseteq Rows
    BY HitIsThere
  <1>3. \A why : Refused(t, why).table = t /\ Refused(t, why).row = NoRow /\ Refused(t, why).fate = why
    BY DEF Refused
  <1>4. CASE p.arm = "insert"
    <2>1. op.kind \in {"create", "upsert"}
      BY <1>4 DEF Given, PlanFits, Unlocated
    <2>2. s = InsertRow(t, op)
      BY <1>4 DEF Statement
    <2> QED BY <1>3, <1>4, <2>1, <2>2 DEF InsertRow, Inserts
  <1>5. CASE p.arm = "skip"
    BY <1>5 DEF Statement
  <1>6. CASE p.arm = "missing"
    BY <1>3, <1>6 DEF Statement
  <1>7. CASE p.arm = "folded" /\ op.kind = "upsert"
    <2>1. Hit(t, op, p) = Holder(t, op.where)
      BY <1>7 DEF Hit
    <2>2. CASE Holder(t, op.where) = {}
      <3>1. s = InsertRow(t, op)
        BY <1>7, <2>2 DEF Statement
      <3> QED BY <1>3, <1>7, <2>2, <3>1 DEF InsertRow, Inserts
    <2>3. CASE Holder(t, op.where) # {}
      <3> DEFINE r == CHOOSE x \in Holder(t, op.where) : TRUE
      <3>1. s = UpdateRow(t, op, r)
        BY <1>7, <2>3 DEF Statement
      <3>2. r \in Hit(t, op, p) /\ r \in Rows
        BY <1>2, <2>1, <2>3
      <3> HIDE DEF r
      <3> QED BY <1>7, <3>1, <3>2, UpdateCases
    <2> QED BY <2>2, <2>3
  <1>8. CASE p.arm \in {"update", "delete"} \/ (p.arm = "folded" /\ op.kind # "upsert")
    <2> DEFINE hit == Targets(t, op, p)
               r == CHOOSE x \in hit : TRUE
    <2>1. hit = Hit(t, op, p)
      BY <1>8 DEF Hit
    <2>2. s = IF hit = {} THEN Refused(t, IF Interactive THEN "notFound" ELSE "ok")
              ELSE IF op.kind = "delete" THEN DeleteRow(t, r) ELSE UpdateRow(t, op, r)
      BY <1>8 DEF Statement
    <2>3. op.kind # "create" /\ (p.arm = "folded" => ~Interactive)
      <3>1. ~Locates(op) => p = Unlocated(op)
        BY DEF Given
      <3>2. p = Unlocated(op) => (op.kind = "create" => p.arm = "insert")
                                 /\ (op.kind # "create" => p.arm = "folded")
        BY DEF Unlocated
      <3>3. Locates(op) => op.kind # "create" /\ p.arm # "folded"
        BY DEF Given, PlanFits, Locates
      <3>4. ~Locates(op) /\ op.kind \in {"update", "delete"} => ~Interactive
        BY DEF Locates
      <3> QED BY <1>1, <1>8, <3>1, <3>2, <3>3, <3>4
    <2>4. p.arm = "update" => op.kind \in {"upsert", "update"}
      BY DEF Given, PlanFits, Unlocated
    <2>5. p.arm = "delete" => op.kind = "delete"
      BY DEF Given, PlanFits, Unlocated
    <2>6. CASE hit = {}
      <3> QED BY <1>3, <1>8, <2>1, <2>2, <2>3, <2>6
    <2>7. CASE hit # {} /\ op.kind = "delete"
      <3>1. r \in Hit(t, op, p) /\ r \in Rows
        BY <1>2, <2>1, <2>7
      <3>2. s = DeleteRow(t, r) /\ p.arm \in {"delete", "folded"}
        BY <1>8, <2>2, <2>4, <2>7
      <3> HIDE DEF r, hit
      <3>3. Deletes(t, op, r, s)
        BY <2>7, <3>1, <3>2 DEF DeleteRow, Deletes
      <3> QED BY <3>1, <3>2, <3>3
    <2>8. CASE hit # {} /\ op.kind # "delete"
      <3>1. r \in Hit(t, op, p) /\ r \in Rows
        BY <1>2, <2>1, <2>8
      <3>2. op.kind \in {"upsert", "update"} /\ p.arm \in {"update", "folded"}
        BY <1>1, <1>8, <2>3, <2>5, <2>8
      <3>3. s = UpdateRow(t, op, r)
        BY <2>2, <2>8
      <3>4. p.arm # "insert"
        BY <1>8
      <3> HIDE DEF r, hit
      <3> QED BY <3>1, <3>2, <3>3, <3>4, UpdateCases
    <2> QED BY <2>6, <2>7, <2>8
  <1>9. p.arm \in {"insert", "skip", "missing", "folded", "update", "delete"}
    BY DEF Given, PlanFits, Unlocated
  <1> QED BY <1>4, <1>5, <1>6, <1>7, <1>8, <1>9
-----------------------------------------------------------------------------
(***************************************************************************)
(* Types.                                                                  *)
(***************************************************************************)

LEMMA ViewType ==
  ASSUME TypeOK, NEW c \in Calls
  PROVE  View(c) \in Tables /\ View(c) = Seen(table, draft[c])
  <1>1. draft[c] \in [Rows -> Values \cup {Absent, Same}] /\ table \in [Rows -> Values \cup {Absent}]
    BY DEF TypeOK, Tables
  <1>2. \A r \in Rows : (IF draft[c][r] = Same THEN table[r] ELSE draft[c][r]) \in Values \cup {Absent}
    BY <1>1
  <1> QED BY <1>2 DEF View, Tables, Seen

LEMMA OpType ==
  ASSUME TypeOK, NEW c \in Calls
  PROVE  /\ work.ops[c] \in Seq(Ops) /\ Len(work.ops[c]) \in Nat
         /\ DOMAIN work.ops[c] = 1..Len(work.ops[c])
         /\ \A i \in DOMAIN work.ops[c] :
              /\ work.ops[c][i] \in Ops
              /\ work.ops[c][i].kind \in {"create", "upsert"} =>
                   work.ops[c][i].row \in Rows /\ work.ops[c][i].row \in Created(work.ops[c])
  <1>1. work \in Workloads
    BY DEF TypeOK
  <1>2. work.ops[c] \in Seq(Ops) /\ \A r \in Created(work.ops[c]) : r \in Rows
    BY <1>1, WorkloadsAssumption
  <1>3. /\ Len(work.ops[c]) \in Nat /\ DOMAIN work.ops[c] = 1..Len(work.ops[c])
        /\ \A i \in DOMAIN work.ops[c] : work.ops[c][i] \in Ops
    BY <1>2
  <1>4. ASSUME NEW i \in DOMAIN work.ops[c], work.ops[c][i].kind \in {"create", "upsert"}
        PROVE  work.ops[c][i].row \in Created(work.ops[c])
    BY <1>4 DEF Created, Range
  <1> QED BY <1>2, <1>3, <1>4

LEMMA PlanType ==
  ASSUME NEW t \in Tables, NEW op \in Ops, NEW r \in Rows \cup {NoRow}, Locates(op),
         NEW p, p = PlanFor(t, op, r)
  PROVE  /\ p \in Plans /\ PlanFits(op, p) /\ p.row = r
         /\ r # NoRow => ByFlag(t[r].flag, op, p)
         /\ r = NoRow => p.arm \in {"insert", "missing"}
  <1>1. p = [row |-> r, arm |-> Arm(t, op, r)] /\ op.kind \in {"upsert", "update", "delete"}
    BY DEF PlanFor, Locates, Ops
  <1>2. p.row = r /\ p.arm = Arm(t, op, r)
    BY <1>1
  <1>3. CASE op.kind = "upsert" /\ r = NoRow
    <2>1. p.arm = "insert"
      BY <1>2, <1>3 DEF Arm
    <2> QED BY <1>1, <1>2, <1>3, <2>1 DEF Plans, PlanFits
  <1>4. CASE op.kind = "upsert" /\ r # NoRow
    <2>1. p.arm = IF op.conditional /\ ~t[r].flag THEN "skip" ELSE "update"
      BY <1>2, <1>4 DEF Arm
    <2> QED BY <1>1, <1>2, <1>4, <2>1 DEF Plans, PlanFits, ByFlag
  <1>5. CASE op.kind \in {"update", "delete"}
    <2>1. p.arm = IF r = NoRow THEN "missing" ELSE op.kind
      BY <1>2, <1>5 DEF Arm
    <2> QED BY <1>1, <1>2, <1>5, <2>1 DEF Plans, PlanFits, ByFlag
  <1> QED BY <1>1, <1>3, <1>4, <1>5

LEMMA UnlocatedType ==
  ASSUME NEW op, NEW p, p = Unlocated(op)
  PROVE  p \in Plans /\ p.row = NoRow /\ p.arm \in {"insert", "folded"}
         /\ (p.arm = "insert" <=> op.kind = "create")
  BY DEF Unlocated, Plans

\* What a guard of a plan can be.
GuardOf(op, p, g) ==
  \/ g = Guard(op, Rows, FALSE, TRUE, "notFound", FALSE) /\ op.kind \in {"update", "delete"}
  \/ g = Found(op, p) /\ op.kind # "delete" /\ p.row \in Rows
  \/ g = Guard(op, {p.row}, TRUE, TRUE, "premise", FALSE)
  \/ g = Guard(op, {p.row}, TRUE, FALSE, "premise", TRUE) /\ op.kind = "upsert"

\* One of the guards in q asks for row r.
Insists(q, op, r) == \E i \in DOMAIN q : q[i].op = op /\ q[i].rows = {r} /\ q[i].exists = TRUE

LEMMA GuardsType ==
  ASSUME NEW op \in Ops, NEW p \in Plans, p.arm # "missing", Given(op, p), ~Interactive,
         NEW q, q = Guards(op, p)
  PROVE  /\ q \in Seq(Premises)
         /\ \A g \in Range(q) : GuardOf(op, p, g)
         /\ p.arm \in {"insert", "folded"} /\ op.kind \in {"create", "upsert"} => q = <<>>
         /\ p.arm = "update" => Insists(q, op, p.row)
  <1>1. /\ p.row \in Rows \cup {NoRow} /\ op.kind \in {"create", "upsert", "update", "delete"}
        /\ op.conditional \in BOOLEAN
    BY DEF Plans, Ops
  <1> DEFINE g1 == Guard(op, Rows, FALSE, TRUE, "notFound", FALSE)
             g2 == Guard(op, {p.row}, FALSE, TRUE, "notFound", FALSE)
             g3 == Guard(op, {p.row}, TRUE, TRUE, "premise", FALSE)
             g4 == Guard(op, {p.row}, TRUE, FALSE, "premise", TRUE)
  <1>2. g1 \in Premises /\ g2 \in Premises /\ g3 \in Premises /\ g4 \in Premises
    BY <1>1 DEF Guard, Premises
  <1>3. g2.op = op /\ g2.rows = {p.row} /\ g2.exists = TRUE /\ g3.op = op /\ g3.rows = {p.row}
        /\ g3.exists = TRUE
    BY DEF Guard
  <1>4. /\ p.arm = "insert" => op.kind \in {"upsert", "create"}
        /\ p.arm = "update"  => op.kind \in {"upsert", "update"} /\ p.row \in Rows
        /\ p.arm = "delete"  => op.kind = "delete"
        /\ p.arm = "skip"    => op.kind = "upsert" /\ p.row \in Rows
        /\ p.arm = "folded"  => op.kind # "create" /\ ~Locates(op)
        /\ p.arm \in {"insert", "update", "delete", "skip", "folded"}
    BY DEF Given, PlanFits, Unlocated, Locates
  <1>5. Found(op, p) = g2
    BY DEF Found
  <1>6. p.arm = "folded" => Folded(op)
    BY <1>1, <1>4 DEF Locates
  <1> HIDE DEF g1, g2, g3, g4
  <1>7. /\ g1 = Guard(op, Rows, FALSE, TRUE, "notFound", FALSE)
        /\ g2 = Guard(op, {p.row}, FALSE, TRUE, "notFound", FALSE)
        /\ g3 = Guard(op, {p.row}, TRUE, TRUE, "premise", FALSE)
        /\ g4 = Guard(op, {p.row}, TRUE, FALSE, "premise", TRUE)
    BY DEF g1, g2, g3, g4
  <1>8. CASE op.kind = "delete" \/ (op.kind = "update" /\ Folded(op))
    <2>1. q = <<g1>> /\ q \in Seq(Premises) /\ Range(q) = {g1}
      <3>1. q = <<g1>>
        BY <1>4, <1>7, <1>8 DEF Guards
      <3> QED BY <1>2, <3>1 DEF Range
    <2>2. GuardOf(op, p, g1)
      BY <1>7, <1>8 DEF GuardOf
    <2>3. p.arm # "update"
      <3>1. p.arm = "update" => Locates(op)
        BY DEF Given, Unlocated
      <3>2. Locates(op) => ~Folded(op)
        BY DEF Locates
      <3> QED BY <1>4, <1>8, <3>1, <3>2
    <2> QED BY <2>1, <2>2, <2>3, <1>4, <1>8
  <1>9. CASE op.kind = "update" /\ ~Folded(op)
    <2>1. q = <<g2>> /\ q \in Seq(Premises) /\ Range(q) = {g2}
      <3>1. q = <<g2>>
        BY <1>4, <1>5, <1>9 DEF Guards
      <3> QED BY <1>2, <3>1 DEF Range
    <2>2. GuardOf(op, p, g2)
      BY <1>4, <1>5, <1>6, <1>9 DEF GuardOf
    <2>3. 1 \in DOMAIN q /\ q[1] = g2
      BY <2>1
    <2> QED BY <2>1, <2>2, <2>3, <1>3, <1>4, <1>9 DEF Insists
  <1>10. CASE p.arm = "update" /\ op.kind = "upsert"
    <2>1. CASE op.conditional
      <3>1. q = <<g3>> /\ q \in Seq(Premises) /\ Range(q) = {g3}
        <4>1. q = <<g3>>
          BY <1>4, <1>7, <1>10, <2>1 DEF Guards
        <4> QED BY <1>2, <4>1 DEF Range
      <3>2. GuardOf(op, p, g3)
        BY <1>7 DEF GuardOf
      <3>3. 1 \in DOMAIN q /\ q[1] = g3
        BY <3>1
      <3> QED BY <3>1, <3>2, <3>3, <1>3, <1>10 DEF Insists
    <2>2. CASE ~op.conditional
      <3>1. q = <<g2>> /\ q \in Seq(Premises) /\ Range(q) = {g2}
        <4>1. q = <<g2>>
          BY <1>4, <1>5, <1>10, <2>2 DEF Guards
        <4> QED BY <1>2, <4>1 DEF Range
      <3>2. GuardOf(op, p, g2)
        BY <1>4, <1>5, <1>10 DEF GuardOf
      <3>3. 1 \in DOMAIN q /\ q[1] = g2
        BY <3>1
      <3> QED BY <3>1, <3>2, <3>3, <1>3, <1>10 DEF Insists
    <2> QED BY <2>1, <2>2
  <1>11. CASE p.arm = "skip"
    <2>1. q = <<g2, g4>> /\ q \in Seq(Premises) /\ Range(q) = {g2, g4}
      <3>1. q = <<g2, g4>>
        BY <1>4, <1>5, <1>7, <1>11 DEF Guards
      <3> QED BY <1>2, <3>1 DEF Range
    <2>2. GuardOf(op, p, g2) /\ GuardOf(op, p, g4)
      BY <1>4, <1>5, <1>7, <1>11 DEF GuardOf
    <2> QED BY <2>1, <2>2, <1>4, <1>11
  <1>12. CASE op.kind \in {"create", "upsert"} /\ p.arm \in {"insert", "folded"}
    <2>1. q = <<>>
      BY <1>12 DEF Guards
    <2> QED BY <2>1, <1>12 DEF Range
  <1> QED BY <1>1, <1>4, <1>8, <1>9, <1>10, <1>11, <1>12
-----------------------------------------------------------------------------
(***************************************************************************)
(* A statement keeps the types and the unique constraint, and makes no row *)
(* but its own.                                                            *)
(***************************************************************************)

LEMMA StatementType ==
  ASSUME NEW t \in Tables, NEW op \in Ops, NEW p \in Plans, Given(op, p),
         op.kind \in {"create", "upsert"} => op.row \in Rows,
         NEW s, s = Statement(t, op, p)
  PROVE  /\ s.table \in Tables /\ s.row \in Rows \cup {NoRow}
         /\ s.fate \in {"ok", "notFound", "conflict"}
         /\ UniqueKeys(t) => UniqueKeys(s.table)
         /\ \A r \in Rows : s.table[r] # Absent /\ t[r] = Absent =>
              r = op.row /\ op.kind \in {"create", "upsert"}
  <1>1. op.create \in Keys /\ op.to \in Keys /\ op.flag \in BOOLEAN
    BY DEF Ops
  <1>2. \A k \in Keys : [key |-> k, flag |-> op.flag] \in Values
    BY <1>1 DEF Values
  <1>3. Absent \notin Values
    BY MarkersAssumption
  <1>4. p.row \in Rows \cup {NoRow}
    BY DEF Plans
  <1>5. CASE s.table = t /\ s.row \in {NoRow, p.row} /\ s.fate \in {"ok", "notFound", "conflict"}
    BY <1>4, <1>5
  <1>6. CASE Inserts(t, op, s)
    <2>1. /\ op.row \in Rows /\ op.kind \in {"create", "upsert"} /\ Holder(t, op.create) = {}
          /\ s.table = [t EXCEPT ![op.row] = [key |-> op.create, flag |-> op.flag]]
          /\ s.row = op.row /\ s.fate = "ok"
      BY <1>6 DEF Inserts
    <2>2. s.table \in Tables
      BY <1>1, <1>2, <2>1 DEF Tables
    <2>3. \A r \in Rows : s.table[r] = IF r = op.row THEN [key |-> op.create, flag |-> op.flag] ELSE t[r]
      BY <2>1 DEF Tables
    <2>4. UniqueKeys(t) => UniqueKeys(s.table)
      BY <2>1, <2>3 DEF UniqueKeys, Holder
    <2> QED BY <2>1, <2>2, <2>3, <2>4
  <1>7. ASSUME NEW x \in Rows, Updates(t, op, x, s), t[x] # Absent
        PROVE  /\ s.table \in Tables
               /\ UniqueKeys(t) => UniqueKeys(s.table)
               /\ s.row \in Rows /\ s.fate = "ok"
               /\ \A r \in Rows : s.table[r] # Absent => t[r] # Absent
    <2>1. /\ Holder(t, op.to) \ {x} = {} /\ s.row = x /\ s.fate = "ok"
          /\ s.table = [t EXCEPT ![x] = [key |-> op.to, flag |-> op.flag]]
      BY <1>7 DEF Updates
    <2>2. s.table \in Tables
      BY <1>1, <1>2, <2>1 DEF Tables
    <2>3. \A r \in Rows : s.table[r] = IF r = x THEN [key |-> op.to, flag |-> op.flag] ELSE t[r]
      BY <2>1 DEF Tables
    <2>4. UniqueKeys(t) => UniqueKeys(s.table)
      BY <1>7, <2>1, <2>3 DEF UniqueKeys, Holder
    <2> QED BY <1>7, <2>1, <2>2, <2>3, <2>4
  <1>8. ASSUME NEW x \in Rows, Deletes(t, op, x, s)
        PROVE  /\ s.table \in Tables
               /\ UniqueKeys(t) => UniqueKeys(s.table)
               /\ s.row \in Rows /\ s.fate = "ok"
               /\ \A r \in Rows : s.table[r] # Absent => t[r] # Absent
    <2>1. s.row = x /\ s.fate = "ok" /\ s.table = [t EXCEPT ![x] = Absent]
      BY <1>8 DEF Deletes
    <2>2. s.table \in Tables
      BY <2>1 DEF Tables
    <2>3. \A r \in Rows : s.table[r] = IF r = x THEN Absent ELSE t[r]
      BY <2>1 DEF Tables
    <2>4. UniqueKeys(t) => UniqueKeys(s.table)
      BY <2>3 DEF UniqueKeys
    <2> QED BY <2>1, <2>2, <2>3, <2>4
  <1>9. \A r \in Hit(t, op, p) : r \in Rows /\ t[r] # Absent
    BY HitIsThere
  <1>10. \/ s.table = t /\ s.row \in {NoRow, p.row} /\ s.fate \in {"ok", "notFound", "conflict"}
         \/ Inserts(t, op, s)
         \/ \E r \in Hit(t, op, p) : Updates(t, op, r, s)
         \/ \E r \in Hit(t, op, p) : Deletes(t, op, r, s)
    <2> HIDE DEF Inserts, Updates, Deletes, Hit, Given
    <2> QED BY StatementCases
  <1>11. CASE \E r \in Hit(t, op, p) : Updates(t, op, r, s)
    BY <1>7, <1>9, <1>11
  <1>12. CASE \E r \in Hit(t, op, p) : Deletes(t, op, r, s)
    BY <1>8, <1>9, <1>12
  <1> QED BY <1>5, <1>6, <1>10, <1>11, <1>12

-----------------------------------------------------------------------------
(***************************************************************************)
(* A batch.                                                                *)
(***************************************************************************)

Outcomes == [table : Tables, rows : Seq(Rows \cup {NoRow}), fate : {"ok", "conflict", "guard"},
             culprit : Seq(Premises)]
Started(t) == [table |-> t, rows |-> <<>>, fate |-> "ok", culprit |-> <<>>]

LEMMA Earliest ==
  ASSUME NEW q, NEW S, q \in Seq(S), NEW T \in SUBSET DOMAIN q, T # {}
  PROVE  Min(T) \in T
  <1>1. T \subseteq Nat
    OBVIOUS
  <1>2. PICK n \in T : \A m \in T : ~(m < n)
    BY <1>1, Least
  <1>3. \A m \in T : n <= m
    BY <1>1, <1>2
  <1> QED BY <1>2, <1>3 DEF Min

LEMMA EntryCases ==
  ASSUME NEW run \in Outcomes, NEW op \in Ops, NEW p \in Plans, ~Interactive, Planned(op, p),
         op.kind \in {"create", "upsert"} => op.row \in Rows,
         NEW s, s = Entry(run, op, p), NEW next, next = Statement(run.table, op, p)
  PROVE  \/ run.fate # "ok" /\ s = run
         \/ \E g \in Range(Guards(op, p)) :
              /\ run.fate = "ok" /\ ~GuardHolds(run.table, g)
              /\ s = [table |-> run.table, rows |-> run.rows, fate |-> "guard", culprit |-> <<g>>]
         \/ /\ run.fate = "ok" /\ next.fate = "conflict"
            /\ \A g \in Range(Guards(op, p)) : GuardHolds(run.table, g)
            /\ s = [table |-> run.table, rows |-> run.rows, fate |-> "conflict",
                    culprit |-> run.culprit]
         \/ /\ run.fate = "ok" /\ next.fate = "ok"
            /\ \A g \in Range(Guards(op, p)) : GuardHolds(run.table, g)
            /\ s = [table |-> next.table, rows |-> Append(run.rows, next.row), fate |-> "ok",
                    culprit |-> run.culprit]
  <1> DEFINE guards == Guards(op, p)
             broken == {i \in DOMAIN guards : ~GuardHolds(run.table, guards[i])}
  <1>1. s = IF run.fate # "ok" THEN run
            ELSE IF broken # {} THEN [run EXCEPT !.fate = "guard", !.culprit = <<guards[Min(broken)]>>]
            ELSE IF next.fate # "ok" THEN [run EXCEPT !.fate = next.fate]
            ELSE [run EXCEPT !.table = next.table, !.rows = Append(@, next.row)]
    BY DEF Entry
  <1>2. Given(op, p) /\ p.arm # "missing"
    BY DEF Given, Planned
  <1>3. guards \in Seq(Premises)
    BY <1>2, GuardsType
  <1>4. next.fate \in {"ok", "conflict"}
    <2>1. run.table \in Tables
      BY DEF Outcomes
    <2> HIDE DEF Inserts, Updates, Deletes, Hit, Given
    <2>2. \A r : (Updates(run.table, op, r, next) \/ Deletes(run.table, op, r, next)
                  \/ Inserts(run.table, op, next)) => next.fate = "ok"
      BY DEF Updates, Deletes, Inserts
    <2>4. \/ next.fate = "notFound" /\ (p.arm = "missing" \/ Interactive)
          \/ next.fate \in {"ok", "conflict"}
      BY <1>2, <2>1, <2>2, StatementCases
    <2> QED BY <1>2, <2>4
  <1>5. \A g \in Range(guards) : \E i \in DOMAIN guards : g = guards[i]
    BY DEF Range
  <1>6. \A i \in DOMAIN guards : guards[i] \in Range(guards)
    BY DEF Range
  <1>7. broken # {} => Min(broken) \in broken
    BY <1>3, Earliest
  <1>8. run = [table |-> run.table, rows |-> run.rows, fate |-> run.fate, culprit |-> run.culprit]
    BY DEF Outcomes
  <1> HIDE DEF guards
  <1>9. CASE run.fate = "ok" /\ broken # {}
    <2>1. PICK g \in Range(guards) : /\ ~GuardHolds(run.table, g)
                                     /\ s = [run EXCEPT !.fate = "guard", !.culprit = <<g>>]
      BY <1>1, <1>6, <1>7, <1>9
    <2>2. s = [table |-> run.table, rows |-> run.rows, fate |-> "guard", culprit |-> <<g>>]
      BY <1>8, <2>1
    <2> QED BY <1>9, <2>1, <2>2 DEF guards
  <1>10. CASE run.fate = "ok" /\ broken = {}
    <2>1. \A g \in Range(guards) : GuardHolds(run.table, g)
      BY <1>5, <1>10
    <2>2. CASE next.fate = "ok"
      <3>1. s = [run EXCEPT !.table = next.table, !.rows = Append(@, next.row)]
        BY <1>1, <1>10, <2>2
      <3>2. s = [table |-> next.table, rows |-> Append(run.rows, next.row), fate |-> "ok",
                 culprit |-> run.culprit]
        BY <1>8, <1>10, <3>1
      <3> QED BY <1>10, <2>1, <2>2, <3>2 DEF guards
    <2>3. CASE next.fate = "conflict"
      <3>1. s = [run EXCEPT !.fate = "conflict"]
        BY <1>1, <1>10, <2>3
      <3>2. s = [table |-> run.table, rows |-> run.rows, fate |-> "conflict", culprit |-> run.culprit]
        BY <1>8, <3>1
      <3> QED BY <1>10, <2>1, <2>3, <3>2 DEF guards
    <2> QED BY <1>4, <2>2, <2>3
  <1> QED BY <1>1, <1>9, <1>10

\* The outcome of a batch, entry by entry.
RunTo(n, f, t, ops, plans) ==
  f = [i \in 0..n |-> IF i = 0 THEN Started(t) ELSE Entry(f[i - 1], ops[i], plans[i])]

LEMMA RunExists ==
  ASSUME NEW t, NEW ops, NEW plans, NEW N \in Nat
  PROVE  \E f : RunTo(N, f, t, ops, plans)
  <1> DEFINE G == {n \in 0..N : \E f : RunTo(n, f, t, ops, plans)}
  <1>1. 0 \in G
    <2> DEFINE f == [i \in 0..0 |-> Started(t)]
    <2>1. RunTo(0, f, t, ops, plans)
      BY DEF RunTo
    <2> HIDE DEF f
    <2>2. \E g : RunTo(0, g, t, ops, plans)
      BY <2>1
    <2> QED BY <2>2
  <1>2. ASSUME NEW n \in 0..N, n \in G, n # N PROVE n + 1 \in G
    <2>1. PICK f : RunTo(n, f, t, ops, plans)
      BY <1>2
    <2>2. \A i \in 0..n : f[i] = IF i = 0 THEN Started(t) ELSE Entry(f[i - 1], ops[i], plans[i])
      <3>1. f = [i \in 0..n |-> IF i = 0 THEN Started(t) ELSE Entry(f[i - 1], ops[i], plans[i])]
        BY <2>1 DEF RunTo
      <3> QED BY <3>1
    <2> DEFINE g == [i \in 0..(n + 1) |->
                       IF i # n + 1 THEN f[i] ELSE Entry(f[n], ops[n + 1], plans[n + 1])]
    <2>3. /\ g = [i \in 0..(n + 1) |-> g[i]]
          /\ \A i \in 0..n : g[i] = f[i]
          /\ g[n + 1] = Entry(f[n], ops[n + 1], plans[n + 1])
      OBVIOUS
    <2> HIDE DEF g
    <2>4. ASSUME NEW i \in 0..(n + 1)
          PROVE  g[i] = IF i = 0 THEN Started(t) ELSE Entry(g[i - 1], ops[i], plans[i])
      <3>1. CASE i = n + 1
        <4>1. n + 1 # 0 /\ (n + 1) - 1 = n /\ n \in 0..n
          OBVIOUS
        <4> QED BY <2>3, <3>1, <4>1
      <3>2. CASE i # n + 1
        <4>1. i \in 0..n /\ (i # 0 => i - 1 \in 0..n)
          BY <3>2
        <4> QED BY <2>2, <2>3, <4>1
      <3> QED BY <3>1, <3>2
    <2>5. RunTo(n + 1, g, t, ops, plans)
      <3>1. g = [i \in 0..(n + 1) |->
                   IF i = 0 THEN Started(t) ELSE Entry(g[i - 1], ops[i], plans[i])]
        BY <2>3, <2>4
      <3> QED BY <3>1 DEF RunTo
    <2>6. \E h : RunTo(n + 1, h, t, ops, plans)
      BY <2>5
    <2> QED BY <1>2, <2>6
  <1>3. N \in G
    <2> HIDE DEF G
    <2>1. 0..N \subseteq G
      BY <1>1, <1>2, Induction
    <2> QED BY <2>1
  <1> QED BY <1>3

Runs(f, t, ops, plans) ==
  /\ f[0] = Started(t) /\ BatchRun(t, ops, plans) = f[Len(ops)]
  /\ \A i \in 1..Len(ops) : f[i] = Entry(f[i - 1], ops[i], plans[i])

LEMMA RunFacts ==
  ASSUME NEW t, NEW ops, NEW plans, Len(ops) \in Nat
  PROVE  \E f : Runs(f, t, ops, plans)
  <1> DEFINE f == CHOOSE f : f =
                    [i \in 0..Len(ops) |->
                       IF i = 0 THEN [table |-> t, rows |-> <<>>, fate |-> "ok", culprit |-> <<>>]
                       ELSE Entry(f[i - 1], ops[i], plans[i])]
  <1>1. RunTo(Len(ops), f, t, ops, plans)
    <2>1. \E g : RunTo(Len(ops), g, t, ops, plans)
      BY RunExists
    <2> QED BY <2>1 DEF RunTo, Started
  <1>2. BatchRun(t, ops, plans) = f[Len(ops)]
    BY DEF BatchRun
  <1> HIDE DEF f
  <1>3. \A i \in 0..Len(ops) : f[i] = IF i = 0 THEN Started(t) ELSE Entry(f[i - 1], ops[i], plans[i])
    <2>1. f = [i \in 0..Len(ops) |->
                 IF i = 0 THEN Started(t) ELSE Entry(f[i - 1], ops[i], plans[i])]
      BY <1>1 DEF RunTo
    <2> QED BY <2>1
  <1>4. f[0] = Started(t)
    BY <1>3
  <1>5. \A i \in 1..Len(ops) : f[i] = Entry(f[i - 1], ops[i], plans[i])
    BY <1>3
  <1>6. Runs(f, t, ops, plans)
    BY <1>2, <1>4, <1>5 DEF Runs
  <1> QED BY <1>6

LEMMA OneEntry ==
  ASSUME NEW t, NEW ops, NEW plans, Len(ops) = 1
  PROVE  BatchRun(t, ops, plans) = Entry(Started(t), ops[1], plans[1])
  <1>1. PICK f : Runs(f, t, ops, plans)
    BY RunFacts
  <1> QED BY <1>1 DEF Runs

\* The guards of a call's operations, and what its batch comes to.
Guarding(c) ==
  {g \in Premises :
     \E i \in DOMAIN work.ops[c] : g \in Range(Guards(work.ops[c][i], call[c].plans[i]))}

Sound(c) ==
  {run \in Outcomes :
     /\ UniqueKeys(run.table)
     /\ \A r \in Rows : run.table[r] # Absent /\ table[r] = Absent => r \in Created(work.ops[c])
     /\ run.fate = "guard" => \E g \in Guarding(c) : run.culprit = <<g>>}

LEMMA BatchSound ==
  ASSUME TypeOK, CallInv, UniqueKeys(table), NEW c \in Calls, call[c].pc = "batch"
  PROVE  BatchRun(table, work.ops[c], call[c].plans) \in Sound(c)
  <1> DEFINE ops == work.ops[c]
             plans == call[c].plans
  <1>1. PICK f : Runs(f, table, ops, plans)
    BY OpType, RunFacts
  <1>2. /\ Len(ops) \in Nat /\ DOMAIN ops = 1..Len(ops)
        /\ \A i \in 1..Len(ops) :
             ops[i] \in Ops /\ (ops[i].kind \in {"create", "upsert"} =>
                                  ops[i].row \in Rows /\ ops[i].row \in Created(ops))
    BY OpType
  <1>3. ~Interactive /\ Len(plans) = Len(ops) /\ \A i \in 1..Len(plans) : Planned(ops[i], plans[i])
    BY DEF CallInv, Sane
  <1>4. plans \in Seq(Plans)
    BY DEF TypeOK, CallStates
  <1>5. \A i \in 1..Len(ops) : plans[i] \in Plans
    BY <1>3, <1>4
  <1>6. table \in Tables
    BY DEF TypeOK
  <1> DEFINE S == {i \in 0..Len(ops) : f[i] \in Sound(c)}
  <1>7. 0 \in S
    <2>1. f[0] = Started(table)
      BY <1>1 DEF Runs
    <2>2. /\ Started(table) \in Outcomes /\ Started(table).table = table
          /\ Started(table).fate = "ok"
      BY <1>6 DEF Started, Outcomes
    <2>3. f[0] \in Sound(c)
      BY <2>1, <2>2 DEF Sound
    <2> QED BY <1>2, <2>3
  <1>8. ASSUME NEW n \in 0..Len(ops), n \in S, n # Len(ops) PROVE n + 1 \in S
    <2>1. n + 1 \in 1..Len(ops) /\ n + 1 \in 0..Len(ops) /\ (n + 1) - 1 = n
      BY <1>2, <1>8
    <2>18. PICK run, op, p : run = f[n] /\ op = ops[n + 1] /\ p = plans[n + 1]
      OBVIOUS
    <2>19. PICK next : next = Entry(run, op, p)
      OBVIOUS
    <2>20. PICK after : after = Statement(run.table, op, p)
      OBVIOUS
    <2>2. f[n + 1] = next
      BY <1>1, <2>1, <2>18, <2>19 DEF Runs
    <2> SUFFICES next \in Sound(c)
      BY <2>1, <2>2
    <2>3. run \in Sound(c)
      BY <1>8, <2>18
    <2>4. /\ op \in Ops /\ p \in Plans /\ Planned(op, p)
          /\ op.kind \in {"create", "upsert"} => op.row \in Rows /\ op.row \in Created(ops)
      BY <1>2, <1>3, <1>5, <2>1, <2>18
    <2>5. Given(op, p) /\ p.arm # "missing"
      BY <2>4 DEF Given, Planned
    <2>6. Guards(op, p) \in Seq(Premises)
      BY <1>3, <2>4, <2>5, GuardsType
    <2>7. \A g \in Range(Guards(op, p)) : g \in Guarding(c)
      <3>1. \A g \in Range(Guards(op, p)) : g \in Premises
        BY <2>6 DEF Range
      <3> QED BY <1>2, <2>1, <2>18, <3>1 DEF Guarding
    <2>8. /\ run \in Outcomes /\ run.table \in Tables /\ run.rows \in Seq(Rows \cup {NoRow})
          /\ UniqueKeys(run.table)
      BY <2>3 DEF Sound, Outcomes
    <2>9. /\ after.table \in Tables /\ after.row \in Rows \cup {NoRow}
          /\ UniqueKeys(after.table)
          /\ \A r \in Rows : after.table[r] # Absent /\ run.table[r] = Absent => r \in Created(ops)
      BY <2>4, <2>5, <2>8, <2>20, StatementType
    <2>10. run.culprit \in Seq(Premises)
      BY <2>8 DEF Outcomes
    <2>11. \/ next = run
           \/ \E g \in Range(Guards(op, p)) :
                next = [table |-> run.table, rows |-> run.rows, fate |-> "guard", culprit |-> <<g>>]
           \/ next = [table |-> run.table, rows |-> run.rows, fate |-> "conflict",
                      culprit |-> run.culprit]
           \/ next = [table |-> after.table, rows |-> Append(run.rows, after.row), fate |-> "ok",
                      culprit |-> run.culprit]
      <3>1. op.kind \in {"create", "upsert"} => op.row \in Rows
        BY <2>4
      <3>2. run \in Outcomes /\ op \in Ops /\ p \in Plans /\ ~Interactive /\ Planned(op, p)
        BY <1>3, <2>4, <2>8
      <3> QED BY <2>19, <2>20, <3>1, <3>2, EntryCases
    <2>12. CASE next = run
      BY <2>3, <2>12
    <2>13. ASSUME NEW g \in Range(Guards(op, p)),
                  next = [table |-> run.table, rows |-> run.rows, fate |-> "guard", culprit |-> <<g>>]
           PROVE  next \in Sound(c)
      <3>2. <<g>> \in Seq(Premises) /\ g \in Guarding(c)
        BY <2>7 DEF Guarding
      <3>3. next \in Outcomes /\ next.table = run.table /\ next.culprit = <<g>>
        BY <2>8, <2>13, <3>2 DEF Outcomes
      <3> QED BY <2>3, <3>2, <3>3 DEF Sound
    <2>14. CASE next = [table |-> run.table, rows |-> run.rows, fate |-> "conflict",
                        culprit |-> run.culprit]
      <3>2. next \in Outcomes /\ next.table = run.table /\ next.fate = "conflict"
        BY <2>8, <2>10, <2>14 DEF Outcomes
      <3> QED BY <2>3, <3>2 DEF Sound
    <2>15. CASE next = [table |-> after.table, rows |-> Append(run.rows, after.row), fate |-> "ok",
                        culprit |-> run.culprit]
      <3>2. Append(run.rows, after.row) \in Seq(Rows \cup {NoRow})
        BY <2>8, <2>9
      <3>3. next \in Outcomes /\ next.table = after.table /\ next.fate = "ok"
        BY <2>9, <2>10, <2>15, <3>2 DEF Outcomes
      <3>4. \A r \in Rows : next.table[r] # Absent /\ table[r] = Absent => r \in Created(work.ops[c])
        BY <2>3, <2>9, <3>3 DEF Sound
      <3> QED BY <2>9, <3>3, <3>4 DEF Sound
    <2> QED BY <2>11, <2>12, <2>13, <2>14, <2>15
  <1>9. 0..Len(ops) \subseteq S
    <2> HIDE DEF S
    <2> QED BY <1>2, <1>7, <1>8, Induction
  <1> QED BY <1>1, <1>2, <1>9 DEF Runs

\* The guards of a batch, one list after the other.
FlatTo(n, f, seqs) == f = [i \in 1..n |-> IF i = 1 THEN seqs[i] ELSE f[i - 1] \o seqs[i]]

LEMMA FlatExists ==
  ASSUME NEW seqs, NEW N \in Nat
  PROVE  \E f : FlatTo(N, f, seqs)
  <1> DEFINE G == {n \in 0..N : \E f : FlatTo(n, f, seqs)}
  <1>1. 0 \in G
    <2>1. FlatTo(0, [i \in 1..0 |-> 0], seqs)
      BY DEF FlatTo
    <2> QED BY <2>1
  <1>2. ASSUME NEW n \in 0..N, n \in G, n # N PROVE n + 1 \in G
    <2>1. PICK f : FlatTo(n, f, seqs)
      BY <1>2
    <2>2. \A i \in 1..n : f[i] = IF i = 1 THEN seqs[i] ELSE f[i - 1] \o seqs[i]
      <3>1. f = [i \in 1..n |-> IF i = 1 THEN seqs[i] ELSE f[i - 1] \o seqs[i]]
        BY <2>1 DEF FlatTo
      <3> QED BY <3>1
    <2>3. PICK new : new = IF n = 0 THEN seqs[n + 1] ELSE f[n] \o seqs[n + 1]
      OBVIOUS
    <2> DEFINE g == [i \in 1..(n + 1) |-> IF i # n + 1 THEN f[i] ELSE new]
    <2>4. /\ g = [i \in 1..(n + 1) |-> g[i]]
          /\ \A i \in 1..n : g[i] = f[i]
          /\ g[n + 1] = new
      OBVIOUS
    <2> HIDE DEF g
    <2>5. ASSUME NEW i \in 1..(n + 1)
          PROVE  g[i] = IF i = 1 THEN seqs[i] ELSE g[i - 1] \o seqs[i]
      <3>1. CASE i = n + 1
        <4>1. CASE n = 0
          <5>1. n + 1 = 1
            BY <4>1
          <5> QED BY <2>3, <2>4, <3>1, <4>1, <5>1
        <4>2. CASE n # 0
          <5>1. n + 1 # 1 /\ (n + 1) - 1 = n /\ n \in 1..n
            BY <4>2
          <5>2. g[n] = f[n]
            BY <2>4, <5>1
          <5> QED BY <2>3, <2>4, <3>1, <4>2, <5>1, <5>2
        <4> QED BY <4>1, <4>2
      <3>2. CASE i # n + 1
        <4>1. i \in 1..n /\ (i # 1 => i - 1 \in 1..n)
          BY <3>2
        <4>2. g[i] = f[i] /\ (i # 1 => g[i - 1] = f[i - 1])
          BY <2>4, <4>1
        <4> QED BY <2>2, <4>1, <4>2
      <3> QED BY <3>1, <3>2
    <2>6. FlatTo(n + 1, g, seqs)
      <3>1. g = [i \in 1..(n + 1) |-> IF i = 1 THEN seqs[i] ELSE g[i - 1] \o seqs[i]]
        BY <2>4, <2>5
      <3> QED BY <3>1 DEF FlatTo
    <2>7. \E h : FlatTo(n + 1, h, seqs)
      BY <2>6
    <2> QED BY <1>2, <2>7
  <1>3. N \in G
    <2> HIDE DEF G
    <2>1. 0..N \subseteq G
      BY <1>1, <1>2, Induction
    <2> QED BY <2>1
  <1> QED BY <1>3

LEMMA FlattenSeqType ==
  ASSUME NEW P, NEW seqs, NEW n \in Nat, Len(seqs) = n, seqs = <<>> <=> n = 0,
         \A i \in 1..n : seqs[i] \in Seq(P)
  PROVE  FlattenSeq(seqs) \in Seq(P)
  <1>1. CASE n = 0
    <2>1. FlattenSeq(seqs) = <<>>
      BY <1>1 DEF FlattenSeq
    <2> QED BY <2>1
  <1>2. CASE n # 0
    <2> DEFINE f == CHOOSE f : f = [i \in 1..Len(seqs) |->
                                      IF i = 1 THEN seqs[i] ELSE f[i - 1] \o seqs[i]]
    <2>1. FlattenSeq(seqs) = f[n]
      BY <1>2 DEF FlattenSeq
    <2>2. f = [i \in 1..n |-> IF i = 1 THEN seqs[i] ELSE f[i - 1] \o seqs[i]]
      <3>1. \E g : FlatTo(n, g, seqs)
        BY FlatExists
      <3> QED BY <3>1 DEF FlatTo
    <2> HIDE DEF f
    <2>3. \A i \in 1..n : f[i] = IF i = 1 THEN seqs[i] ELSE f[i - 1] \o seqs[i]
      BY <2>2
    <2> DEFINE S == {i \in 0..n : i # 0 => f[i] \in Seq(P)}
    <2>4. 0 \in S
      OBVIOUS
    <2>5. ASSUME NEW i \in 0..n, i \in S, i # n PROVE i + 1 \in S
      <3>1. i + 1 \in 1..n /\ (i + 1) - 1 = i
        BY <2>5
      <3>2. seqs[i + 1] \in Seq(P)
        BY <3>1
      <3>3. CASE i = 0
        <4>1. i + 1 = 1
          BY <3>3
        <4>2. f[i + 1] = seqs[i + 1]
          BY <2>3, <3>1, <4>1
        <4> QED BY <3>1, <3>2, <4>2
      <3>4. CASE i # 0
        <4>1. i + 1 # 1
          BY <3>4
        <4>2. f[i + 1] = f[i] \o seqs[i + 1] /\ f[i] \in Seq(P)
          BY <2>3, <2>5, <3>1, <3>4, <4>1
        <4>3. f[i] \o seqs[i + 1] \in Seq(P)
          BY <3>2, <4>2
        <4>4. i + 1 \in 0..n /\ f[i + 1] \in Seq(P)
          <5>1. f[i + 1] \in Seq(P)
            BY <4>2, <4>3
          <5>2. i + 1 \in 0..n
            BY <3>1
          <5> QED BY <5>1, <5>2
        <4> HIDE DEF f
        <4> QED BY <4>4
      <3> QED BY <3>3, <3>4
    <2>6. 0..n \subseteq S
      <3> HIDE DEF S
      <3> QED BY <2>4, <2>5, Induction
    <2> QED BY <1>2, <2>1, <2>6
  <1> QED BY <1>1, <1>2

-----------------------------------------------------------------------------
(***************************************************************************)
(* What the steps of a call do: to it, to the others, and on the server.   *)
(***************************************************************************)

\* Only c moves, to the state s.
Moves(c, s) == s \in CallStates /\ call' = [call EXCEPT ![c] = s]

LEMMA Moved ==
  ASSUME TypeOK, NEW c \in Calls, NEW s, Moves(c, s)
  PROVE  /\ call' \in [Calls -> CallStates] /\ call'[c] = s
         /\ \A d \in Calls : d # c => call'[d] = call[d]
  BY DEF TypeOK, Moves

LEMMA CallType ==
  ASSUME TypeOK, NEW c \in Calls, NEW s, s = call[c]
  PROVE  /\ s = [pc |-> s.pc, at |-> s.at, attempt |-> s.attempt, plans |-> s.plans,
                 suspects |-> s.suspects, outcome |-> s.outcome, rows |-> s.rows]
         /\ s.pc \in {"idle", "scan", "wait", "write", "commit", "batch", "blame", "done"}
         /\ s.at \in Nat \ {0} /\ s.attempt \in {1, 2} /\ s.plans \in Seq(Plans)
         /\ s.suspects \in Seq(Premises)
         /\ s.outcome \in {"none", "ok", "notFound", "conflict", "deadlock", "premise",
                           "unattributed"}
         /\ s.rows \in Seq(Rows \cup {NoRow})
         /\ s \in CallStates
  BY DEF TypeOK, CallStates

Reasons == {"notFound", "conflict", "deadlock", "premise", "unattributed"}

LEMMA ThrowDoes ==
  ASSUME TypeOK, NEW c \in Calls, NEW why \in Reasons, NEW raceable \in BOOLEAN,
         Throw(c, why, raceable)
  PROVE  \E s \in CallStates :
           /\ Moves(c, s) /\ Leave(c)
           /\ s.at = call[c].at /\ s.suspects = call[c].suspects /\ s.rows = call[c].rows
           /\ \/ /\ raceable /\ Single(c) /\ call[c].attempt = 1
                 /\ s.pc = "scan" /\ s.attempt = 2 /\ s.plans = <<>> /\ s.outcome = call[c].outcome
              \/ /\ ~(raceable /\ Single(c) /\ call[c].attempt = 1)
                 /\ s.pc = "done" /\ s.outcome = why /\ s.attempt = call[c].attempt
                 /\ s.plans = call[c].plans
  <1>1. PICK o : o = call[c]
    OBVIOUS
  <1>2. /\ o = [pc |-> o.pc, at |-> o.at, attempt |-> o.attempt, plans |-> o.plans,
                suspects |-> o.suspects, outcome |-> o.outcome, rows |-> o.rows]
        /\ o \in CallStates
    BY <1>1, CallType
  <1>3. CASE raceable /\ Single(c) /\ call[c].attempt = 1
    <2>3. PICK e : e = <<>>
      OBVIOUS
    <2> DEFINE s == [o EXCEPT !.pc = "scan", !.attempt = 2, !.plans = e]
    <2>1. call' = [call EXCEPT ![c] = s] /\ Leave(c)
      BY <1>1, <1>3, <2>3 DEF Throw, Retry, TypeOK
    <2>2. /\ s \in CallStates
          /\ s.pc = "scan" /\ s.attempt = 2 /\ s.plans = e /\ s.outcome = o.outcome
          /\ s.at = o.at /\ s.suspects = o.suspects /\ s.rows = o.rows
      <3>1. e \in Seq(Plans)
        BY <2>3
      <3>2. s \in CallStates
        BY <1>2, <3>1 DEF CallStates
      <3>3. /\ s.pc = "scan" /\ s.attempt = 2 /\ s.plans = e /\ s.outcome = o.outcome
            /\ s.at = o.at /\ s.suspects = o.suspects /\ s.rows = o.rows
        BY <1>2
      <3> QED BY <3>2, <3>3
    <2> HIDE DEF s
    <2> QED BY <1>1, <1>3, <2>1, <2>2, <2>3 DEF Moves
  <1>4. CASE ~(raceable /\ Single(c) /\ call[c].attempt = 1)
    <2> DEFINE s == [o EXCEPT !.pc = "done", !.outcome = why]
    <2>1. call' = [call EXCEPT ![c] = s] /\ Leave(c)
      BY <1>1, <1>4 DEF Throw, Reject, TypeOK
    <2>2. /\ s \in CallStates
          /\ s.pc = "done" /\ s.outcome = why /\ s.attempt = o.attempt /\ s.plans = o.plans
          /\ s.at = o.at /\ s.suspects = o.suspects /\ s.rows = o.rows
      BY <1>2 DEF CallStates, Reasons
    <2> HIDE DEF s
    <2> QED BY <1>1, <1>4, <2>1, <2>2 DEF Moves
  <1> QED BY <1>3, <1>4

LEMMA LeaveType ==
  ASSUME TypeOK, NEW c \in Calls, Leave(c)
  PROVE  /\ draft' \in [Calls -> [Rows -> Values \cup {Absent, Same}]]
         /\ lock' \in [Rows -> Calls \cup {Nobody}]
         /\ gap' \in [Keys -> SUBSET Calls]
         /\ draft'[c] = Untouched
         /\ \A d \in Calls : d # c => draft'[d] = draft[d]
         /\ \A r \in Rows : lock'[r] = IF lock[r] = c THEN Nobody ELSE lock[r]
         /\ \A k \in Keys : gap'[k] = gap[k] \ {c}
  <1>1. /\ draft' = [draft EXCEPT ![c] = Untouched]
        /\ lock' = [r \in Rows |-> IF lock[r] = c THEN Nobody ELSE lock[r]]
        /\ gap' = [k \in Keys |-> gap[k] \ {c}]
    BY DEF Leave
  <1>2. Untouched \in [Rows -> Values \cup {Absent, Same}]
    BY DEF Untouched
  <1>3. /\ draft \in [Calls -> [Rows -> Values \cup {Absent, Same}]]
        /\ lock \in [Rows -> Calls \cup {Nobody}] /\ gap \in [Keys -> SUBSET Calls]
    BY DEF TypeOK
  <1>4. /\ draft' \in [Calls -> [Rows -> Values \cup {Absent, Same}]] /\ draft'[c] = Untouched
        /\ \A d \in Calls : d # c => draft'[d] = draft[d]
    BY <1>1, <1>2, <1>3
  <1>5. /\ lock' \in [Rows -> Calls \cup {Nobody}]
        /\ \A r \in Rows : lock'[r] = IF lock[r] = c THEN Nobody ELSE lock[r]
    BY <1>1, <1>3
  <1>6. gap' \in [Keys -> SUBSET Calls] /\ \A k \in Keys : gap'[k] = gap[k] \ {c}
    BY <1>1, <1>3
  <1> QED BY <1>4, <1>5, <1>6

LEMMA HistoryType ==
  ASSUME TypeOK, History
  PROVE  /\ holders' \in [Calls -> Seq(SUBSET Rows)]
         /\ \A c \in Calls :
              IF call'[c].pc = "idle" \/ call[c].pc = "done" \/ ~Single(c) THEN holders'[c] = holders[c]
              ELSE LET now == Holder(table', work.ops[c][1].where) IN
                   IF holders[c] # <<>> /\ Last(holders[c]) = now THEN holders'[c] = holders[c]
                   ELSE holders'[c] = Append(holders[c], now)
  <1>1. ASSUME NEW c \in Calls
        PROVE  /\ Append(holders[c], Holder(table', work.ops[c][1].where)) \in Seq(SUBSET Rows)
               /\ holders[c] \in Seq(SUBSET Rows)
    <2>1. Holder(table', work.ops[c][1].where) \in SUBSET Rows
      BY DEF Holder
    <2>2. holders[c] \in Seq(SUBSET Rows)
      BY DEF TypeOK
    <2> QED BY <2>1, <2>2
  <1> QED BY <1>1 DEF History

\* A step that moves c, to a sane state, and touches no other call's drafts.
Kept(c) ==
  /\ \E s : Moves(c, s) /\ Sane(c, s, draft'[c])
  /\ table' \in Tables
  /\ draft' \in [Calls -> [Rows -> Values \cup {Absent, Same}]]
  /\ lock' \in [Rows -> Calls \cup {Nobody}]
  /\ gap' \in [Keys -> SUBSET Calls]
  /\ \A d \in Calls : d # c => draft'[d] = draft[d]

LEMMA Rigid ==
  ASSUME work' = work
  PROVE  /\ Interactive' = Interactive /\ Returning' = Returning
         /\ \A op : Folded(op)' = Folded(op) /\ Locates(op)' = Locates(op)
         /\ \A op, p : Planned(op, p)' = Planned(op, p) /\ Guards(op, p)' = Guards(op, p)
  <1>1. Interactive' = Interactive /\ Returning' = Returning
    BY DEF Interactive, Returning
  <1>2. \A op : Folded(op)' = Folded(op) /\ Locates(op)' = Locates(op)
    BY <1>1 DEF Folded, Locates
  <1>3. \A op, p : Planned(op, p)' = Planned(op, p)
    BY <1>2 DEF Planned
  <1>4. \A op, p : Guards(op, p)' = Guards(op, p)
    BY <1>2 DEF Guards
  <1> QED BY <1>1, <1>2, <1>3, <1>4

LEMMA SaneStays ==
  ASSUME work' = work, NEW c, NEW s, NEW w, Sane(c, s, w), call'[c] = s, draft'[c] = w
  PROVE  Sane(c, call[c], draft[c])'
  BY Rigid DEF Sane

LEMMA KeptCalls ==
  ASSUME TypeOK, CallInv, NEW c \in Calls, Kept(c), History, work' = work
  PROVE  TypeOK' /\ CallInv'
  <1>1. PICK s : Moves(c, s) /\ Sane(c, s, draft'[c])
    BY DEF Kept
  <1>2. /\ call' \in [Calls -> CallStates] /\ call'[c] = s
        /\ \A d \in Calls : d # c => call'[d] = call[d]
    BY <1>1, Moved
  <1>3. TypeOK'
    BY <1>2, HistoryType DEF TypeOK, Kept
  <1>4. ASSUME NEW d \in Calls PROVE Sane(d, call[d], draft[d])'
    <2>1. CASE d = c
      BY <1>1, <1>2, <2>1, SaneStays
    <2>2. CASE d # c
      <3>1. call'[d] = call[d] /\ draft'[d] = draft[d]
        BY <1>2, <2>2 DEF Kept
      <3> QED BY <3>1, SaneStays DEF CallInv
    <2> QED BY <2>1, <2>2
  <1> QED BY <1>3, <1>4 DEF CallInv

LEMMA Running ==
  ASSUME TypeOK, CallInv, NEW c \in Calls, call[c].pc # "done"
  PROVE  /\ Sane(c, call[c], draft[c])
         /\ call[c].at \in 1..Len(work.ops[c]) /\ Len(work.ops[c]) \in Nat
         /\ Op(c) = work.ops[c][call[c].at] /\ Op(c) \in Ops
         /\ Op(c).kind \in {"create", "upsert"} =>
              Op(c).row \in Rows /\ Op(c).row \in Created(work.ops[c])
         /\ Single(c) => call[c].at = 1 /\ Op(c) = work.ops[c][1]
         /\ call[c].outcome = "none"
  <1>1. Sane(c, call[c], draft[c])
    BY DEF CallInv
  <1>2. call[c].at \in DOMAIN work.ops[c] /\ call[c].outcome = "none"
    BY <1>1 DEF Sane
  <1>3. Op(c) = work.ops[c][call[c].at]
    BY DEF Op
  <1>4. Single(c) => call[c].at = 1
    BY <1>2, OpType DEF Single
  <1> QED BY <1>1, <1>2, <1>3, <1>4, OpType

LEMMA BeginKept ==
  ASSUME TypeOK, CallInv, NEW c \in Calls, Begin(c)
  PROVE  Kept(c)
  <1>1. PICK o : o = call[c]
    OBVIOUS
  <1>2. o \in CallStates /\ Sane(c, o, draft[c]) /\ o.pc = "idle"
    BY <1>1, CallType, Running DEF Begin
  <1> DEFINE s == [o EXCEPT !.pc = "scan"]
  <1>3. call' = [call EXCEPT ![c] = s] /\ UNCHANGED <<table, draft, lock, gap>>
    BY <1>1 DEF Begin
  <1>4. /\ s \in CallStates
        /\ s.pc = "scan" /\ s.at = o.at /\ s.attempt = o.attempt /\ s.plans = o.plans
        /\ s.suspects = o.suspects /\ s.outcome = o.outcome /\ s.rows = o.rows
    BY <1>2 DEF CallStates
  <1> HIDE DEF s
  <1>5. Sane(c, s, draft'[c])
    <2>1. o.at = 1 /\ o.plans = <<>> /\ Len(o.plans) = 0
      BY <1>2 DEF Sane
    <2> QED BY <1>2, <1>3, <1>4, <2>1 DEF Sane
  <1>6. \E x : Moves(c, x) /\ Sane(c, x, draft'[c])
    BY <1>3, <1>4, <1>5 DEF Moves
  <1> QED BY <1>3, <1>6 DEF Kept, TypeOK

LEMMA TakeKept ==
  ASSUME TypeOK, CallInv, NEW c \in Calls, NEW r \in Rows \cup {NoRow}, Take(c, r),
         Interactive, Locates(Op(c)), call[c].pc \in {"scan", "wait"}
  PROVE  Kept(c)
  <1>1. PICK o, p : o = call[c] /\ p = PlanFor(View(c), Op(c), r)
    OBVIOUS
  <1>2. /\ o \in CallStates /\ Sane(c, o, draft[c]) /\ o.pc \in {"scan", "wait"}
        /\ Op(c) = work.ops[c][o.at] /\ Op(c) \in Ops /\ Op(c).where \in Keys
    BY <1>1, CallType, Running DEF Ops
  <1>3. p \in Plans /\ PlanFits(Op(c), p) /\ p.row = r
    BY <1>1, <1>2, ViewType, PlanType
  <1> DEFINE s == [o EXCEPT !.pc = "write", !.plans = <<p>>]
  <1>4. /\ call' = [call EXCEPT ![c] = s]
        /\ lock' = IF r # NoRow THEN [lock EXCEPT ![r] = c] ELSE lock
        /\ gap' = IF r = NoRow /\ ~Returning THEN [gap EXCEPT ![Op(c).where] = @ \cup {c}] ELSE gap
        /\ table' = table /\ draft' = draft
    BY <1>1 DEF Take
  <1>5. <<p>> \in Seq(Plans) /\ <<p>> # <<>> /\ Last(<<p>>) = p
    BY <1>3 DEF Last
  <1>6. /\ s \in CallStates
        /\ s.pc = "write" /\ s.at = o.at /\ s.attempt = o.attempt /\ s.plans = <<p>>
        /\ s.suspects = o.suspects /\ s.outcome = o.outcome /\ s.rows = o.rows
    BY <1>2, <1>5 DEF CallStates
  <1> HIDE DEF s
  <1>7. Sane(c, s, draft'[c])
    BY <1>2, <1>3, <1>4, <1>5, <1>6 DEF Sane
  <1>8. \E x : Moves(c, x) /\ Sane(c, x, draft'[c])
    BY <1>4, <1>6, <1>7 DEF Moves
  <1>9. lock' \in [Rows -> Calls \cup {Nobody}]
    BY <1>4 DEF TypeOK
  <1>10. gap' \in [Keys -> SUBSET Calls]
    BY <1>2, <1>4 DEF TypeOK
  <1> QED BY <1>4, <1>8, <1>9, <1>10 DEF Kept, TypeOK

LEMMA WaitKept ==
  ASSUME TypeOK, CallInv, NEW c \in Calls, Wait(c)
  PROVE  Kept(c)
  <1>1. PICK o : o = call[c]
    OBVIOUS
  <1>2. PICK r \in Selected(View(c), Op(c)) :
          call' = [call EXCEPT ![c].pc = "wait", ![c].plans = <<[row |-> r, arm |-> "none"]>>]
    BY DEF Wait
  <1>3. PICK p : p = [row |-> r, arm |-> "none"]
    OBVIOUS
  <1>4. /\ o \in CallStates /\ Sane(c, o, draft[c]) /\ o.pc = "scan"
        /\ Op(c) = work.ops[c][o.at] /\ Interactive /\ Locates(Op(c)) /\ Returning
    BY <1>1, CallType, Running DEF Wait
  <1>5. r \in Rows /\ p \in Plans /\ p.row \in Rows
    BY <1>3 DEF Selected, Holder, Plans
  <1> DEFINE s == [o EXCEPT !.pc = "wait", !.plans = <<p>>]
  <1>6. call' = [call EXCEPT ![c] = s] /\ UNCHANGED <<table, draft, lock, gap>>
    BY <1>1, <1>2, <1>3 DEF Wait
  <1>7. <<p>> \in Seq(Plans) /\ <<p>> # <<>> /\ Last(<<p>>) = p
    BY <1>5 DEF Last
  <1>8. /\ s \in CallStates
        /\ s.pc = "wait" /\ s.at = o.at /\ s.attempt = o.attempt /\ s.plans = <<p>>
        /\ s.suspects = o.suspects /\ s.outcome = o.outcome /\ s.rows = o.rows
    BY <1>4, <1>7 DEF CallStates
  <1> HIDE DEF s
  <1>9. Sane(c, s, draft'[c])
    BY <1>4, <1>5, <1>6, <1>7, <1>8 DEF Sane
  <1>10. \E x : Moves(c, x) /\ Sane(c, x, draft'[c])
    BY <1>6, <1>8, <1>9 DEF Moves
  <1> QED BY <1>6, <1>10 DEF Kept, TypeOK

LEMMA ThrowKept ==
  ASSUME TypeOK, CallInv, NEW c \in Calls, NEW why \in Reasons, NEW raceable \in BOOLEAN,
         call[c].pc \notin {"commit", "done"}, Throw(c, why, raceable), table' = table,
         raceable /\ Single(c) => work.ops[c][1].kind = "upsert"
  PROVE  Kept(c)
  <1>1. PICK o : o = call[c]
    OBVIOUS
  <1>2. PICK s \in CallStates :
           /\ Moves(c, s) /\ Leave(c)
           /\ s.at = o.at /\ s.suspects = o.suspects /\ s.rows = o.rows
           /\ \/ /\ raceable /\ Single(c) /\ o.attempt = 1
                 /\ s.pc = "scan" /\ s.attempt = 2 /\ s.plans = <<>> /\ s.outcome = o.outcome
              \/ /\ s.pc = "done" /\ s.outcome = why /\ s.attempt = o.attempt
                 /\ s.plans = o.plans
    BY <1>1, ThrowDoes
  <1>3. Sane(c, o, draft[c]) /\ o.at \in 1..Len(work.ops[c]) /\ (Single(c) => o.at = 1)
        /\ o.outcome = "none" /\ o.pc \notin {"commit", "done"} /\ DOMAIN work.ops[c] = 1..Len(work.ops[c])
    BY <1>1, Running, OpType
  <1>4. /\ draft'[c] = Untouched
        /\ draft' \in [Calls -> [Rows -> Values \cup {Absent, Same}]]
        /\ lock' \in [Rows -> Calls \cup {Nobody}]
        /\ gap' \in [Keys -> SUBSET Calls]
        /\ \A d \in Calls : d # c => draft'[d] = draft[d]
    BY <1>2, LeaveType
  <1>5. CASE raceable /\ Single(c) /\ s.pc = "scan" /\ s.attempt = 2 /\ s.plans = <<>> /\ s.outcome = o.outcome
    <2>1. o.at = 1 /\ Len(<<>>) = 0 /\ 1..0 = {} /\ o.at \in DOMAIN work.ops[c]
      BY <1>3, <1>5
    <2>2. o.rows = <<>>
      BY <1>3, <2>1 DEF Sane
    <2>3. Sane(c, s, draft'[c])
      BY <1>2, <1>3, <1>4, <1>5, <2>1, <2>2 DEF Sane, Single
    <2>4. \E x : Moves(c, x) /\ Sane(c, x, draft'[c])
      BY <1>2, <2>3
    <2> QED BY <1>4, <2>4 DEF Kept, TypeOK
  <1>6. CASE s.pc = "done" /\ s.outcome = why /\ s.attempt = o.attempt /\ s.plans = o.plans
    <2>1. Sane(c, s, draft'[c])
      BY <1>2, <1>3, <1>4, <1>6 DEF Sane
    <2>2. \E x : Moves(c, x) /\ Sane(c, x, draft'[c])
      BY <1>2, <2>1
    <2> QED BY <1>4, <2>2 DEF Kept, TypeOK
  <1> QED BY <1>2, <1>5, <1>6

LEMMA LocateTakes ==
  ASSUME TypeOK, CallInv, NEW c \in Calls, Locate(c) \/ Wake(c)
  PROVE  \E r \in Rows \cup {NoRow} :
           /\ Take(c, r) /\ Interactive /\ Locates(Op(c)) /\ call[c].pc \in {"scan", "wait"}
           /\ Op(c) \in Ops
           /\ r # NoRow => r \in Selected(View(c), Op(c)) /\ Lockers(c, {r}) = {}
           /\ call[c].pc = "wait" => /\ Returning
                                     /\ r = NoRow => Plan(c).row \notin Selected(View(c), Op(c))
           /\ call[c].pc = "scan" /\ r = NoRow =>
                Selected(View(c), Op(c)) = {} /\ (~Returning => Claims(c, Op(c).where) = {})
  <1>1. Op(c) \in Ops
    BY Running DEF Locate, Wake
  <1>2. Selected(View(c), Op(c)) \subseteq Rows
    BY DEF Selected, Holder
  <1>3. CASE Locate(c)
    <2> DEFINE hit == Selected(View(c), Op(c))
    <2>1. /\ call[c].pc = "scan" /\ Interactive /\ Locates(Op(c))
          /\ Lockers(c, hit) = {} /\ (~Returning => Claims(c, Op(c).where) = {})
      BY <1>3 DEF Locate, Unblocked, Blockers
    <2>2. CASE hit = {}
      <3>1. Take(c, NoRow)
        BY <1>3, <2>2 DEF Locate
      <3> QED BY <1>1, <2>1, <2>2, <3>1
    <2>3. CASE hit # {}
      <3>1. PICK r \in hit : Take(c, r)
        BY <1>3, <2>3 DEF Locate
      <3>2. Lockers(c, {r}) = {} /\ r \in Rows /\ r # NoRow
        BY <1>2, <2>1, MarkersAssumption DEF Lockers
      <3> QED BY <1>1, <2>1, <3>1, <3>2
    <2> QED BY <2>2, <2>3
  <1>4. CASE Wake(c)
    <2>1. call[c].pc = "wait"
      BY <1>4 DEF Wake
    <2>2. Sane(c, call[c], draft[c]) /\ Op(c) = work.ops[c][call[c].at] /\ Plan(c) = Last(call[c].plans)
      BY <2>1, Running DEF Plan
    <2>3. Interactive /\ Returning /\ Locates(Op(c)) /\ Plan(c).row \in Rows
      BY <2>1, <2>2 DEF Sane
    <2>4. Lockers(c, {Plan(c).row}) = {}
      BY <1>4, <2>1 DEF Wake, Unblocked, Blockers
    <2>5. Take(c, IF Plan(c).row \in Selected(View(c), Op(c)) THEN Plan(c).row ELSE NoRow)
      BY <1>4 DEF Wake
    <2>6. CASE Plan(c).row \in Selected(View(c), Op(c))
      <3>1. PICK r : r = Plan(c).row
        OBVIOUS
      <3>2. Take(c, r) /\ r \in Rows /\ r # NoRow /\ r \in Selected(View(c), Op(c))
            /\ Lockers(c, {r}) = {}
        BY <2>3, <2>4, <2>5, <2>6, <3>1, MarkersAssumption
      <3> QED BY <1>1, <2>1, <2>3, <3>2
    <2>7. CASE Plan(c).row \notin Selected(View(c), Op(c))
      <3>1. Take(c, NoRow)
        BY <2>5, <2>7
      <3> QED BY <1>1, <2>1, <2>3, <2>7, <3>1
    <2> QED BY <2>6, <2>7
  <1> QED BY <1>3, <1>4

LEMMA KeepDoes ==
  ASSUME TypeOK, NEW c \in Calls, NEW t \in Tables, NEW row, Keep(c, t, row)
  PROVE  \/ Direct(c) /\ table' = t /\ Leave(c)
         \/ /\ ~Direct(c) /\ table' = table /\ gap' \in [Keys -> SUBSET Calls]
            /\ \A k \in Keys : gap[k] \subseteq gap'[k]
            /\ \A k \in Keys : gap'[k] \subseteq gap[k]
                 \/ (gap'[k] = gap[k] \cup {c} /\ \E r \in Rows : t[r] # View(c)[r])
            /\ draft' \in [Calls -> [Rows -> Values \cup {Absent, Same}]]
            /\ lock' \in [Rows -> Calls \cup {Nobody}]
            /\ draft'[c] = [r \in Rows |-> IF t[r] # View(c)[r] THEN t[r] ELSE draft[c][r]]
            /\ lock' = [r \in Rows |-> IF t[r] # View(c)[r] \/ r = row THEN c ELSE lock[r]]
            /\ \A d \in Calls : d # c => draft'[d] = draft[d]
  <1>1. CASE Direct(c)
    BY <1>1 DEF Keep
  <1>2. CASE ~Direct(c)
    <2> DEFINE dirty == {r \in Rows : t[r] # View(c)[r]}
               mine  == [r \in Rows |-> IF t[r] # View(c)[r] THEN t[r] ELSE draft[c][r]]
    <2>1. /\ draft' = [draft EXCEPT ![c] = [r \in Rows |-> IF r \in dirty THEN t[r] ELSE @[r]]]
          /\ lock' = [r \in Rows |-> IF r \in dirty \cup {row} THEN c ELSE lock[r]]
          /\ table' = table
          /\ gap' = [k \in Keys |-> gap[k] \cup {d \in {c} : \E r \in dirty : r \in Holder(t, k)}]
      BY <1>2 DEF Keep
    <2>8. /\ gap' \in [Keys -> SUBSET Calls]
          /\ \A k \in Keys : gap[k] \subseteq gap'[k]
          /\ \A k \in Keys : gap'[k] \subseteq gap[k]
               \/ (gap'[k] = gap[k] \cup {c} /\ \E r \in Rows : t[r] # View(c)[r])
      <3>1. gap \in [Keys -> SUBSET Calls]
        BY DEF TypeOK
      <3> QED BY <2>1, <3>1
    <2>2. /\ draft \in [Calls -> [Rows -> Values \cup {Absent, Same}]]
          /\ lock \in [Rows -> Calls \cup {Nobody}]
          /\ t \in [Rows -> Values \cup {Absent}]
      BY DEF TypeOK, Tables
    <2>3. mine \in [Rows -> Values \cup {Absent, Same}]
      BY <2>2
    <2>4. draft' = [draft EXCEPT ![c] = mine]
      <3>1. [r \in Rows |-> IF r \in dirty THEN t[r] ELSE draft[c][r]] = mine
        OBVIOUS
      <3> QED BY <2>1, <3>1
    <2>5. lock' = [r \in Rows |-> IF t[r] # View(c)[r] \/ r = row THEN c ELSE lock[r]]
      BY <2>1
    <2>6. lock' \in [Rows -> Calls \cup {Nobody}]
      BY <2>2, <2>5
    <2> HIDE DEF mine
    <2>7. /\ draft' \in [Calls -> [Rows -> Values \cup {Absent, Same}]] /\ draft'[c] = mine
          /\ \A d \in Calls : d # c => draft'[d] = draft[d]
      BY <2>2, <2>3, <2>4
    <2> QED BY <1>2, <2>1, <2>5, <2>6, <2>7, <2>8 DEF mine
  <1> QED BY <1>1, <1>2

\* What a statement is given, and does.
LEMMA WriteDoes ==
  ASSUME TypeOK, CallInv, NEW c \in Calls, Write(c)
  PROVE  \E p, done :
           /\ p \in Plans
           /\ p = (IF Locates(Op(c)) THEN Plan(c) ELSE Unlocated(Op(c)))
           /\ Given(Op(c), p) /\ done = Statement(View(c), Op(c), p)
           /\ Interactive /\ Unblocked(c)
           /\ call[c].pc = IF Locates(Op(c)) THEN "write" ELSE "scan"
           /\ \/ /\ done.fate = "ok" /\ Keep(c, done.table, done.row) /\ Advance(c, done.row)
              \/ /\ done.fate # "ok" /\ table' = table
                 /\ Throw(c, done.fate, done.fate = "conflict" /\ Pinned(Op(c), p))
  <1>1. PICK p : p = IF Locates(Op(c)) THEN Plan(c) ELSE Unlocated(Op(c))
    OBVIOUS
  <1>2. PICK done : done = Statement(View(c), Op(c), p)
    OBVIOUS
  <1>3. /\ Interactive /\ Unblocked(c)
        /\ call[c].pc \in {"scan", "write"} /\ Locates(Op(c)) = (call[c].pc = "write")
        /\ \/ /\ done.fate = "ok" /\ Keep(c, done.table, done.row) /\ Advance(c, done.row)
           \/ /\ done.fate # "ok" /\ table' = table
              /\ Throw(c, done.fate, done.fate = "conflict" /\ Pinned(Op(c), p))
    BY <1>1, <1>2 DEF Write
  <1>4. p \in Plans /\ Given(Op(c), p)
    <2>1. CASE Locates(Op(c))
      <3>1. /\ Sane(c, call[c], draft[c]) /\ Op(c) = work.ops[c][call[c].at]
            /\ call[c].plans \in Seq(Plans) /\ call[c].pc = "write" /\ p = Last(call[c].plans)
        BY <1>1, <1>3, <2>1, Running, CallType DEF Plan
      <3>2. PlanFits(Op(c), p) /\ call[c].plans # <<>>
        BY <3>1 DEF Sane
      <3>3. p \in Plans
        BY <3>1, <3>2 DEF Last
      <3> QED BY <2>1, <3>2, <3>3 DEF Given
    <2>2. CASE ~Locates(Op(c))
      BY <1>1, <2>2, UnlocatedType DEF Given
    <2> QED BY <2>1, <2>2
  <1>5. call[c].pc = IF Locates(Op(c)) THEN "write" ELSE "scan"
    BY <1>3
  <1> QED BY <1>1, <1>2, <1>3, <1>4, <1>5

LEMMA WriteKept ==
  ASSUME TypeOK, CallInv, NEW c \in Calls, Write(c)
  PROVE  Kept(c)
  <1>1. PICK p, done :
           /\ p \in Plans
           /\ p = (IF Locates(Op(c)) THEN Plan(c) ELSE Unlocated(Op(c)))
           /\ Given(Op(c), p) /\ done = Statement(View(c), Op(c), p)
           /\ Interactive /\ Unblocked(c)
           /\ call[c].pc = IF Locates(Op(c)) THEN "write" ELSE "scan"
           /\ \/ /\ done.fate = "ok" /\ Keep(c, done.table, done.row) /\ Advance(c, done.row)
              \/ /\ done.fate # "ok" /\ table' = table
                 /\ Throw(c, done.fate, done.fate = "conflict" /\ Pinned(Op(c), p))
    BY WriteDoes
  <1>2. call[c].pc \in {"scan", "write"}
    BY <1>1
  <1>3. /\ Sane(c, call[c], draft[c]) /\ call[c].at \in 1..Len(work.ops[c]) /\ Len(work.ops[c]) \in Nat
        /\ Op(c) \in Ops /\ (Op(c).kind \in {"create", "upsert"} => Op(c).row \in Rows)
        /\ (Single(c) => Op(c) = work.ops[c][1]) /\ call[c].outcome = "none"
        /\ DOMAIN work.ops[c] = 1..Len(work.ops[c])
    BY <1>2, Running, OpType
  <1>4. /\ done.table \in Tables /\ done.row \in Rows \cup {NoRow}
        /\ done.fate \in {"ok", "notFound", "conflict"}
    BY <1>1, <1>3, ViewType, StatementType
  <1>5. CASE done.fate # "ok" /\ table' = table
             /\ Throw(c, done.fate, done.fate = "conflict" /\ Pinned(Op(c), p))
    <2>1. PICK why, raceable :
            why = done.fate /\ raceable = (done.fate = "conflict" /\ Pinned(Op(c), p))
      OBVIOUS
    <2>2. why \in Reasons /\ raceable \in BOOLEAN /\ Throw(c, why, raceable)
      BY <1>4, <1>5, <2>1 DEF Reasons
    <2>3. raceable /\ Single(c) => work.ops[c][1].kind = "upsert"
      BY <1>3, <2>1 DEF Pinned
    <2>4. call[c].pc \notin {"commit", "done"}
      BY <1>2
    <2> QED BY <1>5, <2>2, <2>3, <2>4, ThrowKept
  <1>6. CASE done.fate = "ok" /\ Keep(c, done.table, done.row) /\ Advance(c, done.row)
    <2>1. PICK o : o = call[c]
      OBVIOUS
    <2>2. /\ o \in CallStates /\ o.pc \in {"scan", "write"} /\ o.at \in Nat \ {0}
          /\ o.rows \in Seq(Rows \cup {NoRow}) /\ o.outcome = "none"
      BY <1>2, <1>3, <2>1, CallType
    <2>3. PICK pc, outcome, rows, at :
            /\ pc = IF o.at # Len(work.ops[c]) THEN "scan" ELSE IF Direct(c) THEN "done" ELSE "commit"
            /\ outcome = IF Direct(c) THEN "ok" ELSE o.outcome
            /\ rows = Append(o.rows, done.row)
            /\ at = IF o.at = Len(work.ops[c]) THEN o.at ELSE o.at + 1
      OBVIOUS
    <2> DEFINE s == [o EXCEPT !.pc = pc, !.outcome = outcome, !.rows = rows, !.at = at]
    <2>4. call' = [call EXCEPT ![c] = s]
      BY <1>6, <2>1, <2>3 DEF Advance, TypeOK
    <2>5. /\ s \in CallStates
          /\ s.pc = pc /\ s.at = at /\ s.attempt = o.attempt /\ s.plans = o.plans
          /\ s.suspects = o.suspects /\ s.outcome = outcome /\ s.rows = rows
      <3>1. rows \in Seq(Rows \cup {NoRow})
        BY <1>4, <2>2, <2>3
      <3>2. at \in Nat \ {0}
        BY <2>2, <2>3
      <3>3. pc \in {"scan", "done", "commit"} /\ outcome \in {"none", "ok"}
        BY <2>2, <2>3
      <3> QED BY <2>2, <3>1, <3>2, <3>3 DEF CallStates
    <2> HIDE DEF s
    <2>6. /\ o.at # Len(work.ops[c]) => at > 1 /\ at \in 1..Len(work.ops[c]) /\ at # 1
          /\ o.at = Len(work.ops[c]) => at = Len(work.ops[c])
      BY <1>3, <2>1, <2>3
    <2>7. Direct(c) => Single(c) /\ o.at = Len(work.ops[c])
      BY <1>3, <2>1 DEF Direct, Single
    <2>8. Direct(c) \/ s.pc = "commit" \/ s.at > 1
      BY <2>3, <2>5, <2>6
    <2>9. Direct(c) => draft'[c] = Untouched
      BY <1>4, <1>6, KeepDoes, LeaveType
    <2>10. Sane(c, s, draft'[c])
      <3>1. Sane(c, o, draft[c]) /\ ~(~Interactive)
        BY <1>1, <1>3, <2>1
      <3>2. s.pc \in {"scan", "commit", "done"}
        BY <2>3, <2>5
      <3>3. s.pc = "scan" => s.outcome = "none" /\ s.at \in DOMAIN work.ops[c] /\ s.at # 1
        BY <1>3, <2>2, <2>3, <2>5, <2>6, <2>7
      <3>4. s.pc = "commit" => s.outcome = "none" /\ s.at \in DOMAIN work.ops[c] /\ s.at = Len(work.ops[c])
        BY <1>3, <2>1, <2>2, <2>3, <2>5, <2>6, <2>7
      <3>5. s.pc # "commit" => s.at > 1 \/ draft'[c] = Untouched
        BY <2>8, <2>9
      <3>6. s.attempt = 2 => Len(work.ops[c]) = 1 /\ work.ops[c][1].kind = "upsert"
        BY <2>5, <3>1 DEF Sane
      <3> QED BY <3>1, <3>2, <3>3, <3>4, <3>5, <3>6 DEF Sane
    <2>11. \E x : Moves(c, x) /\ Sane(c, x, draft'[c])
      BY <2>4, <2>5, <2>10 DEF Moves
    <2>12. CASE Direct(c)
      <3>1. table' = done.table /\ Leave(c)
        BY <1>4, <1>6, <2>12, KeepDoes
      <3> QED BY <1>4, <2>11, <3>1, LeaveType DEF Kept
    <2>13. CASE ~Direct(c)
      <3>1. /\ table' = table /\ gap' \in [Keys -> SUBSET Calls]
            /\ draft' \in [Calls -> [Rows -> Values \cup {Absent, Same}]]
            /\ lock' \in [Rows -> Calls \cup {Nobody}]
            /\ \A d \in Calls : d # c => draft'[d] = draft[d]
        BY <1>4, <1>6, <2>13, KeepDoes
      <3> QED BY <2>11, <3>1 DEF Kept, TypeOK
    <2> QED BY <2>12, <2>13
  <1> QED BY <1>1, <1>5, <1>6

\* Who is waited for waits, or holds something.
LEMMA VictimWaits ==
  ASSUME TypeOK, CallInv, NEW c \in Calls, Victim(c)
  PROVE  /\ call[c].pc \in {"scan", "wait", "write"} /\ Interactive
         /\ \E e \in Calls : c \in Blockers(e)
         /\ Throw(c, "deadlock", call[c].pc = "write" /\ Pinned(Op(c), Plan(c)))
         /\ table' = table
  <1>1. PICK S \in SUBSET Calls : /\ c \in S
                                  /\ \A d \in S : Blockers(d) \cap S # {}
                                  /\ \A d \in S : \E e \in S : d \in Blockers(e)
    BY DEF Victim, Deadlocked
  <1>2. Blockers(c) # {}
    BY <1>1
  <1>3. call[c].pc \in {"scan", "wait", "write"}
    BY <1>2 DEF Blockers
  <1> QED BY <1>1, <1>3 DEF Victim

LEMMA VictimKept ==
  ASSUME TypeOK, CallInv, NEW c \in Calls, Victim(c)
  PROVE  Kept(c)
  <1>1. PICK why, raceable :
          why = "deadlock" /\ raceable = (call[c].pc = "write" /\ Pinned(Op(c), Plan(c)))
    OBVIOUS
  <1>2. /\ why \in Reasons /\ raceable \in BOOLEAN /\ call[c].pc \notin {"commit", "done"}
        /\ Throw(c, why, raceable) /\ table' = table
    BY <1>1, VictimWaits DEF Reasons
  <1>3. raceable /\ Single(c) => work.ops[c][1].kind = "upsert"
    BY <1>1, <1>2, Running DEF Pinned
  <1> QED BY <1>2, <1>3, ThrowKept

LEMMA DoneKept ==
  ASSUME TypeOK, CallInv, NEW c \in Calls, call[c].pc \in {"commit", "batch"},
         NEW rows \in Seq(Rows \cup {NoRow}),
         call' = [call EXCEPT ![c].pc = "done", ![c].outcome = "ok", ![c].rows = rows],
         draft'[c] = Untouched
  PROVE  \E s : Moves(c, s) /\ Sane(c, s, draft'[c])
  <1>1. PICK o : o = call[c]
    OBVIOUS
  <1>2. o \in CallStates /\ Sane(c, o, draft[c]) /\ o.pc \in {"commit", "batch"}
    BY <1>1, CallType, Running
  <1> DEFINE s == [o EXCEPT !.pc = "done", !.outcome = "ok", !.rows = rows]
  <1>3. call' = [call EXCEPT ![c] = s]
    BY <1>1
  <1>4. /\ s \in CallStates
        /\ s.pc = "done" /\ s.at = o.at /\ s.attempt = o.attempt /\ s.plans = o.plans
        /\ s.suspects = o.suspects /\ s.outcome = "ok" /\ s.rows = rows
    BY <1>2 DEF CallStates
  <1> HIDE DEF s
  <1>5. Sane(c, s, draft'[c])
    BY <1>2, <1>4 DEF Sane
  <1> QED BY <1>3, <1>4, <1>5 DEF Moves

LEMMA CommitKept ==
  ASSUME TypeOK, CallInv, NEW c \in Calls, Commit(c)
  PROVE  Kept(c)
  <1>1. /\ call[c].pc = "commit" /\ table' = View(c) /\ Leave(c)
        /\ call' = [call EXCEPT ![c].pc = "done", ![c].outcome = "ok"]
    BY DEF Commit
  <1>2. PICK rows : rows = call[c].rows
    OBVIOUS
  <1>3. rows \in Seq(Rows \cup {NoRow})
    BY <1>2, CallType
  <1>4. call' = [call EXCEPT ![c].pc = "done", ![c].outcome = "ok", ![c].rows = rows]
    <2>1. PICK o : o = call[c]
      OBVIOUS
    <2>2. o \in CallStates
      BY <2>1, CallType
    <2>3. [o EXCEPT !.pc = "done", !.outcome = "ok"] = [o EXCEPT !.pc = "done", !.outcome = "ok", !.rows = o.rows]
      BY <2>2 DEF CallStates
    <2> QED BY <1>1, <1>2, <2>1, <2>3
  <1>5. draft'[c] = Untouched
    BY <1>1, LeaveType
  <1>6. \E s : Moves(c, s) /\ Sane(c, s, draft'[c])
    BY <1>1, <1>3, <1>4, <1>5, DoneKept
  <1> QED BY <1>1, <1>6, LeaveType, ViewType DEF Kept

LEMMA PlanBatchDoes ==
  ASSUME TypeOK, CallInv, NEW c \in Calls, PlanBatch(c)
  PROVE  /\ call[c].pc = "scan" /\ ~Interactive /\ table' = table
         /\ Op(c) \in Ops
         /\ \E p \in Plans :
              /\ Locates(Op(c)) =>
                   /\ p = PlanFor(table, Op(c), p.row) /\ PlanFits(Op(c), p)
                   /\ p.row # NoRow => p.row \in Selected(table, Op(c))
                   /\ p.row = NoRow => Selected(table, Op(c)) = {}
              /\ ~Locates(Op(c)) => p = Unlocated(Op(c))
              /\ IF p.arm = "missing" THEN Reject(c, "notFound")
                 ELSE /\ UNCHANGED <<draft, lock, gap>>
                      /\ call' = [call EXCEPT ![c].plans = Append(@, p),
                                    ![c].pc = IF call[c].at = Len(work.ops[c]) THEN "batch" ELSE @,
                                    ![c].at = IF call[c].at = Len(work.ops[c]) THEN @ ELSE @ + 1]
  <1>1. call[c].pc = "scan" /\ ~Interactive /\ table' = table
    BY DEF PlanBatch
  <1>2. Op(c) \in Ops /\ table \in Tables
    BY <1>1, Running DEF TypeOK
  <1> DEFINE hit == Selected(table, Op(c))
  <1>3. hit \subseteq Rows
    BY DEF Selected, Holder
  <1>4. CASE ~Locates(Op(c))
    <2>1. PICK p : p = Unlocated(Op(c))
      OBVIOUS
    <2>2. p \in Plans /\ p.arm # "missing"
      BY <2>1, UnlocatedType
    <2>3. /\ UNCHANGED <<draft, lock, gap>>
          /\ call' = [call EXCEPT ![c].plans = Append(@, p),
                        ![c].pc = IF call[c].at = Len(work.ops[c]) THEN "batch" ELSE @,
                        ![c].at = IF call[c].at = Len(work.ops[c]) THEN @ ELSE @ + 1]
      BY <1>4, <2>1 DEF PlanBatch
    <2> QED BY <1>1, <1>2, <1>4, <2>1, <2>2, <2>3
  <1>5. CASE Locates(Op(c))
    <2>1. PICK r : r = IF hit = {} THEN NoRow ELSE CHOOSE x \in hit : TRUE
      OBVIOUS
    <2>2. /\ r \in Rows \cup {NoRow}
          /\ r # NoRow => r \in hit
          /\ r = NoRow => hit = {}
      <3>1. NoRow \notin hit
        BY <1>3, MarkersAssumption
      <3>2. CASE hit = {}
        BY <2>1, <3>2
      <3>3. CASE hit # {}
        <4>1. r \in hit
          BY <2>1, <3>3
        <4> QED BY <1>3, <3>1, <4>1
      <3> QED BY <3>2, <3>3
    <2>3. PICK p : p = PlanFor(table, Op(c), r)
      OBVIOUS
    <2>4. p \in Plans /\ PlanFits(Op(c), p) /\ p.row = r
      BY <1>2, <1>5, <2>2, <2>3, PlanType
    <2>5. IF p.arm = "missing" THEN Reject(c, "notFound")
          ELSE /\ UNCHANGED <<draft, lock, gap>>
               /\ call' = [call EXCEPT ![c].plans = Append(@, p),
                             ![c].pc = IF call[c].at = Len(work.ops[c]) THEN "batch" ELSE @,
                             ![c].at = IF call[c].at = Len(work.ops[c]) THEN @ ELSE @ + 1]
      BY <1>5, <2>1, <2>3 DEF PlanBatch
    <2> QED BY <1>1, <1>2, <1>5, <2>2, <2>3, <2>4, <2>5
  <1> QED BY <1>4, <1>5

LEMMA RejectThrows ==
  ASSUME NEW c, NEW why, Reject(c, why)
  PROVE  Throw(c, why, FALSE)
  BY DEF Throw

LEMMA PlanBatchKept ==
  ASSUME TypeOK, CallInv, NEW c \in Calls, PlanBatch(c)
  PROVE  Kept(c)
  <1>1. /\ call[c].pc = "scan" /\ ~Interactive /\ table' = table /\ Op(c) \in Ops
    BY PlanBatchDoes
  <1>2. PICK p \in Plans :
              /\ Locates(Op(c)) => PlanFits(Op(c), p)
              /\ ~Locates(Op(c)) => p = Unlocated(Op(c))
              /\ IF p.arm = "missing" THEN Reject(c, "notFound")
                 ELSE /\ UNCHANGED <<draft, lock, gap>>
                      /\ call' = [call EXCEPT ![c].plans = Append(@, p),
                                    ![c].pc = IF call[c].at = Len(work.ops[c]) THEN "batch" ELSE @,
                                    ![c].at = IF call[c].at = Len(work.ops[c]) THEN @ ELSE @ + 1]
    BY PlanBatchDoes
  <1>3. CASE p.arm = "missing"
    <2>1. Throw(c, "notFound", FALSE)
      BY <1>2, <1>3, RejectThrows
    <2> QED BY <1>1, <2>1, ThrowKept DEF Reasons
  <1>4. CASE p.arm # "missing"
    <2>1. PICK o : o = call[c]
      OBVIOUS
    <2>2. /\ o \in CallStates /\ o.pc = "scan" /\ o.at \in Nat \ {0} /\ o.plans \in Seq(Plans)
          /\ Sane(c, o, draft[c]) /\ o.at \in 1..Len(work.ops[c]) /\ Len(work.ops[c]) \in Nat
          /\ Op(c) = work.ops[c][o.at] /\ DOMAIN work.ops[c] = 1..Len(work.ops[c])
      BY <1>1, <2>1, CallType, Running, OpType
    <2>3. PICK plans, pc, at :
            /\ plans = Append(o.plans, p)
            /\ pc = IF o.at = Len(work.ops[c]) THEN "batch" ELSE o.pc
            /\ at = IF o.at = Len(work.ops[c]) THEN o.at ELSE o.at + 1
      OBVIOUS
    <2> DEFINE s == [o EXCEPT !.plans = plans, !.pc = pc, !.at = at]
    <2>4. call' = [call EXCEPT ![c] = s] /\ UNCHANGED <<draft, lock, gap>>
      BY <1>2, <1>4, <2>1, <2>3 DEF TypeOK
    <2>5. /\ plans \in Seq(Plans) /\ pc \in {"scan", "batch"} /\ at \in Nat \ {0}
      BY <2>2, <2>3
    <2>6. /\ s \in CallStates
          /\ s.pc = pc /\ s.at = at /\ s.attempt = o.attempt /\ s.plans = plans
          /\ s.suspects = o.suspects /\ s.outcome = o.outcome /\ s.rows = o.rows
      BY <2>2, <2>5 DEF CallStates
    <2> HIDE DEF s
    <2>7. Len(o.plans) = o.at - 1
      BY <1>1, <2>2 DEF Sane
    <2>8. /\ Len(plans) = o.at
          /\ \A i \in 1..o.at : plans[i] = IF i = o.at THEN p ELSE o.plans[i]
      <3>1. Len(plans) = Len(o.plans) + 1
        BY <2>2, <2>3
      <3>2. Len(plans) = o.at
        BY <2>2, <2>7, <3>1
      <3>3. ASSUME NEW i \in 1..o.at PROVE plans[i] = IF i = o.at THEN p ELSE o.plans[i]
        <4>1. i \in 1..(Len(o.plans) + 1) /\ (i = o.at <=> i = Len(o.plans) + 1)
          BY <2>2, <2>7
        <4> QED BY <2>2, <2>3, <4>1
      <3> QED BY <3>2, <3>3
    <2>9. Planned(Op(c), p)
      BY <1>2, <1>4 DEF Planned
    <2>10. \A i \in 1..Len(plans) : Planned(work.ops[c][i], plans[i])
      <3>1. ASSUME NEW i \in 1..Len(plans) PROVE Planned(work.ops[c][i], plans[i])
        <4>1. CASE i = o.at
          BY <2>2, <2>8, <2>9, <4>1 DEF Planned
        <4>2. CASE i # o.at
          <5>1. i \in 1..Len(o.plans) /\ plans[i] = o.plans[i]
            BY <2>2, <2>7, <2>8, <4>2
          <5>2. Planned(work.ops[c][i], o.plans[i])
            BY <1>1, <2>2, <5>1 DEF Sane
          <5> QED BY <5>1, <5>2 DEF Planned
        <4> QED BY <4>1, <4>2
      <3> QED BY <3>1
    <2>11. /\ pc = "batch" => at = o.at /\ Len(plans) = Len(work.ops[c])
           /\ pc = "scan" => at = o.at + 1 /\ at \in 1..Len(work.ops[c]) /\ Len(plans) = at - 1 /\ at # 1
           /\ o.at > 1 => at > 1
      <3>1. PICK n, m : n = Len(work.ops[c]) /\ m = Len(plans)
        OBVIOUS
      <3>2. n \in Nat /\ o.at \in 1..n /\ m = o.at
        BY <2>2, <2>8, <3>1
      <3>3. /\ pc = IF o.at = n THEN "batch" ELSE "scan"
            /\ at = IF o.at = n THEN o.at ELSE o.at + 1
        BY <2>2, <2>3, <3>1
      <3>4. /\ pc = "batch" => at = o.at /\ m = n
            /\ pc = "scan" => at = o.at + 1 /\ at \in 1..n /\ m = at - 1 /\ at # 1
            /\ o.at > 1 => at > 1
        BY <3>2, <3>3
      <3> QED BY <3>1, <3>4
    <2>12. /\ o.outcome = "none" /\ (o.at > 1 \/ draft[c] = Untouched)
           /\ (o.attempt = 2 => Len(work.ops[c]) = 1 /\ work.ops[c][1].kind = "upsert")
           /\ (o.at = 1 => o.rows = <<>>)
      BY <2>2 DEF Sane
    <2>13. Sane(c, s, draft'[c])
      <3>1. s.pc \in {"scan", "batch"} /\ s.at \in DOMAIN work.ops[c] /\ s.outcome = "none"
        BY <2>2, <2>5, <2>6, <2>11, <2>12
      <3>2. s.at > 1 \/ draft'[c] = Untouched
        BY <2>4, <2>2, <2>3, <2>6, <2>11, <2>12
      <3>3. s.at = 1 => s.rows = <<>>
        BY <2>2, <2>3, <2>5, <2>6, <2>11, <2>12
      <3>4. s.attempt = 2 => Len(work.ops[c]) = 1 /\ work.ops[c][1].kind = "upsert"
        BY <2>6, <2>12
      <3>5. /\ s.pc = "scan" => Len(s.plans) = s.at - 1
            /\ s.pc = "batch" => Len(s.plans) = Len(work.ops[c])
            /\ \A i \in 1..Len(s.plans) : Planned(work.ops[c][i], s.plans[i])
        BY <2>6, <2>10, <2>11
      <3> QED BY <1>1, <3>1, <3>2, <3>3, <3>4, <3>5 DEF Sane
    <2>14. \E x : Moves(c, x) /\ Sane(c, x, draft'[c])
      BY <2>4, <2>6, <2>13 DEF Moves
    <2> QED BY <1>1, <2>4, <2>14 DEF Kept, TypeOK
  <1> QED BY <1>3, <1>4

LEMMA SuspectsType ==
  ASSUME TypeOK, CallInv, NEW c \in Calls, call[c].pc = "batch",
         NEW q, q = FlattenSeq([i \in DOMAIN work.ops[c] |->
                                  Guards(work.ops[c][i], call[c].plans[i])])
  PROVE  /\ q \in Seq(Premises)
         /\ Len(work.ops[c]) = 1 => q \in Seq(Range(Guards(work.ops[c][1], call[c].plans[1])))
  <1>1. PICK n, ops, plans : n = Len(work.ops[c]) /\ ops = work.ops[c] /\ plans = call[c].plans
    OBVIOUS
  <1>2. /\ n \in Nat /\ DOMAIN ops = 1..n /\ Sane(c, call[c], draft[c]) /\ plans \in Seq(Plans)
        /\ \A i \in 1..n : ops[i] \in Ops
    BY <1>1, OpType, Running, CallType
  <1>3. ~Interactive /\ Len(plans) = n /\ \A i \in 1..n : Planned(ops[i], plans[i])
    BY <1>1, <1>2 DEF Sane
  <1>4. ASSUME NEW i \in 1..n PROVE Guards(ops[i], plans[i]) \in Seq(Premises)
    <2>1. PICK op, p : op = ops[i] /\ p = plans[i]
      OBVIOUS
    <2>2. op \in Ops /\ p \in Plans /\ Given(op, p) /\ p.arm # "missing"
      BY <1>2, <1>3, <2>1 DEF Given, Planned
    <2>3. Guards(op, p) \in Seq(Premises)
      BY <1>3, <2>2, GuardsType
    <2>4. Guards(ops[i], plans[i]) = Guards(op, p)
      BY <2>1 DEF Guards
    <2> QED BY <2>3, <2>4
  <1>5. PICK seqs : seqs = [i \in 1..n |-> Guards(ops[i], plans[i])]
    OBVIOUS
  <1>6. /\ \A i \in 1..n : seqs[i] = Guards(ops[i], plans[i]) /\ seqs[i] \in Seq(Premises)
        /\ seqs \in [1..n -> Seq(Premises)]
    BY <1>4, <1>5
  <1>7. seqs \in Seq(Seq(Premises)) /\ Len(seqs) = n
    BY <1>2, <1>6
  <1>8. seqs = <<>> <=> n = 0
    BY <1>7
  <1>9. q = FlattenSeq(seqs)
    BY <1>1, <1>2, <1>5
  <1>10. q \in Seq(Premises)
    BY <1>2, <1>6, <1>7, <1>8, <1>9, FlattenSeqType
  <1>11. ASSUME n = 1 PROVE q \in Seq(Range(Guards(ops[1], plans[1])))
    <2>1. PICK P : P = Range(seqs[1])
      OBVIOUS
    <2>2. seqs[1] \in Seq(Premises)
      BY <1>6, <1>11
    <2>3. seqs[1] \in Seq(P)
      BY <2>1, <2>2 DEF Range
    <2>4. \A i \in 1..n : seqs[i] \in Seq(P)
      BY <1>11, <2>3
    <2>5. q \in Seq(P)
      BY <1>2, <1>7, <1>8, <1>9, <2>4, FlattenSeqType
    <2>6. seqs[1] = Guards(ops[1], plans[1])
      BY <1>6, <1>11
    <2> QED BY <2>1, <2>5, <2>6
  <1> QED BY <1>1, <1>10, <1>11

\* A guard of a lone call is one of its only operation.
LEMMA GuardingOne ==
  ASSUME TypeOK, CallInv, NEW c \in Calls, call[c].pc \in {"batch", "blame"}, Single(c), NEW g,
         \/ g \in Guarding(c)
         \/ g \in Range(Guards(work.ops[c][1], call[c].plans[1]))
  PROVE  /\ GuardOf(work.ops[c][1], call[c].plans[1], g)
         /\ g.raceable \in BOOLEAN
         /\ g.raceable => work.ops[c][1].kind = "upsert"
  <1>1. PICK op, p : op = work.ops[c][1] /\ p = call[c].plans[1]
    OBVIOUS
  <1>2. /\ DOMAIN work.ops[c] = 1..Len(work.ops[c]) /\ Len(work.ops[c]) = 1
        /\ op \in Ops /\ Sane(c, call[c], draft[c]) /\ call[c].plans \in Seq(Plans)
    BY <1>1, OpType, Running, CallType DEF Single
  <1>3. ~Interactive /\ Len(call[c].plans) = 1 /\ Planned(op, p)
    BY <1>1, <1>2 DEF Sane
  <1>4. p \in Plans /\ Given(op, p) /\ p.arm # "missing"
    BY <1>1, <1>2, <1>3 DEF Given, Planned
  <1>5. g \in Range(Guards(op, p))
    <2>1. 1..1 = {1}
      OBVIOUS
    <2> QED BY <1>1, <1>2, <2>1 DEF Guarding
  <1>6. GuardOf(op, p, g)
    <2>1. PICK q : q = Guards(op, p)
      OBVIOUS
    <2>2. \A x \in Range(q) : GuardOf(op, p, x)
      BY <1>2, <1>3, <1>4, <2>1, GuardsType
    <2> QED BY <1>5, <2>1, <2>2
  <1>7. g.raceable \in BOOLEAN /\ (g.raceable => op.kind = "upsert")
    <2>1. CASE g = Guard(op, Rows, FALSE, TRUE, "notFound", FALSE)
      BY <2>1 DEF Guard
    <2>2. CASE g = Found(op, p)
      BY <2>2 DEF Found, Guard
    <2>3. CASE g = Guard(op, {p.row}, TRUE, TRUE, "premise", FALSE)
      BY <2>3 DEF Guard
    <2>4. CASE g = Guard(op, {p.row}, TRUE, FALSE, "premise", TRUE) /\ op.kind = "upsert"
      BY <2>4 DEF Guard
    <2> QED BY <1>6, <2>1, <2>2, <2>3, <2>4 DEF GuardOf
  <1> QED BY <1>1, <1>6, <1>7

\* What a batch that has run comes to.
RunOutcome(c, run) ==
  \/ /\ run.fate = "ok" /\ table' = run.table /\ UNCHANGED <<draft, lock, gap>>
     /\ call' = [call EXCEPT ![c].pc = "done", ![c].outcome = "ok", ![c].rows = run.rows]
  \/ /\ run.fate = "conflict" /\ table' = table
     /\ Throw(c, "conflict", Pinned(work.ops[c][1], call[c].plans[1]))
  \/ /\ run.fate = "guard" /\ table' = table
     /\ \E g \in Guarding(c) :
          /\ run.culprit = <<g>>
          /\ \/ Throw(c, g.why, g.raceable)
             \/ /\ UNCHANGED <<draft, lock, gap>>
                /\ call' = [call EXCEPT ![c].pc = "blame",
                      ![c].suspects = FlattenSeq([i \in DOMAIN work.ops[c] |->
                                         Guards(work.ops[c][i], call[c].plans[i])])]

LEMMA RunBatchDoes ==
  ASSUME TypeOK, CallInv, UniqueKeys(table), NEW c \in Calls, RunBatch(c),
         NEW run, run = BatchRun(table, work.ops[c], call[c].plans)
  PROVE  /\ run \in Sound(c)
         /\ call[c].pc = "batch"
         /\ RunOutcome(c, run)
  <1>1. run \in Sound(c) /\ call[c].pc = "batch"
    BY BatchSound DEF RunBatch
  <1>2. \/ /\ run.fate = "ok" /\ table' = run.table /\ UNCHANGED <<draft, lock, gap>>
           /\ call' = [call EXCEPT ![c].pc = "done", ![c].outcome = "ok", ![c].rows = run.rows]
        \/ /\ run.fate = "conflict" /\ table' = table
           /\ Throw(c, "conflict", Pinned(work.ops[c][1], call[c].plans[1]))
        \/ /\ run.fate = "guard" /\ table' = table
           /\ \/ Throw(c, run.culprit[1].why, run.culprit[1].raceable)
              \/ /\ UNCHANGED <<draft, lock, gap>>
                 /\ call' = [call EXCEPT ![c].pc = "blame",
                       ![c].suspects = FlattenSeq([i \in DOMAIN work.ops[c] |->
                                          Guards(work.ops[c][i], call[c].plans[i])])]
    BY DEF RunBatch
  <1>3. ASSUME run.fate = "guard"
        PROVE  \E g \in Guarding(c) : run.culprit = <<g>> /\ run.culprit[1] = g
    BY <1>1, <1>3 DEF Sound
  <1>4. ASSUME run.fate = "guard" PROVE RunOutcome(c, run)
    <2>1. PICK g \in Guarding(c) : run.culprit = <<g>> /\ run.culprit[1] = g
      BY <1>3, <1>4
    <2>2. \/ Throw(c, g.why, g.raceable)
          \/ /\ UNCHANGED <<draft, lock, gap>>
             /\ call' = [call EXCEPT ![c].pc = "blame",
                   ![c].suspects = FlattenSeq([i \in DOMAIN work.ops[c] |->
                                      Guards(work.ops[c][i], call[c].plans[i])])]
      BY <1>2, <1>4, <2>1
    <2> QED BY <1>2, <1>4, <2>1, <2>2 DEF RunOutcome
  <1>5. ASSUME run.fate # "guard" PROVE RunOutcome(c, run)
    BY <1>2, <1>5 DEF RunOutcome
  <1>6. RunOutcome(c, run)
    BY <1>4, <1>5
  <1> QED BY <1>1, <1>6

LEMMA PremiseType ==
  ASSUME NEW g \in Premises
  PROVE  g.why \in Reasons /\ g.raceable \in BOOLEAN
  BY DEF Premises, Reasons

LEMMA RunBatchKept ==
  ASSUME TypeOK, CallInv, UniqueKeys(table), NEW c \in Calls, draft[c] = Untouched, RunBatch(c)
  PROVE  Kept(c)
  <1>1. PICK run : run = BatchRun(table, work.ops[c], call[c].plans)
    OBVIOUS
  <1>2. run \in Sound(c) /\ call[c].pc = "batch" /\ run \in Outcomes
    BY <1>1, RunBatchDoes DEF Sound
  <1>3. CASE /\ run.fate = "ok" /\ table' = run.table /\ UNCHANGED <<draft, lock, gap>>
             /\ call' = [call EXCEPT ![c].pc = "done", ![c].outcome = "ok", ![c].rows = run.rows]
    <2>1. PICK rows : rows = run.rows
      OBVIOUS
    <2>2. rows \in Seq(Rows \cup {NoRow}) /\ run.table \in Tables
      BY <1>2, <2>1 DEF Outcomes
    <2>3. call' = [call EXCEPT ![c].pc = "done", ![c].outcome = "ok", ![c].rows = rows]
          /\ draft'[c] = Untouched
      BY <1>3, <2>1
    <2>4. \E s : Moves(c, s) /\ Sane(c, s, draft'[c])
      BY <1>2, <2>2, <2>3, DoneKept
    <2> QED BY <1>3, <2>2, <2>4 DEF Kept, TypeOK
  <1>4. CASE /\ table' = table
             /\ Throw(c, "conflict", Pinned(work.ops[c][1], call[c].plans[1]))
    <2>1. PICK raceable : raceable = Pinned(work.ops[c][1], call[c].plans[1])
      OBVIOUS
    <2>2. Throw(c, "conflict", raceable) /\ raceable \in BOOLEAN
          /\ (raceable => work.ops[c][1].kind = "upsert")
      BY <1>4, <2>1 DEF Pinned
    <2> QED BY <1>2, <1>4, <2>2, ThrowKept DEF Reasons
  <1>5. ASSUME NEW g \in Guarding(c), table' = table, Throw(c, g.why, g.raceable)
        PROVE  Kept(c)
    <2>1. g \in Premises
      BY DEF Guarding
    <2>2. PICK why, raceable : why = g.why /\ raceable = g.raceable
      OBVIOUS
    <2>3. why \in Reasons /\ raceable \in BOOLEAN /\ Throw(c, why, raceable)
      BY <1>5, <2>1, <2>2, PremiseType
    <2>4. raceable /\ Single(c) => work.ops[c][1].kind = "upsert"
      BY <1>2, <2>2, GuardingOne
    <2> QED BY <1>2, <1>5, <2>3, <2>4, ThrowKept
  <1>6. CASE /\ table' = table /\ UNCHANGED <<draft, lock, gap>>
             /\ call' = [call EXCEPT ![c].pc = "blame",
                   ![c].suspects = FlattenSeq([i \in DOMAIN work.ops[c] |->
                                      Guards(work.ops[c][i], call[c].plans[i])])]
    <2>1. PICK o, q : o = call[c] /\ q = FlattenSeq([i \in DOMAIN work.ops[c] |->
                                      Guards(work.ops[c][i], call[c].plans[i])])
      OBVIOUS
    <2>2. /\ o \in CallStates /\ o.pc = "batch" /\ Sane(c, o, draft[c])
          /\ q \in Seq(Premises)
          /\ (Len(work.ops[c]) = 1 => q \in Seq(Range(Guards(work.ops[c][1], o.plans[1]))))
      BY <1>2, <2>1, CallType, Running, SuspectsType
    <2> DEFINE s == [o EXCEPT !.pc = "blame", !.suspects = q]
    <2>3. call' = [call EXCEPT ![c] = s]
      BY <1>6, <2>1 DEF TypeOK
    <2>4. /\ s \in CallStates
          /\ s.pc = "blame" /\ s.at = o.at /\ s.attempt = o.attempt /\ s.plans = o.plans
          /\ s.suspects = q /\ s.outcome = o.outcome /\ s.rows = o.rows
      BY <2>2 DEF CallStates
    <2> HIDE DEF s
    <2>5. Sane(c, s, draft'[c])
      BY <1>6, <2>2, <2>4 DEF Sane
    <2>6. \E x : Moves(c, x) /\ Sane(c, x, draft'[c])
      BY <2>3, <2>4, <2>5 DEF Moves
    <2> QED BY <1>6, <2>6 DEF Kept, TypeOK
  <1>7. RunOutcome(c, run)
    BY <1>1, RunBatchDoes
  <1> QED BY <1>3, <1>4, <1>5, <1>6, <1>7 DEF RunOutcome

LEMMA BlameDoes ==
  ASSUME TypeOK, CallInv, NEW c \in Calls, Blame(c)
  PROVE  /\ call[c].pc = "blame" /\ table' = table
         /\ \/ call[c].suspects = <<>> /\ Throw(c, "unattributed", FALSE)
            \/ \E g \in Premises :
                 /\ call[c].suspects # <<>> /\ g = Head(call[c].suspects)
                 /\ \/ ~GuardHolds(table, g) /\ Throw(c, g.why, g.raceable)
                    \/ /\ GuardHolds(table, g) /\ UNCHANGED <<draft, lock, gap>>
                       /\ call' = [call EXCEPT ![c].suspects = Tail(@)]
  <1>1. call[c].pc = "blame" /\ table' = table /\ call[c].suspects \in Seq(Premises)
    BY CallType DEF Blame
  <1>2. CASE call[c].suspects = <<>>
    <2>1. Reject(c, "unattributed")
      BY <1>2 DEF Blame
    <2> QED BY <1>1, <1>2, <2>1, RejectThrows
  <1>3. CASE call[c].suspects # <<>>
    <2>1. PICK g : g = Head(call[c].suspects)
      OBVIOUS
    <2>2. g \in Premises
      BY <1>1, <1>3, <2>1
    <2>3. \/ ~GuardHolds(table, g) /\ Throw(c, g.why, g.raceable)
          \/ /\ GuardHolds(table, g) /\ UNCHANGED <<draft, lock, gap>>
             /\ call' = [call EXCEPT ![c].suspects = Tail(@)]
      BY <1>3, <2>1 DEF Blame
    <2> QED BY <1>1, <1>3, <2>1, <2>2, <2>3
  <1> QED BY <1>2, <1>3

LEMMA BlameKept ==
  ASSUME TypeOK, CallInv, NEW c \in Calls, Blame(c)
  PROVE  Kept(c)
  <1>1. call[c].pc = "blame" /\ table' = table
    BY BlameDoes
  <1>2. CASE Throw(c, "unattributed", FALSE)
    BY <1>1, <1>2, ThrowKept DEF Reasons
  <1>3. ASSUME NEW g \in Premises, call[c].suspects # <<>>, g = Head(call[c].suspects),
               Throw(c, g.why, g.raceable)
        PROVE  Kept(c)
    <2>1. PICK why, raceable : why = g.why /\ raceable = g.raceable
      OBVIOUS
    <2>2. why \in Reasons /\ raceable \in BOOLEAN /\ Throw(c, why, raceable)
      BY <1>3, <2>1, PremiseType
    <2>3. raceable /\ Single(c) => work.ops[c][1].kind = "upsert"
      <3>1. SUFFICES ASSUME Single(c) PROVE raceable => work.ops[c][1].kind = "upsert"
        OBVIOUS
      <3>2. Sane(c, call[c], draft[c]) /\ Len(work.ops[c]) = 1
        BY <1>1, <3>1, Running DEF Single
      <3>3. call[c].suspects \in Seq(Range(Guards(work.ops[c][1], call[c].plans[1])))
        BY <1>1, <3>2 DEF Sane
      <3>4. g \in Range(Guards(work.ops[c][1], call[c].plans[1]))
        BY <1>3, <3>3
      <3> QED BY <1>1, <2>1, <3>1, <3>4, GuardingOne
    <2> QED BY <1>1, <2>2, <2>3, ThrowKept
  <1>4. CASE /\ call[c].suspects # <<>> /\ UNCHANGED <<draft, lock, gap>>
             /\ call' = [call EXCEPT ![c].suspects = Tail(@)]
    <2>1. PICK o, q : o = call[c] /\ q = Tail(call[c].suspects)
      OBVIOUS
    <2>2. /\ o \in CallStates /\ o.pc = "blame" /\ Sane(c, o, draft[c])
          /\ o.suspects \in Seq(Premises) /\ o.suspects # <<>> /\ q = Tail(o.suspects)
      BY <1>1, <1>4, <2>1, CallType, Running
    <2>3. /\ q \in Seq(Premises)
          /\ (Len(work.ops[c]) = 1 => q \in Seq(Range(Guards(work.ops[c][1], o.plans[1]))))
      <3>1. q \in Seq(Premises)
        BY <2>2
      <3>2. ASSUME Len(work.ops[c]) = 1 PROVE q \in Seq(Range(Guards(work.ops[c][1], o.plans[1])))
        <4>1. PICK P : P = Range(Guards(work.ops[c][1], o.plans[1]))
          OBVIOUS
        <4>2. o.suspects \in Seq(P)
          BY <2>2, <3>2, <4>1 DEF Sane
        <4>3. o.suspects # <<>> /\ q = Tail(o.suspects)
          BY <2>2
        <4>4. q \in Seq(P)
          BY <4>2, <4>3
        <4> QED BY <4>1, <4>4
      <3> QED BY <3>1, <3>2
    <2> DEFINE s == [o EXCEPT !.suspects = q]
    <2>4. call' = [call EXCEPT ![c] = s]
      BY <1>4, <2>1 DEF TypeOK
    <2>5. /\ s \in CallStates
          /\ s.pc = "blame" /\ s.at = o.at /\ s.attempt = o.attempt /\ s.plans = o.plans
          /\ s.suspects = q /\ s.outcome = o.outcome /\ s.rows = o.rows
      BY <2>2, <2>3 DEF CallStates
    <2> HIDE DEF s
    <2>6. Sane(c, s, draft'[c])
      BY <1>4, <2>2, <2>3, <2>5 DEF Sane
    <2>7. \E x : Moves(c, x) /\ Sane(c, x, draft'[c])
      BY <2>4, <2>5, <2>6 DEF Moves
    <2> QED BY <1>1, <1>4, <2>7 DEF Kept, TypeOK
  <1> QED BY <1>2, <1>3, <1>4, BlameDoes

LEMMA StepKept ==
  ASSUME TypeOK, CallInv, ServerInv, NEW c \in Calls, Step(c) \/ Deadlock(c)
  PROVE  Kept(c) /\ History /\ work' = work
  <1>1. History /\ work' = work
    BY DEF Step, Deadlock, Recorded
  <1> SUFFICES Kept(c)
    BY <1>1
  <1>2. CASE Begin(c)
    BY <1>2, BeginKept
  <1>3. CASE Locate(c) \/ Wake(c)
    BY <1>3, LocateTakes, TakeKept
  <1>4. CASE Wait(c)
    BY <1>4, WaitKept
  <1>5. CASE Write(c)
    BY <1>5, WriteKept
  <1>6. CASE Commit(c)
    BY <1>6, CommitKept
  <1>7. CASE PlanBatch(c)
    BY <1>7, PlanBatchKept
  <1>8. CASE RunBatch(c)
    <2>1. Sane(c, call[c], draft[c]) /\ call[c].pc = "batch"
      BY <1>8, Running DEF RunBatch
    <2>2. ~Interactive
      BY <2>1 DEF Sane
    <2>3. UniqueKeys(table) /\ draft[c] = Untouched
      BY <2>2 DEF ServerInv, Server, UniqueViews, Unheld
    <2> QED BY <1>8, <2>3, RunBatchKept
  <1>9. CASE Blame(c)
    BY <1>9, BlameKept
  <1>10. CASE Victim(c)
    BY <1>10, VictimKept
  <1>11. \/ Begin(c) \/ Locate(c) \/ Wait(c) \/ Wake(c) \/ Write(c) \/ Commit(c)
         \/ PlanBatch(c) \/ RunBatch(c) \/ Blame(c) \/ Victim(c)
    BY DEF Step, Deadlock, Recorded
  <1> QED BY <1>1, <1>2, <1>3, <1>4, <1>5, <1>6, <1>7, <1>8, <1>9, <1>10, <1>11
-----------------------------------------------------------------------------
(***************************************************************************)
(* The server.  What a lock, a rollback, a write and a COMMIT do to the    *)
(* committed rows t, the drafts dr and the locks lk.                       *)
(***************************************************************************)

Drafts == [Calls -> [Rows -> Values \cup {Absent, Same}]]
Locks  == [Rows -> Calls \cup {Nobody}]

Unlocked(lk, c) == [r \in Rows |-> IF lk[r] = c THEN Nobody ELSE lk[r]]

LEMMA SeenAt ==
  ASSUME NEW t \in Tables, NEW w \in [Rows -> Values \cup {Absent, Same}], NEW r \in Rows
  PROVE  Seen(t, w)[r] = IF w[r] = Same THEN t[r] ELSE w[r]
  BY DEF Seen

LEMMA UntouchedSees ==
  ASSUME NEW t \in Tables
  PROVE  Seen(t, Untouched) = t
  BY DEF Seen, Untouched, Tables

LEMMA LeaveServer ==
  ASSUME NEW w, NEW t \in Tables, NEW dr \in Drafts, NEW lk \in Locks, NEW c \in Calls,
         Server(w, t, dr, lk),
         NEW dr2, dr2 = [dr EXCEPT ![c] = Untouched]
  PROVE  Server(w, t, dr2, Unlocked(lk, c))
  <1>1. /\ \A d \in Calls, r \in Rows : dr2[d][r] = IF d = c THEN Same ELSE dr[d][r]
        /\ \A d \in Calls : dr2[d] = IF d = c THEN Untouched ELSE dr[d]
    BY DEF Drafts, Untouched
  <1>2. \A r \in Rows : Unlocked(lk, c)[r] = IF lk[r] = c THEN Nobody ELSE lk[r]
    BY DEF Unlocked
  <1>3. Nobody \notin Calls
    BY MarkersAssumption
  <1>4. Own(w, t, dr2, Unlocked(lk, c))
    BY <1>1, <1>2, <1>3 DEF Server, Own
  <1>5. Present(t, dr2, Unlocked(lk, c))
    BY <1>1, <1>2, <1>3 DEF Server, Present
  <1>6. UniqueViews(t, dr2)
    BY <1>1, UntouchedSees DEF Server, UniqueViews
  <1>7. OwnKeys(dr2)
    BY <1>1 DEF Server, OwnKeys
  <1> QED BY <1>4, <1>5, <1>6, <1>7 DEF Server

LEMMA TakeServer ==
  ASSUME NEW w, NEW t \in Tables, NEW dr \in Drafts, NEW lk \in Locks, NEW c \in Calls,
         Server(w, t, dr, lk), NEW r \in Rows, lk[r] \in {c, Nobody},
         Seen(t, dr[c])[r] # Absent,
         NEW lk2, lk2 = [lk EXCEPT ![r] = c]
  PROVE  Server(w, t, dr, lk2)
  <1>1. \A x \in Rows : lk2[x] = IF x = r THEN c ELSE lk[x]
    BY DEF Locks
  <1>2. Nobody \notin Calls
    BY MarkersAssumption
  <1>3. Own(w, t, dr, lk2)
    BY <1>1, <1>2 DEF Server, Own
  <1>4. t[r] = Absent => dr[c][r] # Same
    <2>1. dr[c] \in [Rows -> Values \cup {Absent, Same}]
      BY DEF Drafts
    <2> QED BY <2>1, SeenAt
  <1>5. Present(t, dr, lk2)
    BY <1>1, <1>2, <1>4 DEF Server, Present
  <1> QED BY <1>3, <1>5 DEF Server

\* The row that c touches, and those that it changes from v to new, are free or its
\* own; new ones are its to create; and no other call has written their keys.
Changes(w, dr, lk, c, v, new, row) ==
  /\ \A r \in Rows : new[r] # v[r] =>
       lk[r] \in {c, Nobody} /\ (v[r] = Absent => r \in Created(w.ops[c]))
  /\ row \in Rows => lk[row] \in {c, Nobody} /\ (v[row] # Absent \/ new[row] # v[row])
  /\ \A r, s \in Rows, d \in Calls :
       new[r] # v[r] /\ new[r] # Absent /\ d # c /\ dr[d][s] \notin {Same, Absent}
         => dr[d][s].key # new[r].key

Drafted(dr, lk, c, v, new, row, dr2, lk2) ==
  /\ dr2[c] = [r \in Rows |-> IF new[r] # v[r] THEN new[r] ELSE dr[c][r]]
  /\ \A d \in Calls : d # c => dr2[d] = dr[d]
  /\ lk2 = [r \in Rows |-> IF new[r] # v[r] \/ r = row THEN c ELSE lk[r]]

LEMMA KeepServer ==
  ASSUME NEW w, NEW t \in Tables, NEW dr \in Drafts, NEW lk \in Locks, NEW c \in Calls,
         Server(w, t, dr, lk),
         NEW v, v = Seen(t, dr[c]), NEW new \in Tables, UniqueKeys(new),
         NEW row, Changes(w, dr, lk, c, v, new, row),
         NEW dr2 \in Drafts, NEW lk2,
         Drafted(dr, lk, c, v, new, row, dr2, lk2)
  PROVE  Server(w, t, dr2, lk2) /\ Seen(t, dr2[c]) = new
  <1>1. /\ \A r \in Rows : dr2[c][r] = IF new[r] # v[r] THEN new[r] ELSE dr[c][r]
        /\ \A r \in Rows : lk2[r] = IF new[r] # v[r] \/ r = row THEN c ELSE lk[r]
        /\ \A r \in Rows : v[r] = IF dr[c][r] = Same THEN t[r] ELSE dr[c][r]
        /\ \A d \in Calls : d # c => dr2[d] = dr[d]
    BY DEF Seen, Drafted
  <1>2. /\ Nobody \notin Calls
        /\ \A r \in Rows : new[r] # Same
    BY MarkersAssumption DEF Tables
  <1>0. /\ \A r \in Rows : new[r] # v[r] =>
             lk[r] \in {c, Nobody} /\ (v[r] = Absent => r \in Created(w.ops[c]))
        /\ row \in Rows => lk[row] \in {c, Nobody} /\ (v[row] # Absent \/ new[row] # v[row])
        /\ \A r, s \in Rows, d \in Calls :
             new[r] # v[r] /\ new[r] # Absent /\ d # c /\ dr[d][s] \notin {Same, Absent}
               => dr[d][s].key # new[r].key
    BY DEF Changes
  <1>3. Own(w, t, dr2, lk2)
    <2>1. SUFFICES ASSUME NEW d \in Calls, NEW r \in Rows, dr2[d][r] # Same
                   PROVE  lk2[r] = d /\ (t[r] = Absent => r \in Created(w.ops[d]))
      BY DEF Own
    <2>2. \A e \in Calls, x \in Rows :
            dr[e][x] # Same => lk[x] = e /\ (t[x] = Absent => x \in Created(w.ops[e]))
      BY DEF Server, Own
    <2>3. CASE d = c
      BY <1>0, <1>1, <2>1, <2>2, <2>3
    <2>4. CASE d # c
      BY <1>0, <1>1, <1>2, <2>1, <2>2, <2>4
    <2> QED BY <2>3, <2>4
  <1>4. Present(t, dr2, lk2)
    BY <1>0, <1>1, <1>2 DEF Server, Present
  <1>5. Seen(t, dr2[c]) = new
    <2>1. ASSUME NEW r \in Rows PROVE (IF dr2[c][r] = Same THEN t[r] ELSE dr2[c][r]) = new[r]
      <3>1. CASE new[r] # v[r]
        BY <1>1, <1>2, <3>1
      <3>2. CASE new[r] = v[r]
        <4>1. dr2[c][r] = dr[c][r] /\ v[r] = IF dr[c][r] = Same THEN t[r] ELSE dr[c][r]
          BY <1>1, <3>2
        <4> QED BY <3>2, <4>1
      <3> QED BY <3>1, <3>2
    <2>2. new = [r \in Rows |-> new[r]]
      BY DEF Tables
    <2> QED BY <2>1, <2>2 DEF Seen
  <1>6. UniqueViews(t, dr2)
    BY <1>1, <1>5 DEF Server, UniqueViews
  <1>7. OwnKeys(dr2)
    <2>1. SUFFICES ASSUME NEW d \in Calls, NEW e \in Calls, NEW r \in Rows, NEW s \in Rows, d # e,
                          dr2[d][r] \notin {Same, Absent}, dr2[e][s] \notin {Same, Absent}
                   PROVE  dr2[d][r].key # dr2[e][s].key
      BY DEF OwnKeys
    <2>2. \A x, y \in Calls, i, j \in Rows :
             x # y /\ dr[x][i] \notin {Same, Absent} /\ dr[y][j] \notin {Same, Absent}
               => dr[x][i].key # dr[y][j].key
      BY DEF Server, OwnKeys
    <2>3. CASE d = c
      <3>1. dr2[e] = dr[e]
        BY <1>1, <2>1, <2>3
      <3> QED BY <1>0, <1>1, <2>1, <2>2, <2>3, <3>1
    <2>4. CASE e = c
      <3>1. dr2[d] = dr[d]
        BY <1>1, <2>1, <2>4
      <3> QED BY <1>0, <1>1, <2>1, <2>2, <2>4, <3>1
    <2>5. CASE d # c /\ e # c
      BY <1>1, <2>1, <2>2, <2>5
    <2> QED BY <2>3, <2>4, <2>5
  <1> QED BY <1>3, <1>4, <1>5, <1>6, <1>7 DEF Server

LEMMA PublishServer ==
  ASSUME NEW w, NEW t \in Tables, NEW dr \in Drafts, NEW lk \in Locks, NEW c \in Calls,
         Server(w, t, dr, lk),
         NEW t2 \in Tables, t2 = Seen(t, dr[c]), NEW dr2, dr2 = [dr EXCEPT ![c] = Untouched]
  PROVE  Server(w, t2, dr2, Unlocked(lk, c))
  <1>1. /\ \A d \in Calls, r \in Rows : dr2[d][r] = IF d = c THEN Same ELSE dr[d][r]
        /\ \A d \in Calls : dr2[d] = IF d = c THEN Untouched ELSE dr[d]
    BY DEF Drafts, Untouched
  <1>2. \A r \in Rows : Unlocked(lk, c)[r] = IF lk[r] = c THEN Nobody ELSE lk[r]
    BY DEF Unlocked
  <1>3. Nobody \notin Calls
    BY MarkersAssumption
  <1>4. \A r \in Rows : t2[r] = IF dr[c][r] = Same THEN t[r] ELSE dr[c][r]
    BY DEF Seen
  <1>5. \A e \in Calls, x \in Rows :
          dr[e][x] # Same => lk[x] = e /\ (t[x] = Absent => x \in Created(w.ops[e]))
    BY DEF Server, Own
  <1>6. \A e \in Calls, x \in Rows : e # c /\ lk[x] = e => t2[x] = t[x]
    BY <1>4, <1>5
  <1>7. Own(w, t2, dr2, Unlocked(lk, c))
    BY <1>1, <1>2, <1>3, <1>5, <1>6 DEF Own
  <1>8. Present(t2, dr2, Unlocked(lk, c))
    BY <1>1, <1>2, <1>3, <1>6 DEF Server, Present
  <1>9. UniqueKeys(t2)
    BY DEF Server, UniqueViews
  <1>10. ASSUME NEW d \in Calls, d # c PROVE UniqueKeys(Seen(t2, dr[d]))
    <2>1. /\ UniqueKeys(Seen(t, dr[d])) /\ OwnKeys(dr)
      BY DEF Server, UniqueViews
    <2>2. \A r \in Rows : /\ Seen(t, dr[d])[r] = IF dr[d][r] = Same THEN t[r] ELSE dr[d][r]
                          /\ Seen(t2, dr[d])[r] = IF dr[d][r] = Same THEN t2[r] ELSE dr[d][r]
      BY DEF Seen
    <2>3. \A r, s \in Rows : t2[r] # Absent /\ t2[s] # Absent /\ t2[r].key = t2[s].key => r = s
      BY <1>9 DEF UniqueKeys
    <2>4. ASSUME NEW r \in Rows, NEW s \in Rows, dr[d][r] \notin {Same, Absent}, dr[d][s] = Same,
                 t2[s] # Absent, t2[s].key = dr[d][r].key
          PROVE  r = s
      <3>1. CASE dr[c][s] = Same
        <4>1. t2[s] = t[s]
          BY <1>4, <3>1
        <4> QED BY <2>1, <2>2, <2>4, <4>1 DEF UniqueKeys
      <3>2. CASE dr[c][s] # Same
        <4>1. dr[c][s] = t2[s]
          BY <1>4, <3>2
        <4> QED BY <1>10, <2>1, <2>4, <3>2, <4>1 DEF OwnKeys
      <3> QED BY <3>1, <3>2
    <2>5. ASSUME NEW r \in Rows, NEW s \in Rows, dr[d][r] \notin {Same, Absent},
                 dr[d][s] \notin {Same, Absent}, dr[d][r].key = dr[d][s].key
          PROVE  r = s
      BY <2>1, <2>2, <2>5 DEF UniqueKeys
    <2> QED BY <2>2, <2>3, <2>4, <2>5 DEF UniqueKeys
  <1>11. UniqueViews(t2, dr2)
    BY <1>1, <1>9, <1>10, UntouchedSees DEF UniqueViews
  <1>12. OwnKeys(dr2)
    BY <1>1 DEF Server, OwnKeys
  <1> QED BY <1>7, <1>8, <1>11, <1>12 DEF Server

\* What a statement of c did when it waited for nobody.
Cleared(c, v, op, done) ==
  \/ done.table = v /\ done.row \in Rows /\ lock[done.row] = c /\ v[done.row] # Absent
  \/ Inserts(v, op, done) /\ Entrants(c, op.create) = {}
  \/ \E r \in Selected(v, op) :
       /\ Updates(v, op, r, done) /\ lock[r] \in {c, Nobody}
       /\ op.to = op.where \/ Entrants(c, op.to) = {}
  \/ \E r \in Selected(v, op) : Deletes(v, op, r, done) /\ lock[r] \in {c, Nobody}

\* What a statement that succeeds has waited for.
LEMMA WriteEffects ==
  ASSUME TypeOK, CallInv, ServerInv, NEW c \in Calls, call[c].pc \in {"scan", "write"},
         Interactive, Unblocked(c), call[c].pc = IF Locates(Op(c)) THEN "write" ELSE "scan",
         NEW p \in Plans, p = IF Locates(Op(c)) THEN Plan(c) ELSE Unlocated(Op(c)),
         Given(Op(c), p), NEW v, v = View(c),
         NEW done, done = Statement(v, Op(c), p), done.fate = "ok"
  PROVE  Cleared(c, v, Op(c), done)
  <1>1. PICK op : op = Op(c)
    OBVIOUS
  <1>2. /\ op \in Ops /\ v \in Tables /\ (op.kind \in {"create", "upsert"} => op.row \in Rows)
        /\ op.kind \in {"create", "upsert", "update", "delete"}
    BY <1>1, Running, ViewType DEF Ops
  <1>3. Blockers(c) = {}
    BY DEF Unblocked
  <1>4. ~Locates(op) => op.kind = "create" \/ (op.kind = "upsert" /\ ~op.filter)
    BY <1>2 DEF Locates, Folded
  <1>5. \A r \in Rows : r \in Hit(v, op, p) /\ Lockers(c, Hit(v, op, p)) = {} => lock[r] \in {c, Nobody}
    BY DEF Lockers
  <1>6. p.arm = "insert" \/ (p.arm = "folded" /\ op.kind = "upsert") => Entrants(c, op.create) = {}
    <2>1. CASE Locates(op)
      <3>1. p.arm # "folded" /\ call[c].pc = "write" /\ p = Plan(c)
        BY <1>1, <2>1 DEF Given, PlanFits
      <3> QED BY <1>1, <1>3, <3>1 DEF Blockers
    <2>2. CASE ~Locates(op)
      BY <1>1, <1>3, <2>2 DEF Blockers
    <2> QED BY <2>1, <2>2
  <1>7. ASSUME NEW r \in Hit(v, op, p), p.arm \in {"update", "delete", "folded"}
        PROVE  /\ r \in Selected(v, op) /\ lock[r] \in {c, Nobody}
               /\ op.kind # "delete" => op.to = op.where \/ Entrants(c, op.to) = {}
    <2>1. r \in Rows
      BY <1>2, <1>7, HitIsThere
    <2>2. CASE Locates(op)
      <3>1. p.arm \in {"update", "delete"} /\ call[c].pc = "write" /\ p = Plan(c) /\ p.row \in Rows
            /\ (p.arm = "update" => op.kind \in {"update", "upsert"}) /\ (p.arm = "delete" => op.kind = "delete")
        BY <1>1, <1>7, <2>2 DEF Given, PlanFits
      <3>2. Hit(v, op, p) = Targets(v, op, p)
        BY <3>1 DEF Hit
      <3>3. Lockers(c, Targets(v, op, p)) = {} /\ (p.arm = "update" => op.to = op.where \/ Entrants(c, op.to) = {})
        BY <1>1, <1>3, <3>1 DEF Blockers
      <3>4. r \in Selected(v, op)
        <4>1. CASE op.kind = "upsert"
          BY <1>7, <3>2, <4>1 DEF Targets, ByWhere
        <4>2. CASE op.kind # "upsert"
          <5>1. r = p.row
            BY <1>7, <3>2, <4>2 DEF Targets, ByWhere
          <5>2. Chosen(c) /\ p.row # NoRow
            BY <3>1, MarkersAssumption DEF ServerInv
          <5> QED BY <1>1, <3>1, <5>1, <5>2 DEF Chosen
        <4> QED BY <4>1, <4>2
      <3>5. lock[r] \in {c, Nobody}
        BY <1>5, <1>7, <2>1, <3>2, <3>3
      <3>6. op.kind # "delete" => p.arm = "update"
        BY <3>1
      <3> QED BY <3>3, <3>4, <3>5, <3>6
    <2>3. CASE ~Locates(op)
      <3>1. op.kind = "upsert" /\ ~op.filter /\ call[c].pc = "scan" /\ p.arm = "folded"
        <4>1. p.arm \in {"insert", "folded"} /\ (op.kind = "create" => p.arm = "insert")
          BY <1>1, <2>3 DEF Given, Unlocated
        <4> QED BY <1>1, <1>4, <1>7, <2>3, <4>1
      <3>2. Hit(v, op, p) = Selected(v, op)
        BY <3>1 DEF Hit, Selected
      <3>3. Selected(v, op) # {}
        BY <1>7, <3>2
      <3>4. Lockers(c, Selected(v, op)) = {} /\ (op.to = op.where \/ Entrants(c, op.to) = {})
        BY <1>1, <1>3, <2>3, <3>1, <3>3 DEF Blockers
      <3> QED BY <1>5, <1>7, <2>1, <3>2, <3>4
    <2> QED BY <2>2, <2>3
  <1>8. \/ done.table = v /\ p.arm = "skip" /\ done.row = p.row
        \/ Inserts(v, op, done) /\ (p.arm = "insert" \/ (p.arm = "folded" /\ op.kind = "upsert"))
        \/ \E r \in Hit(v, op, p) : Updates(v, op, r, done) /\ p.arm \in {"update", "folded"}
        \/ \E r \in Hit(v, op, p) : Deletes(v, op, r, done) /\ p.arm \in {"delete", "folded"}
    <2>1. Inserts(v, op, done) /\ p.arm = "folded" => op.kind = "upsert"
      BY <1>1 DEF Inserts, Given, PlanFits, Unlocated
    <2>2. done = Statement(v, op, p) /\ Given(op, p)
      BY <1>1
    <2> QED BY <1>2, <2>1, <2>2, StatementCases
  <1>9. \A r : /\ Updates(v, op, r, done) => op.kind # "delete"
    BY DEF Updates
  <1>11. p.arm = "skip" => p.row \in Rows /\ lock[p.row] = c /\ v[p.row] # Absent
    <2>1. SUFFICES ASSUME p.arm = "skip"
                   PROVE  p.row \in Rows /\ lock[p.row] = c /\ v[p.row] # Absent
      OBVIOUS
    <2>2. Locates(op) /\ p.row \in Rows
      BY <1>1, <2>1 DEF Given, PlanFits, Unlocated
    <2>3. Chosen(c) /\ p.row # NoRow /\ p = Plan(c) /\ call[c].pc = "write"
      BY <1>1, <2>2, MarkersAssumption DEF ServerInv
    <2> QED BY <2>2, <2>3 DEF Chosen, Selected, Holder
  <1>10. \/ done.table = v /\ done.row \in Rows /\ lock[done.row] = c /\ v[done.row] # Absent
         \/ Inserts(v, op, done) /\ Entrants(c, op.create) = {}
         \/ \E r \in Selected(v, op) :
              /\ Updates(v, op, r, done) /\ lock[r] \in {c, Nobody}
              /\ op.to = op.where \/ Entrants(c, op.to) = {}
         \/ \E r \in Selected(v, op) : Deletes(v, op, r, done) /\ lock[r] \in {c, Nobody}
    <2> QED BY <1>6, <1>7, <1>8, <1>9, <1>11
  <1> QED BY <1>1, <1>10 DEF Cleared

\* The rows a statement changes are free or its own, and its new key is not
\* another's.
LEMMA WriteServer ==
  ASSUME TypeOK, CallInv, ServerInv, NEW c \in Calls, call[c].pc # "done",
         NEW op, op = Op(c), NEW v, v = View(c),
         NEW done, done.table \in Tables,
         Cleared(c, v, op, done)
  PROVE  Changes(work, draft, lock, c, v, done.table, done.row)
  <1>1. /\ op \in Ops /\ v \in Tables /\ v = Seen(table, draft[c])
        /\ op.kind \in {"create", "upsert"} => op.row \in Created(work.ops[c])
    BY Running, ViewType
  <1>2. /\ \A e \in Calls, x \in Rows :
             draft[e][x] # Same => lock[x] = e /\ (table[x] = Absent => x \in Created(work.ops[e]))
        /\ \A e \in Calls, x \in Rows : lock[x] = e /\ table[x] = Absent => draft[e][x] # Same
        /\ \A e \in Calls : UniqueKeys(Seen(table, draft[e]))
        /\ OwnKeys(draft)
    BY DEF ServerInv, Server, Own, Present, UniqueViews
  <1>3. \A e \in Calls, x \in Rows :
          Seen(table, draft[e])[x] = IF draft[e][x] = Same THEN table[x] ELSE draft[e][x]
    BY DEF Seen
  <1>4. \A e \in Calls, x \in Rows : x \in Created(work.ops[e]) /\ e # c => x \notin Created(work.ops[c])
    <2>1. work \in Workloads
      BY DEF TypeOK
    <2> QED BY <2>1, WorkloadsAssumption
  <1>5. lock \in [Rows -> Calls \cup {Nobody}]
    BY DEF TypeOK
  <1>6. ASSUME NEW k, NEW d \in Calls, NEW s \in Rows, Entrants(c, k) = {}, d # c,
               draft[d][s] \notin {Same, Absent}
        PROVE  draft[d][s].key # k
    <2>1. Claims(c, k) = {}
      BY <1>6 DEF Entrants
    <2>2. ~(draft[d][s] # Same /\ s \in Holder(View(d), k))
      BY <1>6, <2>1 DEF Claims
    <2>3. View(d)[s] = draft[d][s]
      BY <1>6 DEF View
    <2> QED BY <1>6, <2>2, <2>3 DEF Holder
  <1>7. CASE done.table = v /\ done.row \in Rows /\ lock[done.row] = c /\ v[done.row] # Absent
    BY <1>7 DEF Changes
  <1>8. CASE Inserts(v, op, done) /\ Entrants(c, op.create) = {}
    <2>1. /\ op.kind \in {"create", "upsert"} /\ op.row \in Rows /\ v[op.row] = Absent
          /\ done.table = [v EXCEPT ![op.row] = [key |-> op.create, flag |-> op.flag]]
      BY <1>8 DEF Inserts
    <2>2. \A r \in Rows : done.table[r] # v[r] => r = op.row /\ done.table[r].key = op.create
      BY <1>1, <2>1 DEF Tables
    <2>3. lock[op.row] \in {c, Nobody}
      <3>1. SUFFICES ASSUME NEW d \in Calls, d # c, lock[op.row] = d PROVE FALSE
        BY <1>5, <2>1
      <3>2. draft[c][op.row] = Same
        BY <1>2, <2>1, <3>1
      <3>3. table[op.row] = Absent
        BY <1>1, <1>3, <2>1, <3>2
      <3>4. draft[d][op.row] # Same
        BY <1>2, <2>1, <3>1, <3>3
      <3>5. op.row \in Created(work.ops[d])
        BY <1>2, <2>1, <3>3, <3>4
      <3> QED BY <1>1, <1>4, <2>1, <3>1, <3>5
    <2>4. op.row \in Created(work.ops[c]) /\ done.row = op.row
      BY <1>1, <1>8, <2>1 DEF Inserts
    <2>5. done.table[op.row] # v[op.row]
      <3>1. op.create \in Keys /\ op.flag \in BOOLEAN
        BY <1>1 DEF Ops
      <3>2. [key |-> op.create, flag |-> op.flag] \in Values
        BY <3>1 DEF Values
      <3>3. done.table[op.row] = [key |-> op.create, flag |-> op.flag]
        BY <1>1, <2>1 DEF Tables
      <3> QED BY <2>1, <3>2, <3>3, MarkersAssumption
    <2> QED BY <1>6, <1>8, <2>1, <2>2, <2>3, <2>4, <2>5 DEF Changes
  <1>9. ASSUME NEW r \in Selected(v, op), Updates(v, op, r, done), lock[r] \in {c, Nobody},
               op.to = op.where \/ Entrants(c, op.to) = {}
        PROVE  /\ \A x \in Rows : done.table[x] # v[x] =>
                    lock[x] \in {c, Nobody} /\ (v[x] = Absent => x \in Created(work.ops[c]))
               /\ lock[done.row] \in {c, Nobody} /\ v[done.row] # Absent
               /\ \A x, s \in Rows, d \in Calls :
                    /\ done.table[x] # v[x] /\ done.table[x] # Absent
                    /\ d # c /\ draft[d][s] \notin {Same, Absent}
                    => draft[d][s].key # done.table[x].key
    <2>1. /\ r \in Rows /\ v[r] # Absent /\ v[r].key = op.where /\ done.row = r
          /\ done.table = [v EXCEPT ![r] = [key |-> op.to, flag |-> op.flag]]
      BY <1>9 DEF Updates, Selected, Holder
    <2>2. \A x \in Rows : done.table[x] # v[x] => x = r /\ done.table[x].key = op.to
      BY <1>1, <2>1 DEF Tables
    <2>3. ASSUME NEW d \in Calls, NEW s \in Rows, d # c, draft[d][s] \notin {Same, Absent}
          PROVE  draft[d][s].key # op.to
      <3>1. CASE Entrants(c, op.to) = {}
        BY <1>6, <2>3, <3>1
      <3>2. CASE op.to = op.where /\ draft[c][r] # Same
        <4>1. draft[c][r] = v[r]
          BY <1>1, <1>3, <2>1, <3>2
        <4> QED BY <1>2, <2>1, <2>3, <3>2, <4>1 DEF OwnKeys
      <3>3. CASE op.to = op.where /\ draft[c][r] = Same
        <4>1. table[r] = v[r]
          BY <1>1, <1>3, <2>1, <3>3
        <4>2. draft[d][r] = Same
          BY <1>2, <1>9, <2>1, <2>3, MarkersAssumption
        <4>3. /\ Seen(table, draft[d])[r] = v[r] /\ Seen(table, draft[d])[s] = draft[d][s]
              /\ UniqueKeys(Seen(table, draft[d]))
          BY <1>2, <1>3, <2>1, <2>3, <4>1, <4>2
        <4> QED BY <2>1, <2>3, <3>3, <4>2, <4>3 DEF UniqueKeys
      <3> QED BY <1>9, <3>1, <3>2, <3>3
    <2> QED BY <1>9, <2>1, <2>2, <2>3
  <1>10. ASSUME NEW r \in Selected(v, op), Deletes(v, op, r, done), lock[r] \in {c, Nobody}
         PROVE  /\ \A x \in Rows : done.table[x] # v[x] =>
                     lock[x] \in {c, Nobody} /\ (v[x] = Absent => x \in Created(work.ops[c]))
                /\ lock[done.row] \in {c, Nobody} /\ v[done.row] # Absent
                /\ \A x \in Rows : ~(done.table[x] # v[x] /\ done.table[x] # Absent)
    <2>1. r \in Rows /\ v[r] # Absent /\ done.table = [v EXCEPT ![r] = Absent] /\ done.row = r
      BY <1>10 DEF Deletes, Selected, Holder
    <2>2. \A x \in Rows : done.table[x] # v[x] => x = r /\ done.table[x] = Absent
      BY <1>1, <2>1 DEF Tables
    <2> QED BY <1>10, <2>1, <2>2
  <1>11. PICK new : new = done.table
    OBVIOUS
  <1>12. PICK row : row = done.row
    OBVIOUS
  <1> QED BY <1>7, <1>8, <1>9, <1>10, <1>11, <1>12 DEF Cleared, Changes
-----------------------------------------------------------------------------
(***************************************************************************)
(* The steps on the server.                                                *)
(***************************************************************************)

\* What another call has locked stays locked, and as it is.
Gentle(c) ==
  /\ \A r \in Rows :
       /\ lock'[r] \in {lock[r], c, Nobody}
       /\ lock[r] \notin {c, Nobody} => lock'[r] = lock[r] /\ table'[r] = table[r]
  /\ \A k \in Keys : gap[k] \ {c} \subseteq gap'[k]

\* A step of c on the server.
Serves(c) == /\ Server(work, table', draft', lock')
             /\ Gentle(c)
             /\ \A r \in Rows : table'[r] # Absent /\ table[r] = Absent => r \in Created(work.ops[c])
             /\ ~Interactive => Unheld'

LEMMA ThrowLeaves ==
  ASSUME NEW c, NEW why, NEW raceable, Throw(c, why, raceable)
  PROVE  Leave(c)
  BY DEF Throw, Retry, Reject

LEMMA ServerTypes ==
  ASSUME TypeOK
  PROVE  table \in Tables /\ draft \in Drafts /\ lock \in Locks
  BY DEF TypeOK, Drafts, Locks

LEMMA LeaveUnlocks ==
  ASSUME NEW c, Leave(c)
  PROVE  draft' = [draft EXCEPT ![c] = Untouched] /\ lock' = Unlocked(lock, c)
  BY DEF Leave, Unlocked

LEMMA StayServes ==
  ASSUME ServerInv, NEW c, UNCHANGED <<table, draft, lock, gap>>
  PROVE  Serves(c)
  BY DEF ServerInv, Serves, Gentle, Unheld

LEMMA LeaveServes ==
  ASSUME TypeOK, ServerInv, NEW c \in Calls, Leave(c), table' = table
  PROVE  Serves(c)
  <1>1. draft' = [draft EXCEPT ![c] = Untouched] /\ lock' = Unlocked(lock, c)
    BY LeaveUnlocks
  <1>2. Server(work, table, draft', lock')
    BY <1>1, ServerTypes, LeaveServer DEF ServerInv
  <1>3. Gentle(c)
    BY <1>1, LeaveType DEF Gentle, Unlocked
  <1>4. Unheld => Unheld'
    BY LeaveType DEF Unheld
  <1> QED BY <1>2, <1>3, <1>4 DEF Serves, ServerInv

LEMMA TakeServes ==
  ASSUME TypeOK, CallInv, ServerInv, NEW c \in Calls, NEW r \in Rows \cup {NoRow}, Take(c, r),
         Interactive, Op(c) \in Ops,
         r # NoRow => r \in Selected(View(c), Op(c)) /\ Lockers(c, {r}) = {}
  PROVE  Serves(c) /\ (r # NoRow => lock'[r] = c)
  <1>1. table' = table /\ draft' = draft
    BY DEF Take
  <1>0. \A k \in Keys : gap[k] \subseteq gap'[k]
    BY DEF Take, TypeOK
  <1>2. CASE r = NoRow
    <2>1. lock' = lock
      BY <1>2 DEF Take
    <2>2. Gentle(c)
      BY <1>0, <1>1, <2>1 DEF Gentle
    <2> QED BY <1>1, <1>2, <2>1, <2>2 DEF Serves, ServerInv
  <1>3. CASE r # NoRow
    <2>1. r \in Rows /\ lock' = [lock EXCEPT ![r] = c] /\ lock \in Locks
      BY <1>3, ServerTypes DEF Take
    <2>2. lock[r] \in {c, Nobody}
      BY <1>3 DEF Lockers
    <2>3. Seen(table, draft[c])[r] # Absent
      BY <1>3, ViewType DEF Selected, Holder
    <2>4. Server(work, table, draft, lock')
      BY <2>1, <2>2, <2>3, ServerTypes, TakeServer DEF ServerInv
    <2>5. Gentle(c) /\ lock'[r] = c
      BY <1>0, <1>1, <2>1, <2>2 DEF Gentle, Locks
    <2> QED BY <1>1, <2>4, <2>5 DEF Serves
  <1> QED BY <1>2, <1>3

LEMMA CommitServes ==
  ASSUME TypeOK, CallInv, ServerInv, NEW c \in Calls, Commit(c)
  PROVE  Serves(c)
  <1>1. table' = View(c) /\ Leave(c) /\ Interactive
    BY Running DEF Commit, Sane
  <1>2. draft' = [draft EXCEPT ![c] = Untouched] /\ lock' = Unlocked(lock, c)
    BY <1>1, LeaveUnlocks
  <1>3. table' = Seen(table, draft[c]) /\ table' \in Tables
    BY <1>1, ViewType
  <1>4. Server(work, table', draft', lock')
    BY <1>2, <1>3, ServerTypes, PublishServer DEF ServerInv
  <1>5. \A r \in Rows : lock[r] # c => table'[r] = table[r]
    BY <1>3 DEF ServerInv, Server, Own, Seen
  <1>6. Gentle(c)
    BY <1>1, <1>2, <1>5, LeaveType DEF Gentle, Unlocked
  <1>7. \A r \in Rows : table'[r] # Absent /\ table[r] = Absent => r \in Created(work.ops[c])
    BY <1>3 DEF ServerInv, Server, Own, Seen
  <1> QED BY <1>1, <1>4, <1>6, <1>7 DEF Serves

LEMMA WriteServes ==
  ASSUME TypeOK, CallInv, ServerInv, NEW c \in Calls, Write(c)
  PROVE  Serves(c)
  <1>1. PICK p, done :
           /\ p \in Plans
           /\ p = (IF Locates(Op(c)) THEN Plan(c) ELSE Unlocated(Op(c)))
           /\ Given(Op(c), p) /\ done = Statement(View(c), Op(c), p)
           /\ Interactive /\ Unblocked(c)
           /\ call[c].pc = IF Locates(Op(c)) THEN "write" ELSE "scan"
           /\ \/ /\ done.fate = "ok" /\ Keep(c, done.table, done.row) /\ Advance(c, done.row)
              \/ /\ done.fate # "ok" /\ table' = table
                 /\ Throw(c, done.fate, done.fate = "conflict" /\ Pinned(Op(c), p))
    BY WriteDoes
  <1>2. CASE done.fate # "ok"
    BY <1>1, <1>2, ThrowLeaves, LeaveServes
  <1>3. CASE done.fate = "ok"
    <2>1. PICK v : v = View(c)
      OBVIOUS
    <2>2. PICK op : op = Op(c)
      OBVIOUS
    <2>3. call[c].pc \in {"scan", "write"} /\ call[c].pc # "done"
      BY <1>1
    <2>4. v \in Tables /\ v = Seen(table, draft[c]) /\ op \in Ops
          /\ (op.kind \in {"create", "upsert"} => op.row \in Rows)
      BY <2>1, <2>2, <2>3, ViewType, Running
    <2>5. done.table \in Tables /\ UniqueKeys(done.table)
      <3>1. UniqueKeys(v)
        BY <2>4 DEF ServerInv, Server, UniqueViews
      <3> QED BY <1>1, <2>1, <2>2, <2>4, <3>1, StatementType
    <2>6. Cleared(c, v, op, done)
      <3> QED BY <1>1, <1>3, <2>1, <2>2, <2>3, WriteEffects
    <2>7. Changes(work, draft, lock, c, v, done.table, done.row)
      <3> QED BY <2>1, <2>2, <2>3, <2>5, <2>6, WriteServer
    <2>8. PICK new, row : new = done.table /\ row = done.row
      OBVIOUS
    <2>9. PICK dr2, lk2 :
             /\ dr2 = [draft EXCEPT ![c] = [r \in Rows |-> IF new[r] # v[r] THEN new[r]
                                                           ELSE draft[c][r]]]
             /\ lk2 = [r \in Rows |-> IF new[r] # v[r] \/ r = row THEN c ELSE lock[r]]
      OBVIOUS
    <2>10. /\ dr2 \in Drafts
           /\ dr2[c] = [r \in Rows |-> IF new[r] # v[r] THEN new[r] ELSE draft[c][r]]
           /\ \A d \in Calls : d # c => dr2[d] = draft[d]
      <3>1. [r \in Rows |-> IF new[r] # v[r] THEN new[r] ELSE draft[c][r]]
              \in [Rows -> Values \cup {Absent, Same}]
        BY <2>5, <2>8, ServerTypes DEF Tables, Drafts
      <3> QED BY <2>9, <3>1, ServerTypes DEF Drafts
    <2>11. lk2 \in Locks
      BY <2>9, ServerTypes DEF Locks
    <2>12. Server(work, table, dr2, lk2) /\ Seen(table, dr2[c]) = new
      <3>1. table \in Tables /\ draft \in Drafts /\ lock \in Locks /\ Server(work, table, draft, lock)
        BY ServerTypes DEF ServerInv
      <3>2. new \in Tables /\ UniqueKeys(new) /\ v = Seen(table, draft[c])
        BY <2>4, <2>5, <2>8
      <3>3. Changes(work, draft, lock, c, v, new, row)
        BY <2>7, <2>8
      <3>4. Drafted(draft, lock, c, v, new, row, dr2, lk2)
        BY <2>9, <2>10 DEF Drafted
      <3>5. dr2 \in Drafts
        BY <2>10
      <3> QED BY <3>1, <3>2, <3>3, <3>4, <3>5, KeepServer, SMTT(30)
    <2>13. CASE ~Direct(c)
      <3>1. /\ table' = table /\ lock' = lk2 /\ \A k \in Keys : gap[k] \subseteq gap'[k]
            /\ draft' \in [Calls -> [Rows -> Values \cup {Absent, Same}]]
            /\ draft'[c] = dr2[c] /\ \A d \in Calls : d # c => draft'[d] = dr2[d]
        BY <1>1, <1>3, <2>1, <2>5, <2>8, <2>9, <2>10, <2>13, KeepDoes
      <3>2. draft' = dr2
        BY <2>10, <3>1 DEF Drafts
      <3>3. Gentle(c)
        BY <2>7, <2>8, <2>9, <3>1 DEF Gentle, Changes
      <3> QED BY <1>1, <2>12, <3>1, <3>2, <3>3 DEF Serves
    <2>14. CASE Direct(c)
      <3>1. table' = new /\ Leave(c)
        BY <1>1, <1>3, <2>5, <2>8, <2>14, KeepDoes
      <3>2. lock' = Unlocked(lk2, c)
        BY <2>7, <2>8, <2>9, <3>1, MarkersAssumption DEF Leave, Unlocked, Changes
      <3>3. draft' = [dr2 EXCEPT ![c] = Untouched]
        <4>1. draft' = [draft EXCEPT ![c] = Untouched] /\ draft \in Drafts
          BY <3>1, LeaveUnlocks, ServerTypes
        <4> QED BY <2>9, <4>1 DEF Drafts
      <3>4. Server(work, new, [dr2 EXCEPT ![c] = Untouched], Unlocked(lk2, c))
        BY <2>5, <2>8, <2>10, <2>11, <2>12, ServerTypes, PublishServer
      <3>5. Gentle(c)
        <4>1. \A r \in Rows : lock[r] \notin {c, Nobody} => new[r] = v[r] /\ v[r] = table[r]
          <5>1. \A r \in Rows : lock[r] # c => draft[c][r] = Same
            BY DEF ServerInv, Server, Own
          <5> QED BY <2>4, <2>7, <2>8, <5>1 DEF Seen, Changes
        <4> QED BY <3>1, <4>1, LeaveType DEF Gentle
      <3>6. \A r \in Rows : new[r] # Absent /\ table[r] = Absent => r \in Created(work.ops[c])
        BY <2>12 DEF Server, Own, Seen
      <3> QED BY <1>1, <3>1, <3>2, <3>3, <3>4, <3>5, <3>6 DEF Serves
    <2> QED BY <2>13, <2>14
  <1> QED BY <1>2, <1>3
LEMMA TakeMoves ==
  ASSUME TypeOK, CallInv, NEW c \in Calls, NEW r \in Rows \cup {NoRow}, Take(c, r),
         call[c].pc # "done"
  PROVE  \E p : /\ p = PlanFor(View(c), Op(c), r)
                /\ call'[c].pc = "write" /\ call'[c].at = call[c].at
                /\ call'[c].attempt = call[c].attempt
                /\ call'[c].plans # <<>> /\ Last(call'[c].plans) = p
  <1>1. PICK o : o = call[c]
    OBVIOUS
  <1>2. /\ o = [pc |-> o.pc, at |-> o.at, attempt |-> o.attempt, plans |-> o.plans,
                suspects |-> o.suspects, outcome |-> o.outcome, rows |-> o.rows]
    BY <1>1, CallType
  <1>3. PICK p : p = PlanFor(View(c), Op(c), r)
    OBVIOUS
  <1>4. PICK q : q = <<p>>
    OBVIOUS
  <1>5. q # <<>> /\ Last(q) = p
    BY <1>4 DEF Last
  <1>6. call' = [call EXCEPT ![c] = [o EXCEPT !.pc = "write", !.plans = q]]
    BY <1>1, <1>3, <1>4 DEF Take, TypeOK
  <1>7. call'[c] = [o EXCEPT !.pc = "write", !.plans = q]
    BY <1>6 DEF TypeOK
  <1>8. call'[c].pc = "write" /\ call'[c].at = o.at /\ call'[c].attempt = o.attempt /\ call'[c].plans = q
    BY <1>2, <1>7
  <1> QED BY <1>1, <1>3, <1>5, <1>8

LEMMA TakeChooses ==
  ASSUME TypeOK, CallInv, ServerInv, NEW c \in Calls, NEW r \in Rows \cup {NoRow}, Take(c, r),
         Interactive, Op(c) \in Ops, Locates(Op(c)), call[c].pc # "done", work' = work,
         r # NoRow => r \in Selected(View(c), Op(c)) /\ Lockers(c, {r}) = {}
  PROVE  Chosen(c)'
  <1>1. PICK p : /\ p = PlanFor(View(c), Op(c), r)
                 /\ call'[c].pc = "write" /\ call'[c].at = call[c].at
                 /\ Last(call'[c].plans) = p
    BY TakeMoves
  <1>2. PICK v : v = View(c)
    OBVIOUS
  <1>3. v \in Tables
    BY <1>2, ViewType
  <1>4. p.row = r /\ (r # NoRow => ByFlag(v[r].flag, Op(c), p))
    BY <1>1, <1>2, <1>3, PlanType
  <1>5. View(c)' = v /\ Op(c)' = Op(c) /\ Plan(c)' = p
    BY <1>1, <1>2 DEF Take, View, Op, Plan
  <1>6. r # NoRow => lock'[r] = c
    BY TakeServes
  <1> QED BY <1>1, <1>2, <1>4, <1>5, <1>6 DEF Chosen

LEMMA ChosenStays ==
  ASSUME TypeOK, CallInv, ServerInv, NEW c \in Calls, Kept(c), Gentle(c), work' = work,
         NEW d \in Calls, d # c
  PROVE  Chosen(d)'
  <1>1. SUFFICES ASSUME Chosen(d), call'[d].pc = "write", Plan(d)'.row # NoRow
                 PROVE  /\ lock'[Plan(d)'.row] = d
                        /\ Plan(d)'.row \in Selected(View(d)', Op(d)')
                        /\ ByFlag(View(d)'[Plan(d)'.row].flag, Op(d)', Plan(d)')
    BY DEF Chosen, ServerInv
  <1>2. call'[d] = call[d] /\ draft'[d] = draft[d]
    BY Moved DEF Kept
  <1>3. PICK r : r = Plan(d).row
    OBVIOUS
  <1>4. Plan(d)' = Plan(d) /\ Op(d)' = Op(d) /\ r # NoRow
    BY <1>1, <1>2, <1>3 DEF Plan, Op
  <1>5. /\ lock[r] = d /\ r \in Selected(View(d), Op(d)) /\ r \in Rows
        /\ ByFlag(View(d)[r].flag, Op(d), Plan(d))
    BY <1>1, <1>2, <1>3, <1>4 DEF Chosen, Selected, Holder
  <1>6. lock'[r] = d /\ table'[r] = table[r]
    BY <1>5, MarkersAssumption DEF Gentle
  <1>7. View(d)'[r] = View(d)[r]
    BY <1>2, <1>5, <1>6 DEF View
  <1>8. r \in Selected(View(d)', Op(d))
    BY <1>5, <1>7 DEF Selected, Holder
  <1> QED BY <1>3, <1>4, <1>5, <1>6, <1>7, <1>8

\* Only a locate, or the end of its wait, takes a call to a write.
LEMMA ThrowMoves ==
  ASSUME TypeOK, NEW c \in Calls, NEW why \in Reasons, NEW raceable \in BOOLEAN,
         Throw(c, why, raceable)
  PROVE  call'[c].pc # "write"
  <1>1. PICK s \in CallStates : Moves(c, s) /\ s.pc \in {"scan", "done"}
    BY ThrowDoes
  <1> QED BY <1>1, Moved

LEMMA StepServes ==
  ASSUME TypeOK, CallInv, ServerInv, NEW c \in Calls, Step(c) \/ Deadlock(c)
  PROVE  Serves(c) /\ Chosen(c)'
  <1>0. ASSUME call'[c].pc # "write" PROVE Chosen(c)'
    BY <1>0 DEF Chosen
  <1>t. TypeOK /\ call \in [Calls -> CallStates]
    BY DEF TypeOK
  <1>w. work' = work
    BY DEF Step, Deadlock, Recorded
  <1>1. CASE Begin(c)
    <2>1. call'[c].pc # "write"
      BY <1>1, <1>t DEF Begin, CallStates
    <2> QED BY <1>0, <1>1, <2>1, StayServes DEF Begin
  <1>2. CASE Locate(c) \/ Wake(c)
    <2>1. PICK r \in Rows \cup {NoRow} :
             /\ Take(c, r) /\ Interactive /\ Locates(Op(c)) /\ call[c].pc \in {"scan", "wait"}
             /\ Op(c) \in Ops
             /\ r # NoRow => r \in Selected(View(c), Op(c)) /\ Lockers(c, {r}) = {}
      BY <1>2, LocateTakes
    <2>2. call[c].pc # "done"
      BY <2>1
    <2> QED BY <1>w, <2>1, <2>2, TakeServes, TakeChooses
  <1>3. CASE Wait(c)
    <2>1. call'[c].pc # "write"
      BY <1>3, <1>t DEF Wait, CallStates
    <2> QED BY <1>0, <1>3, <2>1, StayServes DEF Wait
  <1>4. CASE Write(c)
    <2>1. call'[c].pc # "write"
      <3>1. PICK p, done :
              /\ p \in Plans
              /\ p = (IF Locates(Op(c)) THEN Plan(c) ELSE Unlocated(Op(c)))
              /\ Given(Op(c), p) /\ done = Statement(View(c), Op(c), p)
              /\ call[c].pc = IF Locates(Op(c)) THEN "write" ELSE "scan"
              /\ \/ /\ done.fate = "ok" /\ Keep(c, done.table, done.row) /\ Advance(c, done.row)
                 \/ /\ done.fate # "ok" /\ table' = table
                    /\ Throw(c, done.fate, done.fate = "conflict" /\ Pinned(Op(c), p))
        BY <1>4, WriteDoes
      <3>2. CASE Advance(c, done.row)
        BY <1>t, <3>2 DEF Advance, CallStates
      <3>3. CASE Throw(c, done.fate, done.fate = "conflict" /\ Pinned(Op(c), p)) /\ done.fate # "ok"
        <4>1. call[c].pc # "done"
          BY <3>1
        <4>2. Op(c) \in Ops /\ (Op(c).kind \in {"create", "upsert"} => Op(c).row \in Rows)
          BY <4>1, Running
        <4>3. done.fate \in {"ok", "notFound", "conflict"}
          BY <3>1, <4>2, StatementType, ViewType
        <4>4. done.fate \in Reasons /\ (done.fate = "conflict" /\ Pinned(Op(c), p)) \in BOOLEAN
          BY <3>3, <4>3 DEF Reasons, Pinned
        <4> QED BY <3>3, <4>4, ThrowMoves
      <3> QED BY <3>1, <3>2, <3>3
    <2> QED BY <1>0, <1>4, <2>1, WriteServes
  <1>5. CASE Commit(c)
    <2>1. call'[c].pc # "write"
      BY <1>5, <1>t DEF Commit, CallStates
    <2> QED BY <1>0, <1>5, <2>1, CommitServes
  <1>6. CASE PlanBatch(c)
    <2>1. PICK p \in Plans :
              IF p.arm = "missing" THEN Reject(c, "notFound")
              ELSE /\ UNCHANGED <<draft, lock, gap>>
                   /\ call' = [call EXCEPT ![c].plans = Append(@, p),
                                 ![c].pc = IF call[c].at = Len(work.ops[c]) THEN "batch" ELSE @,
                                 ![c].at = IF call[c].at = Len(work.ops[c]) THEN @ ELSE @ + 1]
      BY <1>6, PlanBatchDoes
    <2>2. call[c].pc = "scan" /\ table' = table
      BY <1>6, PlanBatchDoes
    <2>3. CASE p.arm = "missing"
      <3>1. Throw(c, "notFound", FALSE)
        BY <2>1, <2>3, RejectThrows
      <3>2. call'[c].pc # "write"
        BY <3>1, ThrowMoves DEF Reasons
      <3> QED BY <1>0, <2>2, <3>1, <3>2, ThrowLeaves, LeaveServes
    <2>4. CASE p.arm # "missing"
      <3>1. call'[c].pc # "write"
        BY <1>t, <2>1, <2>2, <2>4 DEF CallStates
      <3> QED BY <1>0, <2>1, <2>2, <2>4, <3>1, StayServes
    <2> QED BY <2>3, <2>4
  <1>7. CASE RunBatch(c)
    <2>1. UniqueKeys(table) /\ ~Interactive /\ Unheld
      <3>1. call[c].pc = "batch"
        BY <1>7 DEF RunBatch
      <3>2. ~Interactive
        BY <3>1 DEF CallInv, Sane
      <3> QED BY <3>2 DEF ServerInv, Server, UniqueViews
    <2>2. PICK run : run = BatchRun(table, work.ops[c], call[c].plans)
      OBVIOUS
    <2>3. /\ run \in Sound(c)
          /\ call[c].pc = "batch"
          /\ \/ /\ run.fate = "ok" /\ table' = run.table /\ UNCHANGED <<draft, lock, gap>>
                /\ call' = [call EXCEPT ![c].pc = "done", ![c].outcome = "ok", ![c].rows = run.rows]
             \/ /\ run.fate = "conflict" /\ table' = table
                /\ Throw(c, "conflict", Pinned(work.ops[c][1], call[c].plans[1]))
             \/ /\ run.fate = "guard" /\ table' = table
                /\ \E g \in Guarding(c) :
                     /\ run.culprit = <<g>>
                     /\ \/ Throw(c, g.why, g.raceable)
                        \/ /\ UNCHANGED <<draft, lock, gap>>
                           /\ call' = [call EXCEPT ![c].pc = "blame",
                                 ![c].suspects = FlattenSeq([i \in DOMAIN work.ops[c] |->
                                                    Guards(work.ops[c][i], call[c].plans[i])])]
      <3>1. run \in Sound(c) /\ call[c].pc = "batch" /\ RunOutcome(c, run)
        BY <1>7, <2>1, <2>2, RunBatchDoes
      <3> QED BY <3>1 DEF RunOutcome
    <2>4. CASE /\ table' = run.table /\ UNCHANGED <<draft, lock, gap>>
               /\ call' = [call EXCEPT ![c].pc = "done", ![c].outcome = "ok", ![c].rows = run.rows]
      <3>1. call'[c].pc # "write"
        BY <1>t, <2>4 DEF CallStates
      <3>2. UniqueKeys(run.table) /\ run.table \in Tables
        BY <2>3 DEF Sound, Outcomes
      <3>3. /\ \A d \in Calls : draft[d] = Untouched
            /\ \A r \in Rows : lock[r] = Nobody
        BY <2>1 DEF Unheld
      <3>4. Server(work, table', draft', lock')
        <4>1. \A d \in Calls, r \in Rows : draft[d][r] = Same
          BY <3>3 DEF Untouched
        <4>2. \A d \in Calls : Seen(run.table, draft[d]) = run.table
          BY <3>2, <3>3, UntouchedSees
        <4>3. Own(work, run.table, draft, lock) /\ OwnKeys(draft)
          BY <4>1 DEF Own, OwnKeys
        <4>4. Present(run.table, draft, lock)
          BY <3>3, MarkersAssumption DEF Present
        <4>5. UniqueViews(run.table, draft)
          BY <3>2, <4>2 DEF UniqueViews
        <4> QED BY <2>4, <4>3, <4>4, <4>5 DEF Server
      <3>5. Gentle(c)
        BY <2>4, <3>3 DEF Gentle
      <3>7. \A r \in Rows : table'[r] # Absent /\ table[r] = Absent => r \in Created(work.ops[c])
        BY <2>3, <2>4 DEF Sound
      <3>6. Unheld'
        BY <2>1, <2>4 DEF Unheld
      <3> QED BY <1>0, <3>1, <3>4, <3>5, <3>6, <3>7 DEF Serves
    <2>5. CASE /\ table' = table
               /\ Throw(c, "conflict", Pinned(work.ops[c][1], call[c].plans[1]))
      <3>1. Pinned(work.ops[c][1], call[c].plans[1]) \in BOOLEAN
        BY DEF Pinned
      <3>2. call'[c].pc # "write"
        BY <2>5, <3>1, ThrowMoves DEF Reasons
      <3> QED BY <1>0, <2>5, <3>2, ThrowLeaves, LeaveServes
    <2>6. ASSUME NEW g \in Guarding(c), table' = table,
                 \/ Throw(c, g.why, g.raceable)
                 \/ /\ UNCHANGED <<draft, lock, gap>>
                    /\ call' = [call EXCEPT ![c].pc = "blame",
                          ![c].suspects = FlattenSeq([i \in DOMAIN work.ops[c] |->
                                             Guards(work.ops[c][i], call[c].plans[i])])]
          PROVE  Serves(c) /\ Chosen(c)'
      <3>1. CASE Throw(c, g.why, g.raceable)
        <4>1. g \in Premises
          BY DEF Guarding
        <4>2. g.why \in Reasons /\ g.raceable \in BOOLEAN
          BY <4>1, PremiseType
        <4>3. call'[c].pc # "write"
          BY <3>1, <4>2, ThrowMoves
        <4> QED BY <1>0, <2>6, <3>1, <4>3, ThrowLeaves, LeaveServes
      <3>2. CASE /\ UNCHANGED <<draft, lock, gap>>
                 /\ call' = [call EXCEPT ![c].pc = "blame",
                       ![c].suspects = FlattenSeq([i \in DOMAIN work.ops[c] |->
                                          Guards(work.ops[c][i], call[c].plans[i])])]
        <4>1. PICK q : q = FlattenSeq([i \in DOMAIN work.ops[c] |->
                                          Guards(work.ops[c][i], call[c].plans[i])])
          OBVIOUS
        <4>2. call' = [call EXCEPT ![c].pc = "blame", ![c].suspects = q]
          BY <3>2, <4>1
        <4>3. call'[c].pc # "write"
          BY <1>t, <4>2 DEF CallStates
        <4> QED BY <1>0, <2>6, <3>2, <4>3, StayServes
      <3> QED BY <2>6, <3>1, <3>2
    <2> QED BY <2>3, <2>4, <2>5, <2>6
  <1>8. CASE Blame(c)
    <2>1. /\ call[c].pc = "blame" /\ table' = table
          /\ \/ call[c].suspects = <<>> /\ Throw(c, "unattributed", FALSE)
             \/ \E g \in Premises :
                  /\ call[c].suspects # <<>> /\ g = Head(call[c].suspects)
                  /\ \/ ~GuardHolds(table, g) /\ Throw(c, g.why, g.raceable)
                     \/ /\ GuardHolds(table, g) /\ UNCHANGED <<draft, lock, gap>>
                        /\ call' = [call EXCEPT ![c].suspects = Tail(@)]
      BY <1>8, BlameDoes
    <2>2. ASSUME NEW why \in Reasons, NEW raceable \in BOOLEAN, Throw(c, why, raceable)
          PROVE  Serves(c) /\ Chosen(c)'
      BY <1>0, <2>1, <2>2, ThrowMoves, ThrowLeaves, LeaveServes
    <2>3. CASE /\ UNCHANGED <<draft, lock, gap>>
               /\ call' = [call EXCEPT ![c].suspects = Tail(@)]
      <3>1. call'[c].pc # "write"
        BY <1>t, <2>1, <2>3 DEF CallStates
      <3> QED BY <1>0, <2>1, <2>3, <3>1, StayServes
    <2> QED BY <2>1, <2>2, <2>3, PremiseType DEF Reasons
  <1>9. CASE Victim(c)
    <2>1. Throw(c, "deadlock", call[c].pc = "write" /\ Pinned(Op(c), Plan(c))) /\ table' = table
      BY <1>9, VictimWaits
    <2>2. (call[c].pc = "write" /\ Pinned(Op(c), Plan(c))) \in BOOLEAN
      BY DEF Pinned
    <2>3. call'[c].pc # "write"
      BY <2>1, <2>2, ThrowMoves DEF Reasons
    <2> QED BY <1>0, <2>1, <2>3, ThrowLeaves, LeaveServes
  <1> QED BY <1>1, <1>2, <1>3, <1>4, <1>5, <1>6, <1>7, <1>8, <1>9 DEF Step, Deadlock, Recorded

LEMMA EntriesStay ==
  ASSUME TypeOK, CallInv, ServerInv, NEW c \in Calls, Step(c) \/ Deadlock(c), work' = work,
         \A d \in Calls : d # c => draft'[d] = draft[d]
  PROVE  EntriesOnly'
  <1>1. CASE Leave(c)
    <2>1. \A k \in Keys : gap'[k] = gap[k] \ {c}
      BY <1>1, LeaveType
    <2> QED BY <2>1, Rigid DEF EntriesOnly, ServerInv
  <1>2. CASE draft' = draft /\ (Returning => gap' = gap)
    BY <1>2, Rigid DEF EntriesOnly, ServerInv
  <1>3. CASE Write(c)
    <2>1. PICK p, done :
             /\ p \in Plans
             /\ p = (IF Locates(Op(c)) THEN Plan(c) ELSE Unlocated(Op(c)))
             /\ Given(Op(c), p) /\ done = Statement(View(c), Op(c), p)
             /\ call[c].pc = IF Locates(Op(c)) THEN "write" ELSE "scan"
             /\ \/ /\ done.fate = "ok" /\ Keep(c, done.table, done.row) /\ Advance(c, done.row)
                \/ /\ done.fate # "ok" /\ table' = table
                   /\ Throw(c, done.fate, done.fate = "conflict" /\ Pinned(Op(c), p))
      BY <1>3, WriteDoes
    <2>2. CASE done.fate # "ok"
      BY <1>1, <2>1, <2>2, ThrowLeaves
    <2>3. CASE done.fate = "ok" /\ Keep(c, done.table, done.row)
      <3>1. done.table \in Tables
        <4>1. call[c].pc # "done"
          BY <2>1
        <4> QED BY <2>1, <4>1, Running, ViewType, StatementType
      <3>2. CASE Direct(c)
        BY <1>1, <2>3, <3>1, <3>2, KeepDoes
      <3>3. CASE ~Direct(c)
        <4>1. PICK t, v : t = done.table /\ v = View(c)
          OBVIOUS
        <4>2. /\ draft'[c] = [r \in Rows |-> IF t[r] # v[r] THEN t[r] ELSE draft[c][r]]
              /\ \A k \in Keys : gap'[k] \subseteq gap[k]
                   \/ (gap'[k] = gap[k] \cup {c} /\ \E r \in Rows : t[r] # v[r])
          BY <2>3, <3>1, <3>3, <4>1, KeepDoes
        <4>3. (\E r \in Rows : t[r] # v[r]) \/ draft[c] # Untouched
              => draft'[c] # Untouched
          <5>1. \A r \in Rows : t[r] # Same
            BY <3>1, <4>1, MarkersAssumption DEF Tables
          <5>2. draft[c] # Untouched => \E r \in Rows : draft[c][r] # Same
            BY DEF Untouched, TypeOK
          <5> QED BY <4>2, <5>1, <5>2 DEF Untouched
        <4>4. SUFFICES ASSUME Returning, NEW d \in Calls, NEW k \in Keys, d \in gap'[k]
                       PROVE  draft'[d] # Untouched
          BY Rigid DEF EntriesOnly, Untouched
        <4>5. d \in gap[k] => draft[d] # Untouched
          BY <4>4 DEF ServerInv, EntriesOnly
        <4>6. CASE d = c
          BY <4>2, <4>3, <4>4, <4>5, <4>6
        <4>7. CASE d # c
          BY <4>2, <4>4, <4>5, <4>7
        <4> QED BY <4>6, <4>7
      <3> QED BY <3>2, <3>3
    <2> QED BY <2>1, <2>2, <2>3
  <1>4. Begin(c) \/ Locate(c) \/ Wait(c) \/ Wake(c) => draft' = draft /\ (Returning => gap' = gap)
    BY DEF Begin, Locate, Wait, Wake, Take
  <1>5. Commit(c) => Leave(c)
    BY DEF Commit
  <1>6. PlanBatch(c) => Leave(c) \/ (draft' = draft /\ gap' = gap)
    BY DEF PlanBatch, Reject
  <1>7. RunBatch(c) => Leave(c) \/ (draft' = draft /\ gap' = gap)
    BY ThrowLeaves DEF RunBatch
  <1>8. Blame(c) => Leave(c) \/ (draft' = draft /\ gap' = gap)
    BY ThrowLeaves DEF Blame, Reject
  <1>9. Victim(c) => Leave(c)
    BY ThrowLeaves DEF Victim
  <1> QED BY <1>1, <1>2, <1>3, <1>4, <1>5, <1>6, <1>7, <1>8, <1>9 DEF Step, Deadlock, Recorded

LEMMA ServerStays ==
  ASSUME TypeOK, CallInv, ServerInv, NEW c \in Calls, Step(c) \/ Deadlock(c)
  PROVE  ServerInv'
  <1>1. Serves(c) /\ Chosen(c)' /\ Kept(c) /\ work' = work
    BY StepServes, StepKept
  <1>2. \A d \in Calls : Chosen(d)'
    BY <1>1, ChosenStays DEF Serves
  <1>3. Interactive' = Interactive
    BY <1>1, Rigid
  <1>4. EntriesOnly'
    BY <1>1, EntriesStay DEF Kept
  <1> QED BY <1>1, <1>2, <1>3, <1>4 DEF ServerInv, Serves
-----------------------------------------------------------------------------
(***************************************************************************)
(* Lone calls: the histories of their keys, and their new rows.            *)
(***************************************************************************)

LEMMA StepRuns ==
  ASSUME TypeOK, CallInv, NEW c \in Calls, Step(c) \/ Deadlock(c)
  PROVE  call[c].pc # "done"
  <1>1. CASE Victim(c)
    BY <1>1, VictimWaits
  <1> QED BY <1>1 DEF Step, Deadlock, Recorded, Begin, Locate, Wait, Wake, Write, Commit,
                      PlanBatch, RunBatch, Blame

\* The committed rows change when a call succeeds.
LEMMA StepPublishes ==
  ASSUME TypeOK, CallInv, ServerInv, NEW c \in Calls, Step(c) \/ Deadlock(c)
  PROVE  table' = table \/ call'[c].pc = "done"
  <1>1. CASE Write(c)
    <2>1. PICK p, done :
             /\ p = (IF Locates(Op(c)) THEN Plan(c) ELSE Unlocated(Op(c)))
             /\ p \in Plans /\ Given(Op(c), p) /\ done = Statement(View(c), Op(c), p)
             /\ call[c].pc = IF Locates(Op(c)) THEN "write" ELSE "scan"
             /\ \/ /\ done.fate = "ok" /\ Keep(c, done.table, done.row) /\ Advance(c, done.row)
                \/ /\ done.fate # "ok" /\ table' = table
      BY <1>1, WriteDoes
    <2>2. CASE ~Direct(c)
      BY <2>1, <2>2 DEF Keep
    <2>3. CASE Direct(c) /\ Advance(c, done.row)
      <3>1. call[c].at = Len(work.ops[c])
        <4>1. call[c].pc # "done"
          BY <2>1
        <4> QED BY <2>3, <4>1, Running DEF Direct, Single
      <3>2. call \in [Calls -> CallStates]
        BY DEF TypeOK
      <3> QED BY <2>3, <3>1, <3>2 DEF Advance, CallStates
    <2> QED BY <2>1, <2>2, <2>3
  <1>2. CASE Commit(c)
    BY <1>2 DEF Commit, TypeOK, CallStates
  <1>3. CASE RunBatch(c)
    BY <1>3 DEF RunBatch, TypeOK, CallStates
  <1> QED BY <1>1, <1>2, <1>3 DEF Step, Deadlock, Recorded, Begin, Locate, Wait, Wake, Take,
                                  PlanBatch, Blame, Victim

LEMMA Steady ==
  ASSUME TypeOK, CallInv, ServerInv, NEW c \in Calls, Step(c) \/ Deadlock(c)
  PROVE  /\ call[c].pc # "done" /\ work' = work /\ History
         /\ \A d \in Calls : d # c => call'[d] = call[d] /\ draft'[d] = draft[d]
         /\ \A d \in Calls : call[d].pc = "done" => call'[d] = call[d]
         /\ \A d \in Calls : call'[d].pc = "idle" => call[d].pc = "idle"
         /\ \A d \in Calls : Single(d)' = Single(d) /\ LoneOp(d)' = LoneOp(d) /\ (Lone(d)' => Lone(d))
  <1>1. Kept(c) /\ History /\ work' = work /\ call[c].pc # "done"
    BY StepKept, StepRuns
  <1>2. \A d \in Calls : d # c => call'[d] = call[d] /\ draft'[d] = draft[d]
    BY <1>1, Moved DEF Kept
  <1>3. \A d \in Calls : Single(d)' = Single(d) /\ LoneOp(d)' = LoneOp(d)
    BY <1>1 DEF Single, LoneOp
  <1>4. call'[c].pc # "idle"
    <2>t. call \in [Calls -> CallStates]
      BY DEF TypeOK
    <2>1. ASSUME NEW why \in Reasons, NEW raceable \in BOOLEAN, Throw(c, why, raceable)
          PROVE  call'[c].pc # "idle"
      <3>1. PICK s \in CallStates : Moves(c, s) /\ s.pc \in {"scan", "done"}
        BY <2>1, ThrowDoes
      <3> QED BY <3>1, Moved
    <2>2. CASE Begin(c)
      BY <2>2, <2>t DEF Begin, CallStates
    <2>3. CASE Locate(c) \/ Wake(c)
      <3>1. PICK r \in Rows \cup {NoRow} : Take(c, r)
        BY <2>3, LocateTakes
      <3> QED BY <1>1, <3>1, TakeMoves
    <2>4. CASE Wait(c)
      BY <2>4, <2>t DEF Wait, CallStates
    <2>5. CASE Write(c)
      <3>1. PICK p, done :
               /\ p \in Plans
               /\ p = (IF Locates(Op(c)) THEN Plan(c) ELSE Unlocated(Op(c)))
               /\ Given(Op(c), p) /\ done = Statement(View(c), Op(c), p)
               /\ \/ Advance(c, done.row)
                  \/ /\ done.fate # "ok"
                     /\ Throw(c, done.fate, done.fate = "conflict" /\ Pinned(Op(c), p))
        BY <2>5, WriteDoes
      <3>2. CASE Advance(c, done.row)
        BY <2>t, <3>2 DEF Advance, CallStates
      <3>3. CASE Throw(c, done.fate, done.fate = "conflict" /\ Pinned(Op(c), p)) /\ done.fate # "ok"
        <4>1. Op(c) \in Ops /\ (Op(c).kind \in {"create", "upsert"} => Op(c).row \in Rows)
          BY <1>1, Running
        <4>2. done.fate \in {"ok", "notFound", "conflict"}
          BY <3>1, <4>1, StatementType, ViewType
        <4>3. done.fate \in Reasons /\ (done.fate = "conflict" /\ Pinned(Op(c), p)) \in BOOLEAN
          BY <3>3, <4>2 DEF Reasons, Pinned
        <4> QED BY <2>1, <3>3, <4>3
      <3> QED BY <3>1, <3>2, <3>3
    <2>6. CASE Commit(c)
      BY <2>6, <2>t DEF Commit, CallStates
    <2>7. CASE call[c].pc # "idle" /\ (PlanBatch(c) \/ RunBatch(c) \/ Blame(c) \/ Victim(c))
      <3>1. CASE PlanBatch(c)
        <4>1. PICK p \in Plans :
                 IF p.arm = "missing" THEN Reject(c, "notFound")
                 ELSE call' = [call EXCEPT ![c].plans = Append(@, p),
                                 ![c].pc = IF call[c].at = Len(work.ops[c]) THEN "batch" ELSE @,
                                 ![c].at = IF call[c].at = Len(work.ops[c]) THEN @ ELSE @ + 1]
          BY <3>1, PlanBatchDoes
        <4>2. CASE p.arm = "missing"
          BY <2>1, <4>1, <4>2, RejectThrows DEF Reasons
        <4>3. CASE p.arm # "missing"
          BY <2>7, <2>t, <4>1, <4>3 DEF CallStates
        <4> QED BY <4>2, <4>3
      <3>2. CASE RunBatch(c)
        BY <2>t, <3>2 DEF RunBatch, Throw, Retry, Reject, CallStates
      <3>3. CASE Blame(c)
        <4>1. \/ Throw(c, "unattributed", FALSE)
              \/ \E g \in Premises : \/ Throw(c, g.why, g.raceable)
                                     \/ call' = [call EXCEPT ![c].suspects = Tail(@)]
          BY <3>3, BlameDoes
        <4>2. CASE call' = [call EXCEPT ![c].suspects = Tail(@)]
          BY <2>7, <2>t, <4>2 DEF CallStates
        <4> QED BY <2>1, <4>1, <4>2, PremiseType DEF Reasons
      <3>4. CASE Victim(c)
        BY <2>t, <3>4 DEF Victim, Throw, Retry, Reject, CallStates
      <3> QED BY <2>7, <3>1, <3>2, <3>3, <3>4
    <2>8. PlanBatch(c) \/ RunBatch(c) \/ Blame(c) \/ Victim(c) => call[c].pc # "idle"
      BY VictimWaits DEF PlanBatch, RunBatch, Blame
    <2> QED BY <2>2, <2>3, <2>4, <2>5, <2>6, <2>7, <2>8 DEF Step, Deadlock, Recorded
  <1> QED BY <1>1, <1>2, <1>3, <1>4 DEF Lone

LEMMA HistoryGrows ==
  ASSUME TypeOK, CallInv, HoldersInv, NEW c \in Calls, Lone(c), History,
         call'[c].pc # "idle", NEW now, now = Holder(table', LoneOp(c).where)
  PROVE  /\ holders'[c] # <<>> /\ Last(holders'[c]) = now
         /\ holders'[c] \in Seq(SUBSET Rows)
         /\ \/ holders'[c] = holders[c]
            \/ Len(holders'[c]) = Len(holders[c]) + 1
         /\ call[c].pc # "idle" /\ table' = table => holders'[c] = holders[c]
  <1>1. PICK h : h = holders[c]
    OBVIOUS
  <1>2. h \in Seq(SUBSET Rows)
    BY <1>1 DEF TypeOK
  <1>3. holders'[c] = IF h # <<>> /\ Last(h) = now THEN h ELSE Append(h, now)
    BY <1>1, HistoryType DEF Lone, LoneOp
  <1>4. now \in SUBSET Rows
    BY DEF Holder
  <1>5. /\ Append(h, now) # <<>> /\ Last(Append(h, now)) = now /\ Len(Append(h, now)) = Len(h) + 1
        /\ Append(h, now) \in Seq(SUBSET Rows)
    BY <1>2, <1>4 DEF Last
  <1>6. call[c].pc # "idle" /\ table' = table => h # <<>> /\ Last(h) = now
    BY <1>1 DEF HoldersInv
  <1> QED BY <1>1, <1>2, <1>3, <1>5, <1>6

LEMMA HoldersStay ==
  ASSUME TypeOK, CallInv, ServerInv, HoldersInv, NEW c \in Calls, Step(c) \/ Deadlock(c)
  PROVE  HoldersInv'
  <1>1. SUFFICES ASSUME NEW d \in Calls, Lone(d)', call'[d].pc # "idle"
                 PROVE  holders'[d] # <<>> /\ Last(holders'[d]) = Holder(table', LoneOp(d)'.where)
    BY DEF HoldersInv
  <1> QED BY <1>1, Steady, HistoryGrows

LEMMA FreshStays ==
  ASSUME TypeOK, CallInv, ServerInv, FreshInv, NEW c \in Calls, Step(c) \/ Deadlock(c)
  PROVE  FreshInv'
  <1>1. SUFFICES ASSUME NEW d \in Calls, Lone(d)', NEW r \in Created(work'.ops[d])
                 PROVE  table'[r] = Absent
    BY DEF FreshInv
  <1>2. work' = work /\ Lone(d) /\ work \in Workloads
    BY <1>1, Steady DEF TypeOK
  <1>3. r \in Rows /\ table[r] = Absent /\ (d # c => r \notin Created(work.ops[c]))
    BY <1>1, <1>2, WorkloadsAssumption DEF FreshInv
  <1>4. CASE d # c
    <2>1. table'[r] # Absent /\ table[r] = Absent => r \in Created(work.ops[c])
      BY <1>3, StepServes DEF Serves
    <2> QED BY <1>3, <1>4, <2>1
  <1>5. CASE d = c
    <2>1. call'[c].pc # "done"
      BY <1>1, <1>5 DEF Lone
    <2> QED BY <1>3, <2>1, StepPublishes
  <1> QED BY <1>4, <1>5
-----------------------------------------------------------------------------
(***************************************************************************)
(* Lone calls: what they find missing.                                     *)
(***************************************************************************)

\* Until it commits, a lone call sees the committed rows.
LEMMA LoneView ==
  ASSUME TypeOK, CallInv, NEW c \in Calls, Lone(c), call[c].pc # "commit"
  PROVE  /\ draft[c] = Untouched /\ View(c) = table
         /\ Op(c) = LoneOp(c) /\ LoneOp(c) \in Ops
         /\ call[c].at = 1 /\ Len(work.ops[c]) = 1
         /\ LoneOp(c).kind \in {"create", "upsert"} => LoneOp(c).row \in Rows
  <1>1. /\ Sane(c, call[c], draft[c]) /\ Op(c) \in Ops /\ call[c].at = 1 /\ Op(c) = work.ops[c][1]
        /\ Op(c).kind \in {"create", "upsert"} => Op(c).row \in Rows
    BY Running DEF Lone
  <1>2. draft[c] = Untouched
    BY <1>1 DEF Sane
  <1>3. View(c) = table
    BY <1>2, ViewType, UntouchedSees, ServerTypes
  <1> QED BY <1>1, <1>2, <1>3 DEF Lone, Single, LoneOp

\* No call sees a row with the key k.
Barren(t, dr, k) == \A e \in Calls : Holder(Seen(t, dr[e]), k) = {}

LEMMA EmptyBarren ==
  ASSUME TypeOK, NEW c \in Calls
  PROVE  Empty(c) <=> Barren(table, draft, LoneOp(c).where)
  BY ViewType DEF Empty, Barren

LEMMA WriteLeavesBarren ==
  ASSUME TypeOK, CallInv, ServerInv, NEW c \in Calls, Write(c), ~Returning,
         NEW k \in Keys, NEW d \in Calls, d # c, d \in gap[k], Barren(table, draft, k),
         Holder(table, k) = {}, \A e \in Calls : e # c => draft'[e] = draft[e]
  PROVE  Barren(table', draft', k)
  <1>1. PICK p, done :
           /\ p \in Plans
           /\ p = (IF Locates(Op(c)) THEN Plan(c) ELSE Unlocated(Op(c)))
           /\ Given(Op(c), p) /\ done = Statement(View(c), Op(c), p)
           /\ Interactive /\ Unblocked(c)
           /\ call[c].pc = IF Locates(Op(c)) THEN "write" ELSE "scan"
           /\ \/ /\ done.fate = "ok" /\ Keep(c, done.table, done.row) /\ Advance(c, done.row)
              \/ /\ done.fate # "ok" /\ table' = table
                 /\ Throw(c, done.fate, done.fate = "conflict" /\ Pinned(Op(c), p))
    BY WriteDoes
  <1>2. CASE done.fate # "ok"
    <2>1. table' = table /\ draft'[c] = Untouched
      BY <1>1, <1>2, ThrowLeaves, LeaveType
    <2> QED BY <2>1, UntouchedSees, ServerTypes DEF Barren
  <1>3. CASE done.fate = "ok"
    <2>1. PICK v, op : v = View(c) /\ op = Op(c)
      OBVIOUS
    <2>2. call[c].pc \in {"scan", "write"} /\ call[c].pc # "done"
      BY <1>1
    <2>3. v \in Tables /\ v = Seen(table, draft[c]) /\ op \in Ops
          /\ (op.kind \in {"create", "upsert"} => op.row \in Rows)
      BY <2>1, <2>2, ViewType, Running
    <2>4. Cleared(c, v, op, done)
      BY <1>1, <1>3, <2>1, <2>2, WriteEffects
    <2>5. done.table \in Tables
      BY <1>1, <2>1, <2>3, StatementType
    <2>6. ~Direct(c)
      BY DEF Direct, Folded
    <2>7. table' = table
          /\ draft'[c] = [r \in Rows |-> IF done.table[r] # v[r] THEN done.table[r] ELSE draft[c][r]]
      BY <1>1, <1>3, <2>1, <2>5, <2>6, KeepDoes
    <2>8. \A r \in Rows : Seen(table, draft'[c])[r] = done.table[r]
      <3>1. SUFFICES ASSUME NEW r \in Rows
                     PROVE  (IF draft'[c][r] = Same THEN table[r] ELSE draft'[c][r]) = done.table[r]
        BY DEF Seen
      <3>2. v[r] = IF draft[c][r] = Same THEN table[r] ELSE draft[c][r]
        BY <2>3 DEF Seen
      <3>3. done.table[r] # Same
        BY <2>5, MarkersAssumption DEF Tables
      <3>4. CASE done.table[r] # v[r]
        BY <2>7, <3>3, <3>4
      <3>5. CASE done.table[r] = v[r]
        BY <2>7, <3>2, <3>5
      <3> QED BY <3>4, <3>5
    <2>9. Holder(v, k) = {}
      BY <2>3 DEF Barren
    <2>10. Entrants(c, k) # {}
      BY DEF Entrants
    <2>11. Holder(done.table, k) = {}
      <3>1. SUFFICES ASSUME NEW r \in Rows, done.table[r] # Absent, done.table[r].key = k PROVE FALSE
        BY DEF Holder
      <3>2. done.table[r] # v[r]
        BY <2>9, <3>1 DEF Holder
      <3>3. CASE Inserts(v, op, done) /\ Entrants(c, op.create) = {}
        <4>1. done.table = [v EXCEPT ![op.row] = [key |-> op.create, flag |-> op.flag]]
          BY <3>3 DEF Inserts
        <4>2. done.table[r].key = op.create
          BY <2>3, <3>2, <4>1 DEF Tables
        <4> QED BY <2>10, <3>1, <3>3, <4>2
      <3>4. ASSUME NEW x \in Selected(v, op), Updates(v, op, x, done),
                   op.to = op.where \/ Entrants(c, op.to) = {}
            PROVE  FALSE
        <4>1. done.table = [v EXCEPT ![x] = [key |-> op.to, flag |-> op.flag]]
          BY <3>4 DEF Updates
        <4>2. done.table[r].key = op.to
          BY <2>3, <3>2, <4>1 DEF Tables
        <4>3. x \in Holder(v, op.where)
          BY <3>4 DEF Selected
        <4> QED BY <2>9, <2>10, <3>1, <3>4, <4>2, <4>3
      <3>5. ASSUME NEW x \in Selected(v, op), Deletes(v, op, x, done) PROVE FALSE
        <4>1. done.table = [v EXCEPT ![x] = Absent]
          BY <3>5 DEF Deletes
        <4> QED BY <2>3, <3>1, <3>2, <4>1 DEF Tables
      <3> QED BY <2>4, <3>2, <3>3, <3>4, <3>5 DEF Cleared
    <2>12. Holder(Seen(table, draft'[c]), k) = {}
      BY <2>8, <2>11 DEF Holder
    <2> QED BY <2>7, <2>12 DEF Barren
  <1> QED BY <1>2, <1>3

\* While a key's absence is locked by another call, nobody enters it.
LEMMA GapHolds ==
  ASSUME TypeOK, CallInv, ServerInv, NEW c \in Calls, Step(c) \/ Deadlock(c), ~Returning,
         NEW k \in Keys, NEW d \in Calls, d # c, d \in gap[k], Barren(table, draft, k),
         Holder(table, k) = {}
  PROVE  Barren(table', draft', k)
  <1>1. /\ \A e \in Calls : e # c => draft'[e] = draft[e]
        /\ table \in Tables /\ draft \in Drafts
    BY Steady, ServerTypes
  <1>2. CASE table' = table /\ draft' = draft
    BY <1>2 DEF Barren
  <1>3. CASE table' = table /\ Leave(c)
    <2>1. draft'[c] = Untouched
      BY <1>3, LeaveType
    <2> QED BY <1>1, <1>3, <2>1, UntouchedSees DEF Barren
  <1>4. CASE Commit(c)
    <2>1. table' = Seen(table, draft[c]) /\ draft'[c] = Untouched /\ table' \in Tables
      BY <1>4, LeaveType, ViewType DEF Commit
    <2>2. Holder(table', k) = {}
      BY <2>1 DEF Barren
    <2>3. ASSUME NEW e \in Calls, e # c PROVE Holder(Seen(table', draft[e]), k) = {}
      <3>1. Holder(Seen(table, draft[e]), k) = {}
        BY DEF Barren
      <3>2. \A r \in Rows : \/ Seen(table', draft[e])[r] = table'[r]
                            \/ Seen(table', draft[e])[r] = Seen(table, draft[e])[r]
        BY DEF Seen
      <3> QED BY <2>2, <3>1, <3>2 DEF Holder
    <2> QED BY <1>1, <2>1, <2>2, <2>3, UntouchedSees DEF Barren
  <1>5. CASE Write(c)
    BY <1>1, <1>5, WriteLeavesBarren
  <1>6. Interactive
    BY DEF Interactive, Returning
  <1>7. \/ Commit(c)
        \/ Write(c)
        \/ table' = table /\ (draft' = draft \/ Leave(c))
    <2>1. Locate(c) \/ Wake(c) => table' = table /\ draft' = draft
      BY LocateTakes DEF Take
    <2>2. Victim(c) => table' = table /\ Leave(c)
      BY VictimWaits, ThrowLeaves
    <2>3. ~PlanBatch(c) /\ ~RunBatch(c) /\ ~Blame(c)
      BY <1>6 DEF PlanBatch, RunBatch, Blame, CallInv, Sane
    <2>4. Begin(c) \/ Wait(c) => table' = table /\ draft' = draft
      BY DEF Begin, Wait
    <2> QED BY <2>1, <2>2, <2>3, <2>4 DEF Step, Deadlock, Recorded
  <1> QED BY <1>2, <1>3, <1>4, <1>5, <1>7
\* Absence(d), of the parts of a state.
LEMMA AbsenceOf ==
  ASSUME NEW d \in Calls, Lone(d)', work' = work,
         call'[d].pc \in {"idle", "scan", "wait"} \/ (call'[d].pc = "write" /\ Last(call'[d].plans).row = NoRow)
           => /\ \A r \in Rows : lock'[r] # d
              /\ call'[d].pc = "write" /\ ~Returning /\ ~LoneOp(d).filter =>
                   d \in gap'[LoneOp(d).where] /\ Barren(table', draft', LoneOp(d).where)
  PROVE  Absence(d)'
  <1>1. LoneOp(d)' = LoneOp(d) /\ Returning' = Returning /\ Plan(d)' = Last(call'[d].plans)
    BY DEF LoneOp, Returning, Plan
  <1>2. \A e : View(e)' = Seen(table', draft'[e])
    BY DEF View, Seen
  <1>3. Barren(table', draft', LoneOp(d).where) <=> Empty(d)'
    BY <1>1, <1>2 DEF Barren, Empty
  <1> QED BY <1>1, <1>3 DEF Absence

LEMMA AbsenceStays ==
  ASSUME TypeOK, CallInv, ServerInv, NEW c \in Calls, Step(c) \/ Deadlock(c),
         NEW d \in Calls, d # c, Absence(d)
  PROVE  Absence(d)'
  <1>1. /\ call'[d] = call[d] /\ work' = work /\ (Lone(d)' => Lone(d))
        /\ Gentle(c) /\ Nobody \notin Calls
    BY Steady, StepServes, MarkersAssumption DEF Serves
  <1>2. SUFFICES ASSUME Lone(d)', Lone(d),
                        call[d].pc \in {"idle", "scan", "wait"}
                          \/ (call[d].pc = "write" /\ Last(call[d].plans).row = NoRow)
                 PROVE  /\ \A r \in Rows : lock'[r] # d
                        /\ call[d].pc = "write" /\ ~Returning /\ ~LoneOp(d).filter =>
                             d \in gap'[LoneOp(d).where] /\ Barren(table', draft', LoneOp(d).where)
    <2>1. CASE ~Lone(d)'
      BY <2>1 DEF Absence
    <2> QED BY <1>1, <2>1, AbsenceOf
  <1>3. \A r \in Rows : lock[r] # d
    BY <1>2 DEF Absence, Plan
  <1>4. \A r \in Rows : lock'[r] # d
    BY <1>1, <1>3 DEF Gentle
  <1>5. ASSUME call[d].pc = "write", ~Returning, ~LoneOp(d).filter
        PROVE  d \in gap'[LoneOp(d).where] /\ Barren(table', draft', LoneOp(d).where)
    <2>1. View(d) = table /\ LoneOp(d) \in Ops
      BY <1>2, <1>5, LoneView
    <2>2. PICK k \in Keys : k = LoneOp(d).where
      BY <2>1 DEF Ops
    <2>3. d \in gap[k] /\ Empty(d)
      BY <1>2, <1>5, <2>2 DEF Absence, Plan
    <2>4. Barren(table, draft, k) /\ Holder(table, k) = {}
      BY <2>1, <2>2, <2>3, EmptyBarren DEF Empty
    <2>5. Barren(table', draft', k)
      BY <1>1, <1>5, <2>3, <2>4, GapHolds
    <2>6. d \in gap'[k]
      BY <1>1, <2>3 DEF Gentle
    <2> QED BY <2>2, <2>5, <2>6
  <1> QED BY <1>4, <1>5

LEMMA TakeFindsNothing ==
  ASSUME TypeOK, CallInv, NEW c \in Calls, Lone(c), call[c].pc = "scan",
         Selected(View(c), Op(c)) = {}, Claims(c, Op(c).where) = {}, ~LoneOp(c).filter
  PROVE  Barren(table, draft, LoneOp(c).where)
  <1>1. View(c) = table /\ Op(c) = LoneOp(c)
    BY LoneView
  <1>2. PICK k : k = LoneOp(c).where
    OBVIOUS
  <1>3. Holder(table, k) = {}
    BY <1>1, <1>2 DEF Selected
  <1>4. ASSUME NEW e \in Calls, e # c PROVE Holder(Seen(table, draft[e]), k) = {}
    <2>1. SUFFICES ASSUME NEW r \in Rows, r \in Holder(Seen(table, draft[e]), k) PROVE FALSE
      BY DEF Holder
    <2>2. Seen(table, draft[e])[r] = IF draft[e][r] = Same THEN table[r] ELSE draft[e][r]
      BY DEF Seen
    <2>3. CASE draft[e][r] = Same
      BY <1>3, <2>1, <2>2, <2>3 DEF Holder
    <2>4. CASE draft[e][r] # Same
      <3>1. r \in Holder(View(e), k)
        BY <2>1, ViewType
      <3>2. e \in Claims(c, k)
        BY <1>4, <2>4, <3>1 DEF Claims
      <3> QED BY <1>1, <1>2, <3>2
    <2> QED BY <2>3, <2>4
  <1>5. Holder(Seen(table, draft[c]), k) = {}
    BY <1>1, <1>3, ViewType
  <1> QED BY <1>2, <1>4, <1>5 DEF Barren

LEMMA AbsenceMoves ==
  ASSUME TypeOK, CallInv, ServerInv, NEW c \in Calls, Step(c) \/ Deadlock(c), Absence(c)
  PROVE  Absence(c)'
  <1>1. /\ work' = work /\ (Lone(c)' => Lone(c)) /\ Nobody \notin Calls
        /\ TypeOK' /\ CallInv' /\ Interactive' = Interactive
        /\ ~Interactive => Unheld'
    BY Steady, StepKept, KeptCalls, StepServes, MarkersAssumption, Rigid DEF Serves
  <1>2. SUFFICES ASSUME Lone(c)', Lone(c) PROVE Absence(c)'
    BY <1>1 DEF Absence
  <1>3. ASSUME call'[c].pc # "write", \A r \in Rows : lock'[r] # c PROVE Absence(c)'
    BY <1>1, <1>2, <1>3, AbsenceOf
  <1>4. CASE ~Interactive
    <2>1. \A r \in Rows : lock'[r] # c
      BY <1>1, <1>4 DEF Unheld
    <2>2. call'[c].pc # "write"
      BY <1>1, <1>4 DEF CallInv, Sane
    <2> QED BY <1>3, <2>1, <2>2
  <1>5. ASSUME NEW why \in Reasons, NEW raceable \in BOOLEAN, Throw(c, why, raceable)
        PROVE  Absence(c)'
    <2>1. \A r \in Rows : lock'[r] # c
      BY <1>1, <1>5, ThrowLeaves, LeaveType
    <2> QED BY <1>3, <1>5, <2>1, ThrowMoves
  <1>6. CASE Begin(c)
    <2>1. call[c].pc = "idle" /\ call'[c].pc # "write" /\ lock' = lock
      BY <1>6 DEF Begin, TypeOK, CallStates
    <2> QED BY <1>2, <1>3, <2>1 DEF Absence
  <1>7. CASE Wait(c)
    <2>1. call[c].pc = "scan" /\ call'[c].pc # "write" /\ lock' = lock
      BY <1>7 DEF Wait, TypeOK, CallStates
    <2> QED BY <1>2, <1>3, <2>1 DEF Absence
  <1>8. CASE Locate(c) \/ Wake(c)
    <2>1. PICK r \in Rows \cup {NoRow} :
             /\ Take(c, r) /\ Interactive /\ Locates(Op(c)) /\ call[c].pc \in {"scan", "wait"}
             /\ Op(c) \in Ops
             /\ call[c].pc = "wait" => Returning
             /\ call[c].pc = "scan" /\ r = NoRow =>
                  Selected(View(c), Op(c)) = {} /\ (~Returning => Claims(c, Op(c).where) = {})
      BY <1>8, LocateTakes
    <2>2. PICK p : /\ p = PlanFor(View(c), Op(c), r) /\ Last(call'[c].plans) = p
                   /\ call'[c].pc = "write"
      BY <1>2, <2>1, TakeMoves DEF Lone
    <2>3. p.row = r
      BY <2>1, <2>2, ViewType, PlanType
    <2>4. CASE r # NoRow
      BY <1>1, <1>2, <2>2, <2>3, <2>4, AbsenceOf
    <2>5. CASE r = NoRow
      <3>1. lock' = lock /\ table' = table /\ draft' = draft
        BY <2>1, <2>5 DEF Take
      <3>2. \A x \in Rows : lock'[x] # c
        BY <1>2, <2>1, <3>1 DEF Absence
      <3>3. ASSUME ~Returning, ~LoneOp(c).filter
            PROVE  c \in gap'[LoneOp(c).where] /\ Barren(table', draft', LoneOp(c).where)
        <4>1. call[c].pc = "scan" /\ Op(c) = LoneOp(c) /\ Op(c).where \in Keys
          BY <1>2, <2>1, <3>3, LoneView DEF Ops
        <4>2. gap' = [gap EXCEPT ![Op(c).where] = gap[Op(c).where] \cup {c}]
          BY <2>1, <2>5, <3>3 DEF Take
        <4>3. c \in gap'[LoneOp(c).where]
          BY <4>1, <4>2 DEF TypeOK
        <4>4. Barren(table, draft, LoneOp(c).where)
          BY <1>2, <2>1, <2>5, <3>3, <4>1, TakeFindsNothing
        <4> QED BY <3>1, <4>3, <4>4
      <3> QED BY <1>1, <1>2, <3>2, <3>3, AbsenceOf
    <2> QED BY <2>4, <2>5
  <1>9. CASE Write(c)
    <2>1. PICK p, done :
             /\ p \in Plans
             /\ p = (IF Locates(Op(c)) THEN Plan(c) ELSE Unlocated(Op(c)))
             /\ Given(Op(c), p) /\ done = Statement(View(c), Op(c), p)
             /\ call[c].pc = IF Locates(Op(c)) THEN "write" ELSE "scan"
             /\ \/ Advance(c, done.row)
                \/ /\ done.fate # "ok"
                   /\ Throw(c, done.fate, done.fate = "conflict" /\ Pinned(Op(c), p))
      BY <1>9, WriteDoes
    <2>2. call[c].pc \in {"scan", "write"}
      BY <2>1
    <2>3. CASE Advance(c, done.row)
      <3>1. call[c].at = Len(work.ops[c])
        BY <1>2, <2>2, LoneView
      <3>2. call'[c].pc \in {"commit", "done"}
        BY <2>3, <3>1 DEF Advance, TypeOK, CallStates
      <3> QED BY <1>1, <1>2, <3>2, AbsenceOf
    <2>4. CASE Throw(c, done.fate, done.fate = "conflict" /\ Pinned(Op(c), p)) /\ done.fate # "ok"
      <3>1. Op(c) \in Ops /\ (Op(c).kind \in {"create", "upsert"} => Op(c).row \in Rows)
        BY <2>2, Running
      <3>2. done.fate \in {"ok", "notFound", "conflict"}
        BY <2>1, <3>1, StatementType, ViewType
      <3>3. done.fate \in Reasons /\ (done.fate = "conflict" /\ Pinned(Op(c), p)) \in BOOLEAN
        BY <2>4, <3>2 DEF Reasons, Pinned
      <3> QED BY <1>5, <2>4, <3>3
    <2> QED BY <2>1, <2>3, <2>4
  <1>10. CASE Victim(c)
    <2>1. /\ Throw(c, "deadlock", call[c].pc = "write" /\ Pinned(Op(c), Plan(c)))
          /\ (call[c].pc = "write" /\ Pinned(Op(c), Plan(c))) \in BOOLEAN
      BY <1>10, VictimWaits DEF Pinned
    <2> QED BY <1>5, <2>1 DEF Reasons
  <1>11. CASE Commit(c)
    <2>1. call'[c].pc = "done"
      BY <1>11 DEF Commit, TypeOK, CallStates
    <2> QED BY <1>2, <2>1 DEF Lone
  <1>12. CASE Interactive
    <2>1. ~PlanBatch(c) /\ ~RunBatch(c) /\ ~Blame(c)
      BY <1>12 DEF PlanBatch, RunBatch, Blame, CallInv, Sane
    <2> QED BY <1>6, <1>7, <1>8, <1>9, <1>10, <1>11, <2>1 DEF Step, Deadlock, Recorded
  <1> QED BY <1>4, <1>12
-----------------------------------------------------------------------------
(***************************************************************************)
(* Lone calls: why they fail.                                              *)
(***************************************************************************)

\* An upsert that keeps its key fails only to insert a key that is taken.
LEMMA LostRace ==
  ASSUME NEW t \in Tables, UniqueKeys(t), NEW op \in Ops, OwnPremise(op), op.row \in Rows,
         t[op.row] = Absent, NEW p \in Plans, Given(op, p),
         ~Interactive /\ p.arm = "update" => p.row \in Selected(t, op),
         NEW s, s = Statement(t, op, p), s.fate = "conflict"
  PROVE  Pinned(op, p) /\ Holder(t, op.where) # {}
  <1>1. op.kind = "upsert" /\ ~op.filter /\ op.create = op.where /\ op.to = op.where
    BY DEF OwnPremise
  <1>2. ASSUME NEW r \in Hit(t, op, p), Holder(t, op.to) \ {r} # {}, p.arm # "insert" PROVE FALSE
    <2>1. r \in Holder(t, op.where)
      <3>1. CASE p.arm = "folded"
        BY <1>1, <1>2, <3>1 DEF Hit
      <3>2. CASE p.arm # "folded"
        <4>1. r \in Targets(t, op, p)
          BY <1>2, <3>2 DEF Hit
        <4>2. CASE Interactive
          BY <1>1, <4>1, <4>2 DEF Targets, ByWhere, Selected
        <4>3. CASE ~Interactive /\ p.arm = "update"
          BY <4>1, <4>3 DEF Targets, Selected, Holder, ByWhere
        <4>4. CASE Locates(op) /\ p.arm = "skip"
          BY <4>4 DEF Statement
        <4> QED BY <1>1, <1>2, <3>2, <4>2, <4>3, <4>4 DEF Given, PlanFits, Unlocated
      <3> QED BY <3>1, <3>2
    <2>2. Holder(t, op.to) \ {r} = {}
      BY <1>1, <2>1 DEF Holder, UniqueKeys
    <2> QED BY <1>2, <2>2
  <1>3. /\ p.arm = "insert" \/ (p.arm = "folded" /\ Holder(t, op.where) = {})
        /\ Holder(t, op.create) # {}
    BY <1>1, <1>2, StatementCases DEF Inserts, Updates, Deletes
  <1> QED BY <1>1, <1>3 DEF Pinned

LEMMA BrokenGuard ==
  ASSUME NEW t \in Tables, NEW op \in Ops, ~op.filter, NEW p, NEW g, GuardOf(op, p, g),
         ~GuardHolds(t, g)
  PROVE  /\ g.raceable => Holder(t, op.where) # {}
         /\ g.why = "notFound" =>
              Holder(t, op.where) = {} \/ (p.row \in Rows /\ p.row \notin Holder(t, op.where))
  <1>1. Selected(t, op) = Holder(t, op.where)
    BY DEF Selected
  <1>2. PICK h : h = Holder(t, op.where)
    OBVIOUS
  <1>3. h \subseteq Rows
    BY <1>2 DEF Holder
  <1>4. CASE g = Guard(op, Rows, FALSE, TRUE, "notFound", FALSE)
    <2>1. /\ g.op = op /\ g.rows = Rows /\ g.flagged = FALSE /\ g.exists = TRUE
          /\ g.why = "notFound" /\ g.raceable = FALSE
      BY <1>4 DEF Guard
    <2>2. ~(\E r \in Selected(t, op) \cap Rows : TRUE)
      BY <2>1 DEF GuardHolds
    <2> QED BY <1>1, <1>2, <1>3, <2>1, <2>2
  <1>5. CASE g = Found(op, p) /\ p.row \in Rows
    <2>1. /\ g.op = op /\ g.rows = {p.row} /\ g.flagged = FALSE /\ g.exists = TRUE
          /\ g.why = "notFound" /\ g.raceable = FALSE
      BY <1>5 DEF Guard, Found
    <2>2. ~(\E r \in Selected(t, op) \cap {p.row} : TRUE)
      BY <2>1 DEF GuardHolds
    <2> QED BY <1>1, <1>5, <2>1, <2>2
  <1>6. CASE g = Guard(op, {p.row}, TRUE, TRUE, "premise", FALSE)
    BY <1>6 DEF Guard
  <1>7. CASE g = Guard(op, {p.row}, TRUE, FALSE, "premise", TRUE)
    <2>1. /\ g.op = op /\ g.rows = {p.row} /\ g.flagged = TRUE /\ g.exists = FALSE
          /\ g.why = "premise" /\ g.raceable = TRUE
      BY <1>7 DEF Guard
    <2>2. \E r \in Selected(t, op) \cap {p.row} : t[r].flag
      BY <2>1 DEF GuardHolds
    <2> QED BY <1>1, <2>1, <2>2
  <1> QED BY <1>4, <1>5, <1>6, <1>7 DEF GuardOf

LEMMA LonePlan ==
  ASSUME TypeOK, CallInv, NEW c \in Calls, Lone(c), call[c].pc \in {"batch", "blame"},
         NEW p, p = call[c].plans[1]
  PROVE  /\ p \in Plans /\ Planned(LoneOp(c), p) /\ Given(LoneOp(c), p) /\ p.arm # "missing"
         /\ Last(call[c].plans) = p /\ Len(call[c].plans) = 1 /\ ~Interactive
  <1>1. /\ Sane(c, call[c], draft[c]) /\ Len(work.ops[c]) = 1 /\ call[c].plans \in Seq(Plans)
    BY LoneView, CallType DEF CallInv
  <1>2. Len(call[c].plans) = 1 /\ ~Interactive /\ \A i \in 1..1 : Planned(work.ops[c][i], call[c].plans[i])
    BY <1>1 DEF Sane
  <1>3. 1 \in 1..1
    OBVIOUS
  <1>4. Planned(LoneOp(c), p)
    BY <1>2, <1>3 DEF LoneOp
  <1>5. p \in Plans /\ Last(call[c].plans) = p
    BY <1>1, <1>2 DEF Last
  <1> QED BY <1>2, <1>4, <1>5 DEF Planned, Given

\* What becomes of a batch of one operation, on the table t.
LoneRun(t, op, p, run) ==
  \/ run.fate = "ok"
  \/ /\ run.fate = "conflict" /\ Statement(t, op, p).fate = "conflict"
     /\ p.arm = "update" => p.row \in Selected(t, op)
  \/ /\ run.fate = "guard"
     /\ \E g \in Range(Guards(op, p)) : ~GuardHolds(t, g) /\ run.culprit = <<g>>

LEMMA BatchOfOne ==
  ASSUME TypeOK, CallInv, NEW c \in Calls, Lone(c), call[c].pc = "batch",
         NEW op, op = LoneOp(c), NEW p, p = call[c].plans[1],
         NEW run, run = BatchRun(table, work.ops[c], call[c].plans)
  PROVE  LoneRun(table, op, p, run)
  <1>1. /\ p \in Plans /\ Planned(op, p) /\ Given(op, p) /\ p.arm # "missing" /\ ~Interactive
    BY LonePlan
  <1>2. /\ op \in Ops /\ Len(work.ops[c]) = 1 /\ (op.kind \in {"create", "upsert"} => op.row \in Rows)
        /\ op = work.ops[c][1]
    BY LoneView DEF LoneOp
  <1>3. run = Entry(Started(table), op, p)
    BY <1>2, OneEntry
  <1>4. PICK start : start = Started(table)
    OBVIOUS
  <1>5. start \in Outcomes /\ start.fate = "ok" /\ start.table = table
    BY <1>4, ServerTypes DEF Outcomes, Started
  <1>6. PICK next : next = Statement(table, op, p)
    OBVIOUS
  <1>7. \/ \E g \in Range(Guards(op, p)) :
             ~GuardHolds(table, g) /\ run.fate = "guard" /\ run.culprit = <<g>>
        \/ /\ next.fate = "conflict" /\ run.fate = "conflict"
           /\ \A g \in Range(Guards(op, p)) : GuardHolds(table, g)
        \/ run.fate = "ok"
    BY <1>1, <1>2, <1>3, <1>4, <1>5, <1>6, EntryCases
  <1>8. ASSUME p.arm = "update", \A g \in Range(Guards(op, p)) : GuardHolds(table, g)
        PROVE  p.row \in Selected(table, op)
    <2>1. PICK q : q = Guards(op, p)
      OBVIOUS
    <2>2. PICK i \in DOMAIN q : q[i].op = op /\ q[i].rows = {p.row} /\ q[i].exists = TRUE
      <3>1. p.arm = "update" /\ p.arm # "missing"
        BY <1>8
      <3>2. Insists(q, op, p.row)
        BY <1>1, <1>2, <2>1, <3>1, GuardsType
      <3> QED BY <3>2 DEF Insists
    <2>3. q[i] \in Range(q)
      BY <2>2 DEF Range
    <2>4. GuardHolds(table, q[i])
      BY <1>8, <2>1, <2>3
    <2> QED BY <2>2, <2>4 DEF GuardHolds
  <1> QED BY <1>6, <1>7, <1>8 DEF LoneRun
-----------------------------------------------------------------------------
(***************************************************************************)
(* Lone calls: what they chose, and the turns of their keys.               *)
(***************************************************************************)

LEMMA ChoiceOf ==
  ASSUME NEW d, NEW s, NEW h, work' = work, call'[d] = s, holders'[d] = h, Choice(d, s, h)
  PROVE  Choice(d, call[d], holders[d])'
  <1>1. Interactive' = Interactive
    BY Rigid
  <1> QED BY <1>1 DEF Choice, InPlay, Counted, LoneOp, Single

LEMMA ChoiceTurns ==
  ASSUME NEW d, NEW s \in CallStates, NEW w, Sane(d, s, w), NEW h \in Seq(SUBSET Rows),
         Choice(d, s, h), h # <<>>, NEW h2 \in Seq(SUBSET Rows), Len(h2) = Len(h) + 1
  PROVE  Choice(d, s, h2)
  <1>1. PICK n, m : n = Len(h) /\ m = Len(h2)
    OBVIOUS
  <1>2. n \in Nat /\ n >= 1 /\ m = n + 1 /\ m \in Nat
    BY <1>1
  <1>3. m > 1 /\ (n > 1 => m > 2) /\ (n > 2 => n > 1)
    BY <1>2
  <1>4. s.attempt \in {1, 2} /\ (s.pc \in {"wait", "write"} => Interactive)
        /\ (s.pc \in {"batch", "blame"} => ~Interactive)
    BY DEF Sane, CallStates
  <1>5. PICK a : a = s.attempt
    OBVIOUS
  <1>6. CASE a = 1
    BY <1>1, <1>3, <1>4, <1>5, <1>6 DEF Choice
  <1>7. CASE a = 2
    <2>1. ASSUME InPlay(d, s), Counted(d, s), s.pc = "wait" PROVE m > 2
      BY <1>1, <1>3, <1>4, <1>5, <1>7, <2>1 DEF Choice
    <2>2. ASSUME InPlay(d, s), Counted(d, s), s.pc \in {"write", "batch", "blame"},
                 \/ Last(s.plans).arm = "missing"
                 \/ Last(s.plans).arm = "insert" /\ LoneOp(d).kind = "upsert"
          PROVE  m > 2
      BY <1>1, <1>3, <1>4, <1>5, <1>7, <2>2 DEF Choice
    <2> QED BY <1>1, <1>3, <1>5, <1>7, <2>1, <2>2 DEF Choice
  <1> QED BY <1>4, <1>5, <1>6, <1>7

LEMMA ChoiceStays ==
  ASSUME TypeOK, CallInv, ServerInv, LoneInv, NEW c \in Calls, Step(c) \/ Deadlock(c),
         NEW d \in Calls, d # c
  PROVE  Choice(d, call[d], holders[d])'
  <1>1. call'[d] = call[d] /\ work' = work /\ History
    BY Steady
  <1>2. PICK s, h : s = call[d] /\ h = holders[d]
    OBVIOUS
  <1>3. s \in CallStates /\ Sane(d, s, draft[d]) /\ h \in Seq(SUBSET Rows) /\ Choice(d, s, h)
    BY <1>2 DEF TypeOK, CallInv, LoneInv
  <1>4. CASE ~InPlay(d, s)
    BY <1>1, <1>2, <1>4, ChoiceOf DEF Choice
  <1>5. CASE InPlay(d, s)
    <2>1. Lone(d) /\ call[d].pc # "idle" /\ call'[d].pc # "idle"
      BY <1>1, <1>2, <1>5 DEF InPlay, Lone
    <2>2. PICK h2 : h2 = holders'[d]
      OBVIOUS
    <2>3. h # <<>> /\ h2 \in Seq(SUBSET Rows) /\ (h2 = h \/ Len(h2) = Len(h) + 1)
      BY <1>1, <1>2, <2>1, <2>2, HistoryGrows DEF LoneInv, HoldersInv
    <2>4. Choice(d, s, h2)
      BY <1>3, <2>3, ChoiceTurns
    <2> QED BY <1>1, <1>2, <2>2, <2>4, ChoiceOf
  <1> QED BY <1>4, <1>5

\* What a lone call has retried was a race for its key.
LEMMA RetryCounts ==
  ASSUME TypeOK, CallInv, NEW c \in Calls, NEW why \in Reasons, NEW raceable \in BOOLEAN,
         Throw(c, why, raceable), work' = work, Lone(c)',
         NEW h, holders'[c] = h,
         raceable /\ call[c].attempt = 1 /\ work.on # "innodb" /\ OwnPremise(LoneOp(c)) =>
           Len(h) > 1 \/ (~Interactive /\ Last(h) # {})
  PROVE  Choice(c, call[c], holders[c])'
  <1>1. PICK s \in CallStates :
           /\ Moves(c, s)
           /\ s.pc # "done" => /\ raceable /\ call[c].attempt = 1
                               /\ s.pc = "scan" /\ s.attempt = 2
    BY ThrowDoes
  <1>2. call'[c] = s /\ s.pc # "done"
    BY <1>1, Moved DEF Lone
  <1>3. Choice(c, s, h)
    BY <1>1, <1>2 DEF Choice, Counted
  <1> QED BY <1>2, <1>3, ChoiceOf

\* A step that publishes nothing leaves a lone call's history as it is.
LEMMA LoneStays ==
  ASSUME TypeOK, CallInv, ServerInv, LoneInv, NEW c \in Calls, Step(c) \/ Deadlock(c),
         Lone(c)', Lone(c), call[c].pc # "idle"
  PROVE  /\ table' = table /\ holders'[c] = holders[c]
         /\ holders[c] # <<>> /\ holders[c] \in Seq(SUBSET Rows)
         /\ Last(holders[c]) = Holder(table, LoneOp(c).where)
         /\ Choice(c, call[c], holders[c]) /\ Absence(c)
  <1>1. call'[c].pc # "done" /\ call'[c].pc # "idle" /\ table' = table
    BY Steady, StepPublishes DEF Lone
  <1>2. History
    BY Steady
  <1> QED BY <1>1, <1>2, HistoryGrows DEF LoneInv, HoldersInv, TypeOK
\* A lone call goes on with the same attempt.
LEMMA ChoiceGoesOn ==
  ASSUME TypeOK, CallInv, ServerInv, LoneInv, NEW c \in Calls, Step(c) \/ Deadlock(c),
         Lone(c)', Lone(c), call[c].pc # "idle", ~LoneOp(c).filter,
         NEW s, s = call'[c], s.attempt = call[c].attempt, NEW p, p = Last(s.plans),
         NEW h, h = holders[c],
         Counted(c, s) /\ s.pc = "wait" => p.row \in Last(h) \/ Len(h) > s.attempt,
         /\ Counted(c, s) /\ s.pc \in {"write", "batch", "blame"}
         /\ p.arm = "missing" \/ (p.arm = "insert" /\ LoneOp(c).kind = "upsert")
         => Last(h) = {} \/ Len(h) > s.attempt,
         s.pc \in {"batch", "blame"} /\ p.row # NoRow => p.row \in Last(h) \/ Len(h) > 1
  PROVE  Choice(c, call[c], holders[c])'
  <1>1. work' = work /\ holders'[c] = h /\ Choice(c, call[c], h)
    BY LoneStays, Steady
  <1>2. InPlay(c, call[c])
    BY DEF InPlay, Lone
  <1>3. Counted(c, s) /\ s.attempt = 2 => Len(h) > 1 \/ (~Interactive /\ Last(h) # {})
    BY <1>1, <1>2 DEF Choice, Counted
  <1>4. Choice(c, s, h)
    BY <1>3 DEF Choice
  <1> QED BY <1>1, <1>4, ChoiceOf

LEMMA WaitChoice ==
  ASSUME TypeOK, CallInv, ServerInv, LoneInv, NEW c \in Calls, Step(c), Wait(c),
         Lone(c)', Lone(c), ~LoneOp(c).filter
  PROVE  Choice(c, call[c], holders[c])'
  <1>1. call[c].pc = "scan" /\ table' = table
    BY DEF Wait
  <1>2. PICK r \in Selected(View(c), Op(c)) :
           call' = [call EXCEPT ![c].pc = "wait", ![c].plans = <<[row |-> r, arm |-> "none"]>>]
    BY DEF Wait
  <1>3. PICK q, p, s : p = [row |-> r, arm |-> "none"] /\ q = <<p>> /\ s = call'[c]
    OBVIOUS
  <1>4. Last(q) = p /\ p.row = r
    BY <1>3 DEF Last
  <1>5. s.pc = "wait" /\ s.attempt = call[c].attempt /\ s.plans = q
    BY <1>2, <1>3 DEF TypeOK, CallStates
  <1>6. r \in Holder(table, LoneOp(c).where)
    BY <1>1, LoneView DEF Selected
  <1>7. PICK h : h = holders[c]
    OBVIOUS
  <1>8. r \in Last(h)
    BY <1>1, <1>6, <1>7, LoneStays
  <1> QED BY <1>1, <1>3, <1>4, <1>5, <1>7, <1>8, ChoiceGoesOn

LEMMA TakeChoice ==
  ASSUME TypeOK, CallInv, ServerInv, LoneInv, NEW c \in Calls, Step(c), Locate(c) \/ Wake(c),
         Lone(c)', Lone(c), ~LoneOp(c).filter
  PROVE  Choice(c, call[c], holders[c])'
  <1>1. PICK r \in Rows \cup {NoRow} :
           /\ Take(c, r) /\ Locates(Op(c)) /\ call[c].pc \in {"scan", "wait"}
           /\ Op(c) \in Ops
           /\ call[c].pc = "wait" /\ r = NoRow => Plan(c).row \notin Selected(View(c), Op(c))
           /\ call[c].pc = "scan" /\ r = NoRow => Selected(View(c), Op(c)) = {}
    BY LocateTakes
  <1>2. PICK p : /\ p = PlanFor(View(c), Op(c), r)
                 /\ call'[c].pc = "write" /\ call'[c].attempt = call[c].attempt
                 /\ Last(call'[c].plans) = p
    BY <1>1, TakeMoves
  <1>3. PICK s, h : s = call'[c] /\ h = holders[c]
    OBVIOUS
  <1>4. PlanFits(Op(c), p) /\ p.row = r
    BY <1>1, <1>2, ViewType, PlanType
  <1>5. /\ View(c) = table /\ Op(c) = LoneOp(c) /\ Selected(table, LoneOp(c)) = Holder(table, LoneOp(c).where)
        /\ Last(h) = Holder(table, LoneOp(c).where) /\ Choice(c, call[c], h)
    BY <1>1, <1>3, LoneView, LoneStays DEF Selected
  <1>6. ASSUME Counted(c, s), p.arm = "missing" \/ p.arm = "insert"
        PROVE  Last(h) = {} \/ Len(h) > s.attempt
    <2>1. r = NoRow
      BY <1>4, <1>6 DEF PlanFits
    <2>2. CASE call[c].pc = "scan"
      BY <1>1, <1>5, <2>1, <2>2
    <2>3. CASE call[c].pc = "wait"
      <3>1. Last(call[c].plans).row \notin Last(h)
        BY <1>1, <1>5, <2>1, <2>3 DEF Plan
      <3>2. Counted(c, call[c]) /\ InPlay(c, call[c])
        BY <1>2, <1>3, <1>6, <2>3 DEF Counted, InPlay, Lone
      <3> QED BY <1>2, <1>3, <1>5, <2>3, <3>1, <3>2 DEF Choice
    <2> QED BY <1>1, <2>2, <2>3
  <1> QED BY <1>1, <1>2, <1>3, <1>6, ChoiceGoesOn

LEMMA WriteChoice ==
  ASSUME TypeOK, CallInv, ServerInv, LoneInv, NEW c \in Calls, Step(c), Write(c),
         Lone(c)', Lone(c), ~LoneOp(c).filter
  PROVE  Choice(c, call[c], holders[c])'
  <1>1. PICK p, done :
           /\ p \in Plans
           /\ p = (IF Locates(Op(c)) THEN Plan(c) ELSE Unlocated(Op(c)))
           /\ Given(Op(c), p) /\ done = Statement(View(c), Op(c), p)
           /\ Interactive
           /\ call[c].pc = IF Locates(Op(c)) THEN "write" ELSE "scan"
           /\ \/ Advance(c, done.row)
              \/ /\ done.fate # "ok"
                 /\ Throw(c, done.fate, done.fate = "conflict" /\ Pinned(Op(c), p))
    BY WriteDoes
  <1>2. PICK h, op : h = holders[c] /\ op = LoneOp(c)
    OBVIOUS
  <1>3. call[c].pc \in {"scan", "write"} /\ call[c].pc # "idle" /\ call[c].pc # "commit"
    BY <1>1
  <1>4. /\ View(c) = table /\ Op(c) = op /\ op \in Ops /\ call[c].at = 1 /\ Len(work.ops[c]) = 1
        /\ op.kind \in {"create", "upsert"} => op.row \in Rows
    BY <1>2, <1>3, LoneView
  <1>5. /\ holders'[c] = h /\ Last(h) = Holder(table, op.where) /\ Choice(c, call[c], h)
        /\ work' = work
    BY <1>2, <1>3, LoneStays, Steady
  <1>6. CASE Advance(c, done.row)
    <2>1. PICK s : s = call'[c]
      OBVIOUS
    <2>2. s.pc \in {"commit", "done"} /\ s.attempt = call[c].attempt
      BY <1>4, <1>6, <2>1 DEF Advance, TypeOK, CallStates
    <2> QED BY <1>2, <1>3, <2>1, <2>2, ChoiceGoesOn
  <1>7. CASE Throw(c, done.fate, done.fate = "conflict" /\ Pinned(Op(c), p)) /\ done.fate # "ok"
    <2>1. done = Statement(table, op, p) /\ Given(op, p)
      BY <1>1, <1>4
    <2>2. done.fate \in {"ok", "notFound", "conflict"}
      BY <1>1, <1>4, <2>1, StatementType, ServerTypes
    <2>3. PICK why, raceable : why = done.fate /\ raceable = (why = "conflict" /\ Pinned(op, p))
      OBVIOUS
    <2>4. why \in Reasons /\ raceable \in BOOLEAN /\ Throw(c, why, raceable)
      BY <1>4, <1>7, <2>2, <2>3 DEF Reasons, Pinned
    <2>5. ASSUME raceable, call[c].attempt = 1, OwnPremise(op) PROVE Len(h) > 1
      <3>1. /\ done.fate = "conflict" /\ p.arm = "insert" /\ op.kind = "upsert"
        BY <2>3, <2>5 DEF Pinned
      <3>2. table[op.row] = Absent
        <4>1. op.row \in Created(work.ops[c])
          BY <1>3, <1>4, <3>1, Running
        <4> QED BY <4>1 DEF LoneInv, FreshInv
      <3>3. Holder(table, op.where) # {}
        BY <1>1, <1>4, <2>1, <2>5, <3>1, <3>2, LostRace, ServerTypes DEF ServerInv, Server, UniqueViews
      <3>4. p = Plan(c) /\ call[c].pc = "write"
        BY <1>1, <1>4, <2>1, <3>1 DEF Given, Unlocated
      <3>5. InPlay(c, call[c]) /\ Counted(c, call[c])
        BY <1>2, <2>5, <3>4 DEF InPlay, Counted, Lone
      <3> QED BY <1>2, <1>5, <2>5, <3>1, <3>3, <3>4, <3>5 DEF Choice, Plan
    <2> QED BY <1>2, <1>5, <2>4, <2>5, RetryCounts
  <1> QED BY <1>1, <1>6, <1>7

\* Nobody waits for a call that has locked and written nothing, but on InnoDB.
LEMMA HoldsNothing ==
  ASSUME TypeOK, CallInv, ServerInv, NEW c \in Calls,
         \A r \in Rows : lock[r] # c, draft[c] = Untouched, Returning,
         NEW e \in Calls
  PROVE  c \notin Blockers(e)
  <1>1. \A r \in Rows : draft[c][r] = Same
    BY DEF Untouched
  <1>2. \A k : c \notin Claims(e, k)
    BY <1>1 DEF Claims
  <1>3. \A k \in Keys : c \notin Entrants(e, k)
    BY <1>2 DEF Entrants, ServerInv, EntriesOnly
  <1>4. \A S : S \subseteq Rows => c \notin Lockers(e, S)
    BY DEF Lockers
  <1>5. Selected(View(e), Op(e)) \subseteq Rows /\ Targets(View(e), Op(e), Plan(e)) \subseteq Rows
    BY DEF Selected, Holder, Targets
  <1>6. call[e].pc = "wait" => c \notin Lockers(e, {Plan(e).row})
    <2>1. call[e].pc = "wait" => Plan(e).row \in Rows
      BY DEF CallInv, Sane, Plan
    <2> QED BY <1>4, <2>1
  <1>7. call[e].pc # "done" => Op(e).create \in Keys /\ Op(e).to \in Keys
    BY Running DEF Ops
  <1> QED BY <1>2, <1>3, <1>4, <1>5, <1>6, <1>7 DEF Blockers

LEMMA VictimChoice ==
  ASSUME TypeOK, CallInv, ServerInv, LoneInv, NEW c \in Calls, Deadlock(c), Victim(c),
         Lone(c)', Lone(c), ~LoneOp(c).filter
  PROVE  Choice(c, call[c], holders[c])'
  <1>1. PICK raceable : raceable = (call[c].pc = "write" /\ Pinned(Op(c), Plan(c)))
    OBVIOUS
  <1>2. /\ call[c].pc \in {"scan", "wait", "write"} /\ Interactive
        /\ \E e \in Calls : c \in Blockers(e)
        /\ Throw(c, "deadlock", raceable) /\ raceable \in BOOLEAN
    BY <1>1, VictimWaits DEF Pinned
  <1>3. ASSUME raceable, work.on # "innodb" PROVE FALSE
    <2>1. call[c].pc = "write" /\ Plan(c).arm = "insert" /\ Returning
      BY <1>1, <1>3 DEF Pinned, Returning
    <2>2. PlanFits(Op(c), Plan(c))
      BY <2>1 DEF CallInv, Sane, Op, Plan
    <2>3. Plan(c).row = NoRow
      BY <2>1, <2>2 DEF PlanFits
    <2>4. \A r \in Rows : lock[r] # c
      BY <2>1, <2>3 DEF LoneInv, Absence
    <2>5. draft[c] = Untouched
      BY <2>1, LoneView
    <2> QED BY <1>2, <2>1, <2>4, <2>5, HoldsNothing
  <1>4. work' = work
    BY Steady
  <1>5. PICK h : h = holders'[c]
    OBVIOUS
  <1> QED BY <1>2, <1>3, <1>4, <1>5, RetryCounts DEF Reasons
LEMMA PlanChoice ==
  ASSUME TypeOK, CallInv, ServerInv, LoneInv, NEW c \in Calls, Step(c), PlanBatch(c),
         Lone(c)', Lone(c), ~LoneOp(c).filter
  PROVE  Choice(c, call[c], holders[c])'
  <1>1. call[c].pc = "scan" /\ Op(c) \in Ops
    BY PlanBatchDoes
  <1>2. PICK p \in Plans :
           /\ Locates(Op(c)) =>
                /\ PlanFits(Op(c), p)
                /\ p.row # NoRow => p.row \in Selected(table, Op(c))
                /\ p.row = NoRow => Selected(table, Op(c)) = {}
           /\ ~Locates(Op(c)) => p = Unlocated(Op(c))
           /\ IF p.arm = "missing" THEN Reject(c, "notFound")
              ELSE call' = [call EXCEPT ![c].plans = Append(@, p),
                              ![c].pc = IF call[c].at = Len(work.ops[c]) THEN "batch" ELSE @,
                              ![c].at = IF call[c].at = Len(work.ops[c]) THEN @ ELSE @ + 1]
    BY PlanBatchDoes
  <1>3. PICK h, op : h = holders[c] /\ op = LoneOp(c)
    OBVIOUS
  <1>4. /\ Op(c) = op /\ call[c].at = Len(work.ops[c]) /\ Selected(table, op) = Holder(table, op.where)
        /\ Last(h) = Holder(table, op.where)
    BY <1>1, <1>3, LoneView, LoneStays DEF Selected
  <1>5. p.arm # "missing"
    <2>1. ASSUME Reject(c, "notFound") PROVE FALSE
      <3>1. call'[c].pc = "done"
        BY <2>1 DEF Reject, TypeOK, CallStates
      <3> QED BY <3>1 DEF Lone
    <2> QED BY <1>2, <2>1
  <1>6. PICK s, q : s = call'[c] /\ q = call[c].plans
    OBVIOUS
  <1>7. q \in Seq(Plans) /\ Last(Append(q, p)) = p
    BY <1>6, CallType DEF Last
  <1>8. s.pc = "batch" /\ s.attempt = call[c].attempt /\ s.plans = Append(q, p)
    BY <1>2, <1>4, <1>5, <1>6 DEF TypeOK, CallStates
  <1>9. p.arm = "insert" /\ op.kind = "upsert" => Last(h) = {}
    BY <1>2, <1>4 DEF Unlocated, PlanFits
  <1>10. p.row # NoRow => p.row \in Last(h)
    BY <1>2, <1>4 DEF Unlocated
  <1> QED BY <1>1, <1>3, <1>5, <1>6, <1>7, <1>8, <1>9, <1>10, ChoiceGoesOn

LEMMA RunBatchChoice ==
  ASSUME TypeOK, CallInv, ServerInv, LoneInv, NEW c \in Calls, Step(c), RunBatch(c),
         Lone(c)', Lone(c), ~LoneOp(c).filter
  PROVE  Choice(c, call[c], holders[c])'
  <1>1. PICK h, op, p : h = holders[c] /\ op = LoneOp(c) /\ p = call[c].plans[1]
    OBVIOUS
  <1>2. PICK run : run = BatchRun(table, work.ops[c], call[c].plans)
    OBVIOUS
  <1>3. UniqueKeys(table)
    BY DEF ServerInv, Server, UniqueViews
  <1>4. call[c].pc = "batch"
    BY DEF RunBatch
  <1>5. /\ holders'[c] = h /\ Last(h) = Holder(table, op.where) /\ Choice(c, call[c], h)
        /\ work' = work
    BY <1>1, <1>4, LoneStays, Steady
  <1>6. /\ op \in Ops /\ op = work.ops[c][1] /\ Single(c)
        /\ op.kind \in {"create", "upsert"} => op.row \in Rows
    BY <1>1, <1>4, LoneView DEF LoneOp, Lone
  <1>7. p \in Plans /\ Given(op, p) /\ Last(call[c].plans) = p /\ ~Interactive
    BY <1>1, <1>4, LonePlan
  <1>8. \/ run.fate = "ok"
        \/ /\ run.fate = "conflict" /\ Statement(table, op, p).fate = "conflict"
           /\ p.arm = "update" => p.row \in Selected(table, op)
        \/ /\ run.fate = "guard"
           /\ \E g \in Range(Guards(op, p)) : ~GuardHolds(table, g) /\ run.culprit = <<g>>
    <2>1. LoneRun(table, op, p, run)
      BY <1>1, <1>2, <1>4, BatchOfOne
    <2> QED BY <2>1 DEF LoneRun
  <1>9. CASE /\ run.fate = "conflict"
             /\ Throw(c, "conflict", Pinned(work.ops[c][1], call[c].plans[1]))
    <2>1. PICK raceable : raceable = Pinned(op, p)
      OBVIOUS
    <2>2. raceable \in BOOLEAN /\ Throw(c, "conflict", raceable)
      BY <1>1, <1>6, <1>9, <2>1 DEF Pinned
    <2>3. ASSUME raceable, OwnPremise(op) PROVE Last(h) # {}
      <3>1. op.kind = "upsert"
        BY <2>3 DEF OwnPremise
      <3>2. table[op.row] = Absent /\ op.row \in Rows
        <4>1. op.row \in Created(work.ops[c]) /\ op.row \in Rows
          BY <1>4, <1>6, <3>1, Running
        <4> QED BY <4>1 DEF LoneInv, FreshInv
      <3>3. PICK next : next = Statement(table, op, p)
        OBVIOUS
      <3>4. next.fate = "conflict" /\ (p.arm = "update" => p.row \in Selected(table, op))
        BY <1>8, <1>9, <3>3
      <3> QED BY <1>3, <1>5, <1>6, <1>7, <2>3, <3>2, <3>3, <3>4, LostRace, ServerTypes
    <2> QED BY <1>1, <1>5, <1>7, <2>2, <2>3, RetryCounts DEF Reasons
  <1>10. ASSUME run.fate = "guard", NEW g \in Guarding(c), run.culprit = <<g>>,
                Throw(c, g.why, g.raceable)
         PROVE  Choice(c, call[c], holders[c])'
    <2>1. g \in Range(Guards(op, p)) /\ ~GuardHolds(table, g)
      <3>1. PICK x \in Range(Guards(op, p)) : ~GuardHolds(table, x) /\ run.culprit = <<x>>
        BY <1>8, <1>10
      <3>2. x = g
        <4>1. <<x>>[1] = x /\ <<g>>[1] = g
          OBVIOUS
        <4> QED BY <1>10, <3>1, <4>1
      <3> QED BY <3>1, <3>2
    <2>2. GuardOf(op, p, g)
      BY <1>1, <1>4, <1>6, <1>10, GuardingOne
    <2>3. g.why \in Reasons /\ g.raceable \in BOOLEAN
      BY PremiseType DEF Guarding
    <2>4. g.raceable => Last(h) # {}
      BY <1>1, <1>5, <1>6, <2>1, <2>2, BrokenGuard, ServerTypes
    <2> QED BY <1>1, <1>5, <1>7, <1>10, <2>3, <2>4, RetryCounts
  <1>11. CASE call' = [call EXCEPT ![c].pc = "blame",
                         ![c].suspects = FlattenSeq([i \in DOMAIN work.ops[c] |->
                                            Guards(work.ops[c][i], call[c].plans[i])])]
    <2>1. PICK q, s : q = FlattenSeq([i \in DOMAIN work.ops[c] |->
                                        Guards(work.ops[c][i], call[c].plans[i])])
                      /\ s = call'[c]
      OBVIOUS
    <2>2. call' = [call EXCEPT ![c].pc = "blame", ![c].suspects = q]
      BY <1>11, <2>1
    <2>3. s.pc = "blame" /\ s.attempt = call[c].attempt /\ s.plans = call[c].plans
      BY <2>1, <2>2 DEF TypeOK, CallStates
    <2>4. InPlay(c, call[c]) /\ (Counted(c, s) => Counted(c, call[c]))
      BY <1>4, <2>3 DEF InPlay, Counted, Lone
    <2>5. /\ Counted(c, s) /\ (p.arm = "missing" \/ (p.arm = "insert" /\ op.kind = "upsert"))
             => Last(h) = {} \/ Len(h) > s.attempt
          /\ p.row # NoRow => p.row \in Last(h) \/ Len(h) > 1
      BY <1>1, <1>4, <1>5, <1>7, <2>3, <2>4 DEF Choice
    <2> QED BY <1>1, <1>4, <1>7, <2>1, <2>3, <2>5, ChoiceGoesOn
  <1>12. CASE call' = [call EXCEPT ![c].pc = "done", ![c].outcome = "ok", ![c].rows = run.rows]
    <2>1. call'[c].pc = "done"
      BY <1>12 DEF TypeOK, CallStates
    <2> QED BY <2>1 DEF Lone
  <1>13. RunOutcome(c, run)
    BY <1>2, <1>3, RunBatchDoes
  <1> QED BY <1>9, <1>10, <1>11, <1>12, <1>13 DEF RunOutcome

\* The first guard that no longer holds is a broken guard of the operation.
LEMMA SuspectFound ==
  ASSUME TypeOK, CallInv, NEW c \in Calls, Lone(c), call[c].pc = "blame",
         call[c].suspects # <<>>, NEW g, g = Head(call[c].suspects)
  PROVE  GuardOf(LoneOp(c), call[c].plans[1], g)
  <1>1. /\ Sane(c, call[c], draft[c]) /\ Len(work.ops[c]) = 1
    BY LoneView DEF CallInv
  <1>2. PICK q, S : q = call[c].suspects /\ S = Range(Guards(work.ops[c][1], call[c].plans[1]))
    OBVIOUS
  <1>3. q \in Seq(S) /\ q # <<>>
    BY <1>1, <1>2 DEF Sane
  <1>4. Head(q) \in S
    BY <1>3
  <1> QED BY <1>2, <1>4, GuardingOne DEF LoneOp, Lone

LEMMA BlameChoice ==
  ASSUME TypeOK, CallInv, ServerInv, LoneInv, NEW c \in Calls, Step(c), Blame(c),
         Lone(c)', Lone(c), ~LoneOp(c).filter
  PROVE  Choice(c, call[c], holders[c])'
  <1>1. PICK h, op, p : h = holders[c] /\ op = LoneOp(c) /\ p = call[c].plans[1]
    OBVIOUS
  <1>2. /\ call[c].pc = "blame"
        /\ \/ Throw(c, "unattributed", FALSE)
           \/ \E g \in Premises :
                /\ call[c].suspects # <<>> /\ g = Head(call[c].suspects)
                /\ \/ ~GuardHolds(table, g) /\ Throw(c, g.why, g.raceable)
                   \/ call' = [call EXCEPT ![c].suspects = Tail(@)]
    BY BlameDoes
  <1>3. /\ holders'[c] = h /\ Last(h) = Holder(table, op.where) /\ Choice(c, call[c], h)
        /\ work' = work
    BY <1>1, <1>2, LoneStays, Steady
  <1>4. op \in Ops /\ ~Interactive /\ Last(call[c].plans) = p
    BY <1>1, <1>2, LoneView, LonePlan
  <1>5. CASE Throw(c, "unattributed", FALSE)
    BY <1>3, <1>5, RetryCounts DEF Reasons
  <1>6. ASSUME NEW g \in Premises, call[c].suspects # <<>>, g = Head(call[c].suspects),
               ~GuardHolds(table, g), Throw(c, g.why, g.raceable)
        PROVE  Choice(c, call[c], holders[c])'
    <2>1. GuardOf(op, p, g)
      BY <1>1, <1>2, <1>6, SuspectFound
    <2>2. g.raceable => Last(h) # {}
      BY <1>1, <1>3, <1>4, <1>6, <2>1, BrokenGuard, ServerTypes
    <2> QED BY <1>1, <1>3, <1>4, <1>6, <2>2, PremiseType, RetryCounts
  <1>7. CASE call' = [call EXCEPT ![c].suspects = Tail(@)]
    <2>1. PICK s : s = call'[c]
      OBVIOUS
    <2>2. s.pc = "blame" /\ s.attempt = call[c].attempt /\ s.plans = call[c].plans
      BY <1>2, <1>7, <2>1 DEF TypeOK, CallStates
    <2>3. InPlay(c, call[c]) /\ (Counted(c, s) => Counted(c, call[c]))
      BY <1>2, <2>2 DEF InPlay, Counted, Lone
    <2>4. /\ Counted(c, s) /\ (p.arm = "missing" \/ (p.arm = "insert" /\ op.kind = "upsert"))
             => Last(h) = {} \/ Len(h) > s.attempt
          /\ p.row # NoRow => p.row \in Last(h) \/ Len(h) > 1
      BY <1>1, <1>2, <1>3, <1>4, <2>2, <2>3 DEF Choice
    <2> QED BY <1>1, <1>2, <1>4, <2>1, <2>2, <2>4, ChoiceGoesOn
  <1> QED BY <1>2, <1>5, <1>6, <1>7

LEMMA ChoiceMoves ==
  ASSUME TypeOK, CallInv, ServerInv, LoneInv, NEW c \in Calls, Step(c) \/ Deadlock(c)
  PROVE  Choice(c, call[c], holders[c])'
  <1>1. PICK s, h : s = call'[c] /\ h = holders'[c]
    OBVIOUS
  <1>2. work' = work /\ (Lone(c)' => Lone(c)) /\ Single(c)' = Single(c)
    BY Steady
  <1>3. CASE ~InPlay(c, s)
    BY <1>1, <1>2, <1>3, ChoiceOf DEF Choice
  <1>4. CASE InPlay(c, s)
    <2>1. Lone(c)' /\ Lone(c) /\ ~LoneOp(c).filter
      BY <1>1, <1>2, <1>4 DEF InPlay, Lone
    <2>2. CASE Begin(c)
      <3>1. s.pc = "scan" /\ s.attempt = 1
        <4>1. call[c].attempt = 1
          BY <2>2 DEF Begin, CallInv, Sane
        <4> QED BY <1>1, <2>2, <4>1 DEF Begin, TypeOK, CallStates
      <3>2. Choice(c, s, h)
        BY <3>1 DEF Choice
      <3> QED BY <1>1, <1>2, <3>2, ChoiceOf
    <2>3. CASE Commit(c)
      <3>1. call'[c].pc = "done"
        BY <2>3 DEF Commit, TypeOK, CallStates
      <3> QED BY <2>1, <3>1 DEF Lone
    <2>4. CASE Step(c)
      BY <2>1, <2>2, <2>3, <2>4, WaitChoice, TakeChoice, WriteChoice, PlanChoice, RunBatchChoice,
         BlameChoice DEF Step, Recorded
    <2>5. CASE Deadlock(c)
      BY <2>1, <2>5, VictimChoice DEF Deadlock, Recorded
    <2> QED BY <2>4, <2>5
  <1> QED BY <1>3, <1>4

LEMMA LoneInvStays ==
  ASSUME TypeOK, CallInv, ServerInv, LoneInv, NEW c \in Calls, Step(c) \/ Deadlock(c)
  PROVE  LoneInv'
  <1>1. \A d \in Calls : Absence(d)'
    BY AbsenceStays, AbsenceMoves DEF LoneInv
  <1>2. \A d \in Calls : Choice(d, call[d], holders[d])'
    BY ChoiceStays, ChoiceMoves
  <1> QED BY <1>1, <1>2, HoldersStay, FreshStays DEF LoneInv
-----------------------------------------------------------------------------
(***************************************************************************)
(* What a lone call is told.                                               *)
(***************************************************************************)

\* An outcome that the history h of its key bears out.
Justified(c, outcome, h) ==
  /\ outcome = "conflict" /\ OwnPremise(LoneOp(c)) => Len(h) >= 3
  /\ outcome = "notFound" /\ ~LoneOp(c).filter => {} \in Range(h) \/ Len(h) > 1

AnswerInv == \A c \in Calls : Single(c) => Justified(c, call[c].outcome, holders[c])

\* The whole invariant.
WriteInv == TypeOK /\ CallInv /\ ServerInv /\ LoneInv /\ AnswerInv

LEMMA LastIsThere ==
  ASSUME NEW h \in Seq(SUBSET Rows), h # <<>>, Last(h) = {}
  PROVE  {} \in Range(h)
  <1>1. PICK n : n = Len(h)
    OBVIOUS
  <1>2. n \in Nat /\ n >= 1 /\ n \in DOMAIN h
    BY <1>1
  <1>3. h[n] = {}
    BY <1>1 DEF Last
  <1> QED BY <1>2, <1>3 DEF Range

\* What a lone call throws.
LEMMA Thrown ==
  ASSUME TypeOK, CallInv, ServerInv, LoneInv, NEW c \in Calls, Step(c) \/ Deadlock(c),
         Lone(c), call[c].pc # "idle", table' = table,
         NEW why \in Reasons, NEW raceable \in BOOLEAN, Throw(c, why, raceable),
         ~(raceable /\ call[c].attempt = 1) => Justified(c, why, holders[c])
  PROVE  Justified(c, call'[c].outcome, holders'[c])
  <1>1. call'[c].pc # "idle" /\ History /\ call[c].outcome = "none"
    BY Steady, Running DEF Lone
  <1>2. holders'[c] = holders[c]
    BY <1>1, HistoryGrows DEF LoneInv
  <1>3. PICK s \in CallStates :
           /\ Moves(c, s)
           /\ \/ s.outcome = call[c].outcome
              \/ ~(raceable /\ Single(c) /\ call[c].attempt = 1) /\ s.outcome = why
    BY ThrowDoes
  <1>4. call'[c] = s
    BY <1>3, Moved
  <1> QED BY <1>1, <1>2, <1>3, <1>4 DEF Justified, Lone

\* The row that a locate has locked is there to be written.
LEMMA ChosenIsHit ==
  ASSUME TypeOK, CallInv, ServerInv, NEW c \in Calls, call[c].pc = "write", Interactive,
         NEW p, p = Plan(c), p.arm \in {"update", "delete"}, NEW op, op = Op(c),
         NEW v, v = View(c)
  PROVE  Hit(v, op, p) # {}
  <1>1. PlanFits(op, p)
    BY DEF CallInv, Sane, Op, Plan
  <1>2. p.row \in Rows /\ p.row # NoRow
    BY <1>1, MarkersAssumption DEF PlanFits
  <1>3. p.row \in Selected(v, op)
    BY <1>2 DEF ServerInv, Chosen
  <1>4. p.row \in Rows /\ v[p.row] # Absent
    BY <1>2, <1>3 DEF Selected, Holder
  <1>5. p.row \in Targets(v, op, p)
    BY <1>3, <1>4 DEF Targets
  <1> QED BY <1>5 DEF Hit

LEMMA NotFoundCase ==
  ASSUME NEW t \in Tables, NEW op \in Ops, NEW p \in Plans, Given(op, p),
         op.kind \in {"create", "upsert"} => op.row \in Rows,
         NEW s, s = Statement(t, op, p), s.fate = "notFound"
  PROVE  p.arm = "missing" \/ (Hit(t, op, p) = {} /\ p.arm \in {"update", "delete"})
  BY StatementCases DEF Inserts, Updates, Deletes

LEMMA WriteAnswers ==
  ASSUME TypeOK, CallInv, ServerInv, LoneInv, NEW c \in Calls, Step(c), Write(c), Lone(c)
  PROVE  Justified(c, call'[c].outcome, holders'[c])
  <1>1. PICK p, done :
           /\ p \in Plans
           /\ p = (IF Locates(Op(c)) THEN Plan(c) ELSE Unlocated(Op(c)))
           /\ Given(Op(c), p) /\ done = Statement(View(c), Op(c), p)
           /\ Interactive
           /\ call[c].pc = IF Locates(Op(c)) THEN "write" ELSE "scan"
           /\ \/ Advance(c, done.row)
              \/ /\ done.fate # "ok" /\ table' = table
                 /\ Throw(c, done.fate, done.fate = "conflict" /\ Pinned(Op(c), p))
    BY WriteDoes
  <1>2. PICK h, op : h = holders[c] /\ op = LoneOp(c)
    OBVIOUS
  <1>3. call[c].pc \in {"scan", "write"} /\ call[c].pc # "idle" /\ call[c].pc # "commit"
    BY <1>1
  <1>4. /\ View(c) = table /\ Op(c) = op /\ op \in Ops /\ Len(work.ops[c]) = 1
        /\ op.kind \in {"create", "upsert"} => op.row \in Rows /\ op.row \in Created(work.ops[c])
        /\ call[c].outcome = "none" /\ Sane(c, call[c], draft[c])
    BY <1>2, <1>3, LoneView, Running
  <1>5. /\ h # <<>> /\ h \in Seq(SUBSET Rows) /\ Last(h) = Holder(table, op.where)
        /\ Choice(c, call[c], h) /\ Absence(c)
    BY <1>2, <1>3 DEF LoneInv, HoldersInv, TypeOK
  <1>6. CASE Advance(c, done.row)
    <2>1. call'[c].outcome \in {"none", "ok"}
      BY <1>4, <1>6 DEF Advance, TypeOK, CallStates
    <2> QED BY <2>1 DEF Justified
  <1>7. CASE /\ done.fate # "ok" /\ table' = table
             /\ Throw(c, done.fate, done.fate = "conflict" /\ Pinned(Op(c), p))
    <2>1. done = Statement(table, op, p) /\ Given(op, p)
      BY <1>1, <1>4
    <2>2. done.fate \in {"ok", "notFound", "conflict"}
      BY <1>1, <1>4, <2>1, StatementType, ServerTypes
    <2>3. PICK why, raceable : why = done.fate /\ raceable = (why = "conflict" /\ Pinned(op, p))
      OBVIOUS
    <2>4. why \in Reasons /\ raceable \in BOOLEAN /\ Throw(c, why, raceable)
      BY <1>4, <1>7, <2>2, <2>3 DEF Reasons, Pinned
    <2>5. ASSUME why = "conflict", OwnPremise(op), ~(raceable /\ call[c].attempt = 1)
          PROVE  Len(h) >= 3
      <3>1. op.kind = "upsert" /\ ~op.filter
        BY <2>5 DEF OwnPremise
      <3>2. table[op.row] = Absent
        BY <1>2, <1>4, <3>1 DEF LoneInv, FreshInv
      <3>3. Pinned(op, p) /\ Holder(table, op.where) # {}
        BY <1>1, <1>4, <2>1, <2>3, <2>5, <3>1, <3>2, LostRace, ServerTypes
           DEF ServerInv, Server, UniqueViews
      <3>4. p.arm = "insert" /\ raceable
        BY <2>3, <2>5, <3>3 DEF Pinned
      <3>5. p = Plan(c) /\ call[c].pc = "write" /\ PlanFits(op, p)
        BY <1>1, <1>4, <2>1, <3>1, <3>4 DEF Given, Unlocated
      <3>6. p.row = NoRow
        BY <3>4, <3>5 DEF PlanFits
      <3>7. work.on # "innodb"
        <4>1. ~Returning => Empty(c)
          BY <1>2, <1>5, <3>1, <3>5, <3>6 DEF Absence
        <4>2. Empty(c) => Holder(table, op.where) = {}
          BY <1>2, <1>4 DEF Empty
        <4> QED BY <3>3, <4>1, <4>2 DEF Returning
      <3>8. InPlay(c, call[c]) /\ Counted(c, call[c])
        BY <1>2, <2>5, <3>1, <3>5, <3>7 DEF InPlay, Counted, Lone
      <3>9. call[c].attempt = 2
        BY <2>5, <3>4 DEF TypeOK, CallStates
      <3>10. Len(h) > 2
        BY <1>2, <1>5, <3>1, <3>3, <3>4, <3>5, <3>8, <3>9 DEF Choice, Plan
      <3>11. PICK n : n = Len(h)
        OBVIOUS
      <3>12. n \in Nat
        BY <1>5, <3>11
      <3> QED BY <3>10, <3>11, <3>12
    <2>6. ASSUME why = "notFound", ~op.filter
          PROVE  Last(h) = {} \/ Len(h) > 1
      <3>1. p.arm = "missing" \/ (Hit(table, op, p) = {} /\ p.arm \in {"update", "delete"})
        BY <1>1, <1>4, <2>1, <2>3, <2>6, NotFoundCase, ServerTypes
      <3>2. p = Plan(c) /\ call[c].pc = "write" /\ PlanFits(op, p)
        BY <1>1, <1>4, <2>1, <3>1 DEF Given, Unlocated
      <3>3. p.arm = "missing"
        BY <1>1, <1>4, <3>1, <3>2, ChosenIsHit
      <3>4. op.kind \in {"update", "delete"}
        BY <3>2, <3>3 DEF PlanFits
      <3>5. call[c].attempt # 2 /\ call[c].attempt = 1
        BY <1>2, <1>4, <3>4 DEF Sane, LoneOp, TypeOK, CallStates
      <3>6. InPlay(c, call[c]) /\ Counted(c, call[c])
        BY <1>2, <2>6, <3>2, <3>5 DEF InPlay, Counted, Lone
      <3> QED BY <1>5, <3>2, <3>3, <3>5, <3>6 DEF Choice, Plan
    <2>7. ~(raceable /\ call[c].attempt = 1) => Justified(c, why, h)
      BY <1>2, <1>5, <2>5, <2>6, LastIsThere DEF Justified
    <2> QED BY <1>2, <1>3, <1>7, <2>4, <2>7, Thrown
  <1> QED BY <1>1, <1>6, <1>7
LEMMA PlanAnswers ==
  ASSUME TypeOK, CallInv, ServerInv, LoneInv, NEW c \in Calls, Step(c), PlanBatch(c), Lone(c)
  PROVE  Justified(c, call'[c].outcome, holders'[c])
  <1>1. call[c].pc = "scan" /\ table' = table
    BY PlanBatchDoes
  <1>2. PICK p \in Plans :
           /\ Locates(Op(c)) => /\ PlanFits(Op(c), p)
                                /\ p.row = NoRow => Selected(table, Op(c)) = {}
           /\ ~Locates(Op(c)) => p = Unlocated(Op(c))
           /\ IF p.arm = "missing" THEN Reject(c, "notFound")
              ELSE call' = [call EXCEPT ![c].plans = Append(@, p),
                              ![c].pc = IF call[c].at = Len(work.ops[c]) THEN "batch" ELSE @,
                              ![c].at = IF call[c].at = Len(work.ops[c]) THEN @ ELSE @ + 1]
    BY PlanBatchDoes
  <1>3. PICK h, op : h = holders[c] /\ op = LoneOp(c)
    OBVIOUS
  <1>4. /\ Op(c) = op /\ call[c].outcome = "none"
        /\ h # <<>> /\ h \in Seq(SUBSET Rows) /\ Last(h) = Holder(table, op.where)
    BY <1>1, <1>3, LoneView, Running DEF LoneInv, HoldersInv, TypeOK
  <1>5. CASE p.arm = "missing"
    <2>1. Throw(c, "notFound", FALSE)
      BY <1>2, <1>5, RejectThrows
    <2>2. Selected(table, op) = {}
      BY <1>2, <1>4, <1>5 DEF Unlocated, PlanFits
    <2>3. ~op.filter => Last(h) = {}
      BY <1>4, <2>2 DEF Selected
    <2>4. Justified(c, "notFound", h)
      BY <1>3, <1>4, <2>3, LastIsThere DEF Justified
    <2> QED BY <1>1, <1>3, <2>1, <2>4, Thrown DEF Reasons
  <1>6. CASE p.arm # "missing"
    <2>1. call'[c].outcome = "none"
      BY <1>2, <1>4, <1>6 DEF TypeOK, CallStates
    <2> QED BY <2>1 DEF Justified
  <1> QED BY <1>5, <1>6

\* A broken guard that blames a missing row is right.
LEMMA BlameIsJust ==
  ASSUME TypeOK, CallInv, ServerInv, LoneInv, NEW c \in Calls, Lone(c),
         call[c].pc \in {"batch", "blame"}, NEW p, p = call[c].plans[1],
         NEW g \in Premises, GuardOf(LoneOp(c), p, g), ~GuardHolds(table, g)
  PROVE  Justified(c, g.why, holders[c])
  <1>1. PICK h, op : h = holders[c] /\ op = LoneOp(c)
    OBVIOUS
  <1>2. /\ op \in Ops /\ h # <<>> /\ h \in Seq(SUBSET Rows) /\ Last(h) = Holder(table, op.where)
        /\ Choice(c, call[c], h) /\ Last(call[c].plans) = p
    BY <1>1, LoneView, LonePlan DEF LoneInv, HoldersInv, TypeOK
  <1>3. g.why # "conflict"
    BY DEF Premises
  <1>4. ASSUME g.why = "notFound", ~op.filter PROVE {} \in Range(h) \/ Len(h) > 1
    <2>1. Holder(table, op.where) = {} \/ (p.row \in Rows /\ p.row \notin Holder(table, op.where))
      BY <1>1, <1>2, <1>4, BrokenGuard, ServerTypes
    <2>2. CASE Holder(table, op.where) = {}
      BY <1>2, <2>2, LastIsThere
    <2>3. CASE p.row \in Rows /\ p.row \notin Last(h)
      <3>1. p.row # NoRow /\ InPlay(c, call[c])
        BY <1>1, <1>4, <2>3, MarkersAssumption DEF InPlay, Lone
      <3>2. Len(h) > 1
        BY <1>2, <2>3, <3>1 DEF Choice
      <3> QED BY <3>2
    <2> QED BY <1>2, <2>1, <2>2, <2>3
  <1> QED BY <1>1, <1>3, <1>4 DEF Justified

LEMMA RunBatchAnswers ==
  ASSUME TypeOK, CallInv, ServerInv, LoneInv, NEW c \in Calls, Step(c), RunBatch(c), Lone(c)
  PROVE  Justified(c, call'[c].outcome, holders'[c])
  <1>1. PICK h, op, p : h = holders[c] /\ op = LoneOp(c) /\ p = call[c].plans[1]
    OBVIOUS
  <1>2. PICK run : run = BatchRun(table, work.ops[c], call[c].plans)
    OBVIOUS
  <1>3. UniqueKeys(table)
    BY DEF ServerInv, Server, UniqueViews
  <1>4. call[c].pc = "batch"
    BY DEF RunBatch
  <1>5. /\ h # <<>> /\ h \in Seq(SUBSET Rows) /\ Last(h) = Holder(table, op.where)
        /\ Choice(c, call[c], h) /\ call[c].outcome = "none"
    BY <1>1, <1>4, Running DEF LoneInv, HoldersInv, TypeOK
  <1>6. /\ op \in Ops /\ op = work.ops[c][1] /\ Single(c)
        /\ op.kind \in {"create", "upsert"} => op.row \in Rows /\ op.row \in Created(work.ops[c])
    BY <1>1, <1>4, LoneView, Running DEF LoneOp, Lone
  <1>7. p \in Plans /\ Given(op, p) /\ Last(call[c].plans) = p /\ ~Interactive
    BY <1>1, <1>4, LonePlan
  <1>8. LoneRun(table, op, p, run)
    BY <1>1, <1>2, <1>4, BatchOfOne
  <1>9. CASE /\ run.fate = "conflict" /\ table' = table
             /\ Throw(c, "conflict", Pinned(work.ops[c][1], call[c].plans[1]))
    <2>1. PICK raceable : raceable = Pinned(op, p)
      OBVIOUS
    <2>2. raceable \in BOOLEAN /\ Throw(c, "conflict", raceable)
      BY <1>1, <1>6, <1>9, <2>1 DEF Pinned
    <2>3. ASSUME OwnPremise(op), ~(raceable /\ call[c].attempt = 1) PROVE Len(h) >= 3
      <3>1. op.kind = "upsert" /\ ~op.filter
        BY <2>3 DEF OwnPremise
      <3>2. table[op.row] = Absent /\ op.row \in Rows
        BY <1>6, <3>1 DEF LoneInv, FreshInv
      <3>3. PICK next : next = Statement(table, op, p)
        OBVIOUS
      <3>4. next.fate = "conflict" /\ (p.arm = "update" => p.row \in Selected(table, op))
        BY <1>8, <1>9, <3>3 DEF LoneRun
      <3>5. raceable /\ Holder(table, op.where) # {}
        BY <1>3, <1>6, <1>7, <2>1, <2>3, <3>2, <3>3, <3>4, LostRace, ServerTypes
      <3>6. p.arm = "insert" /\ call[c].attempt = 2 /\ work.on # "innodb"
        BY <1>7, <2>1, <2>3, <3>5 DEF Pinned, TypeOK, CallStates, Interactive
      <3>7. InPlay(c, call[c]) /\ Counted(c, call[c])
        BY <1>1, <1>4, <2>3, <3>1, <3>6 DEF InPlay, Counted, Lone
      <3>8. Len(h) > 2
        BY <1>1, <1>4, <1>5, <1>7, <3>1, <3>5, <3>6, <3>7 DEF Choice
      <3>9. PICK n : n = Len(h)
        OBVIOUS
      <3>10. n \in Nat
        BY <1>5, <3>9
      <3> QED BY <3>8, <3>9, <3>10
    <2>4. ~(raceable /\ call[c].attempt = 1) => Justified(c, "conflict", h)
      BY <1>1, <2>3 DEF Justified
    <2> QED BY <1>1, <1>4, <1>9, <2>2, <2>4, Thrown DEF Reasons
  <1>10. ASSUME run.fate = "guard", table' = table, NEW g \in Guarding(c), run.culprit = <<g>>,
                Throw(c, g.why, g.raceable)
         PROVE  Justified(c, call'[c].outcome, holders'[c])
    <2>1. ~GuardHolds(table, g)
      <3>1. PICK x \in Range(Guards(op, p)) : ~GuardHolds(table, x) /\ run.culprit = <<x>>
        BY <1>8, <1>10 DEF LoneRun
      <3>2. x = g
        <4>1. <<x>>[1] = x /\ <<g>>[1] = g
          OBVIOUS
        <4> QED BY <1>10, <3>1, <4>1
      <3> QED BY <3>1, <3>2
    <2>2. GuardOf(op, p, g)
      BY <1>1, <1>4, <1>6, <1>10, GuardingOne
    <2>3. g \in Premises
      BY DEF Guarding
    <2>4. Justified(c, g.why, h)
      BY <1>1, <1>4, <2>1, <2>2, <2>3, BlameIsJust
    <2> QED BY <1>1, <1>4, <1>10, <2>3, <2>4, PremiseType, Thrown
  <1>11. CASE call' = [call EXCEPT ![c].pc = "blame",
                         ![c].suspects = FlattenSeq([i \in DOMAIN work.ops[c] |->
                                            Guards(work.ops[c][i], call[c].plans[i])])]
    <2>1. PICK q : q = FlattenSeq([i \in DOMAIN work.ops[c] |->
                                     Guards(work.ops[c][i], call[c].plans[i])])
      OBVIOUS
    <2>2. call' = [call EXCEPT ![c].pc = "blame", ![c].suspects = q]
      BY <1>11, <2>1
    <2>3. call'[c].outcome = "none"
      BY <1>5, <2>2 DEF TypeOK, CallStates
    <2> QED BY <2>3 DEF Justified
  <1>12. CASE call' = [call EXCEPT ![c].pc = "done", ![c].outcome = "ok", ![c].rows = run.rows]
    <2>1. call'[c].outcome = "ok"
      BY <1>12 DEF TypeOK, CallStates
    <2> QED BY <2>1 DEF Justified
  <1>13. RunOutcome(c, run)
    BY <1>2, <1>3, RunBatchDoes
  <1> QED BY <1>9, <1>10, <1>11, <1>12, <1>13 DEF RunOutcome

LEMMA BlameAnswers ==
  ASSUME TypeOK, CallInv, ServerInv, LoneInv, NEW c \in Calls, Step(c), Blame(c), Lone(c)
  PROVE  Justified(c, call'[c].outcome, holders'[c])
  <1>1. /\ call[c].pc = "blame" /\ table' = table
        /\ \/ Throw(c, "unattributed", FALSE)
           \/ \E g \in Premises :
                /\ call[c].suspects # <<>> /\ g = Head(call[c].suspects)
                /\ \/ ~GuardHolds(table, g) /\ Throw(c, g.why, g.raceable)
                   \/ call' = [call EXCEPT ![c].suspects = Tail(@)]
    BY BlameDoes
  <1>2. CASE Throw(c, "unattributed", FALSE)
    BY <1>1, <1>2, Thrown DEF Reasons, Justified
  <1>3. ASSUME NEW g \in Premises, call[c].suspects # <<>>, g = Head(call[c].suspects),
               ~GuardHolds(table, g), Throw(c, g.why, g.raceable)
        PROVE  Justified(c, call'[c].outcome, holders'[c])
    <2>1. PICK p : p = call[c].plans[1]
      OBVIOUS
    <2>2. GuardOf(LoneOp(c), p, g)
      BY <1>1, <1>3, <2>1, SuspectFound
    <2>3. Justified(c, g.why, holders[c])
      BY <1>1, <1>3, <2>1, <2>2, BlameIsJust
    <2> QED BY <1>1, <1>3, <2>3, PremiseType, Thrown
  <1>4. CASE call' = [call EXCEPT ![c].suspects = Tail(@)]
    <2>1. call'[c].outcome = "none"
      <3>1. call[c].outcome = "none"
        BY Running DEF Lone
      <3> QED BY <1>1, <1>4, <3>1 DEF TypeOK, CallStates
    <2> QED BY <2>1 DEF Justified
  <1> QED BY <1>1, <1>2, <1>3, <1>4

LEMMA OtherAnswers ==
  ASSUME TypeOK, CallInv, ServerInv, LoneInv, NEW c \in Calls, Step(c) \/ Deadlock(c), Lone(c),
         Begin(c) \/ Wait(c) \/ Locate(c) \/ Wake(c) \/ Commit(c) \/ Victim(c)
  PROVE  Justified(c, call'[c].outcome, holders'[c])
  <1>1. call[c].outcome = "none" /\ call \in [Calls -> CallStates]
    BY Running DEF Lone, TypeOK
  <1>2. SUFFICES call'[c].outcome \notin {"conflict", "notFound"}
    BY DEF Justified
  <1>3. CASE Begin(c) \/ Wait(c)
    BY <1>1, <1>3 DEF Begin, Wait, CallStates
  <1>4. CASE Locate(c) \/ Wake(c)
    <2>1. PICK r \in Rows \cup {NoRow} : Take(c, r)
      BY <1>4, LocateTakes
    <2>2. PICK q : q = <<PlanFor(View(c), Op(c), r)>>
      OBVIOUS
    <2>3. call' = [call EXCEPT ![c].pc = "write", ![c].plans = q]
      BY <2>1, <2>2 DEF Take
    <2> QED BY <1>1, <2>3 DEF CallStates
  <1>5. CASE Commit(c)
    BY <1>1, <1>5 DEF Commit, CallStates
  <1>6. CASE Victim(c)
    <2>1. PICK raceable : raceable = (call[c].pc = "write" /\ Pinned(Op(c), Plan(c)))
      OBVIOUS
    <2>2. Throw(c, "deadlock", raceable) /\ raceable \in BOOLEAN
      BY <1>6, <2>1, VictimWaits DEF Pinned
    <2>3. PICK s \in CallStates :
             Moves(c, s) /\ (s.outcome = call[c].outcome \/ s.outcome = "deadlock")
      BY <2>2, ThrowDoes DEF Reasons
    <2> QED BY <1>1, <2>3, Moved
  <1> QED BY <1>3, <1>4, <1>5, <1>6

LEMMA AnswerStays ==
  ASSUME TypeOK, CallInv, ServerInv, LoneInv, AnswerInv, NEW c \in Calls, Step(c) \/ Deadlock(c)
  PROVE  AnswerInv'
  <1>1. SUFFICES ASSUME NEW d \in Calls, Single(d)
                 PROVE  Justified(d, call'[d].outcome, holders'[d])
    <2>1. work' = work
      BY Steady
    <2> QED BY <2>1 DEF AnswerInv, Justified, OwnPremise, LoneOp, Single
  <1>2. CASE d # c
    <2>1. call'[d] = call[d] /\ History
      BY <1>2, Steady
    <2>2. CASE call[d].pc = "done"
      <3>1. holders'[d] = holders[d]
        BY <2>1, <2>2, HistoryType
      <3> QED BY <1>1, <2>1, <3>1 DEF AnswerInv
    <2>3. CASE call[d].pc # "done"
      <3>1. call[d].outcome = "none"
        BY <2>3, Running
      <3> QED BY <2>1, <3>1 DEF Justified
    <2> QED BY <2>2, <2>3
  <1>3. CASE d = c
    <2>1. Lone(c)
      BY <1>1, <1>3, StepRuns DEF Lone
    <2>2. CASE Step(c)
      BY <1>3, <2>1, <2>2, WriteAnswers, PlanAnswers, RunBatchAnswers, BlameAnswers, OtherAnswers
         DEF Step, Recorded
    <2>3. CASE Deadlock(c)
      BY <1>3, <2>1, <2>3, OtherAnswers DEF Deadlock, Recorded
    <2> QED BY <2>2, <2>3
  <1> QED BY <1>2, <1>3
-----------------------------------------------------------------------------
(***************************************************************************)
(* The theorems.                                                           *)
(***************************************************************************)

LEMMA InitWrite ==
  ASSUME Init
  PROVE  WriteInv
  <1>1. /\ work \in Workloads /\ table = work.table
        /\ work \in [on : {"postgres", "innodb", "batch"}, table : Tables, ops : [Calls -> Seq(Ops)]]
        /\ UniqueKeys(table) /\ table \in Tables
        /\ \A c \in Calls : \A r \in Created(work.ops[c]) : r \in Rows /\ table[r] = Absent
    BY WorkloadsAssumption DEF Init
  <1>2. /\ \A c \in Calls : draft[c] = Untouched
        /\ \A r \in Rows : lock[r] = Nobody
        /\ draft = [c \in Calls |-> Untouched] /\ lock = [r \in Rows |-> Nobody]
        /\ gap = [k \in Keys |-> {}] /\ holders = [c \in Calls |-> <<>>]
    BY DEF Init
  <1>3. PICK e : e = <<>>
    OBVIOUS
  <1>4. ASSUME NEW c \in Calls
        PROVE  /\ call[c].pc = IF work.ops[c] = <<>> THEN "done" ELSE "idle"
               /\ call[c].at = 1 /\ call[c].attempt = 1 /\ call[c].plans = e
               /\ call[c].outcome = "none" /\ call[c].rows = e
               /\ call[c] \in CallStates
    <2>1. PICK pc : pc = IF work.ops[c] = <<>> THEN "done" ELSE "idle"
      OBVIOUS
    <2>2. call[c] = [pc |-> pc, at |-> 1, attempt |-> 1, plans |-> e, suspects |-> e,
                     outcome |-> "none", rows |-> e]
      BY <1>3, <1>4, <2>1 DEF Init
    <2>3. e \in Seq(Plans) /\ e \in Seq(Premises) /\ e \in Seq(Rows \cup {NoRow})
      BY <1>3
    <2>4. pc \in {"idle", "done"}
      BY <2>1
    <2>5. /\ call[c].pc = pc /\ call[c].at = 1 /\ call[c].attempt = 1 /\ call[c].plans = e
          /\ call[c].outcome = "none" /\ call[c].rows = e
      BY <2>2
    <2>6. call[c] \in CallStates
      BY <2>2, <2>3, <2>4 DEF CallStates
    <2> QED BY <2>1, <2>5, <2>6
  <1>5. TypeOK
    <2>1. call \in [Calls -> CallStates]
      <3>1. call = [c \in Calls |-> call[c]]
        BY DEF Init
      <3> QED BY <1>4, <3>1
    <2>2. Untouched \in [Rows -> Values \cup {Absent, Same}]
      BY DEF Untouched
    <2>3. holders \in [Calls -> Seq(SUBSET Rows)]
      <3>1. e \in Seq(SUBSET Rows)
        BY <1>3
      <3> QED BY <1>2, <1>3, <3>1
    <2> QED BY <1>1, <1>2, <2>1, <2>2, <2>3 DEF TypeOK
  <1>6. CallInv
    <2>1. SUFFICES ASSUME NEW c \in Calls PROVE Sane(c, call[c], draft[c])
      BY DEF CallInv
    <2>2. PICK s : s = call[c]
      OBVIOUS
    <2>3. /\ s.at = 1 /\ s.attempt = 1 /\ s.plans = <<>> /\ s.outcome = "none" /\ s.rows = <<>>
          /\ s.pc = IF work.ops[c] = <<>> THEN "done" ELSE "idle"
      BY <1>3, <1>4, <2>2
    <2>4. work.ops[c] # <<>> => 1 \in DOMAIN work.ops[c]
      BY <1>1
    <2>5. Len(<<>>) = 0 /\ 1..0 = {}
      OBVIOUS
    <2>6. Sane(c, s, draft[c])
      BY <1>2, <2>3, <2>4, <2>5 DEF Sane
    <2> QED BY <2>2, <2>6
  <1>7. ServerInv
    <2>1. Own(work, table, draft, lock) /\ OwnKeys(draft)
      BY <1>2 DEF Own, OwnKeys, Untouched
    <2>2. Present(table, draft, lock)
      BY <1>2, MarkersAssumption DEF Present
    <2>3. UniqueViews(table, draft)
      BY <1>1, <1>2, UntouchedSees DEF UniqueViews
    <2>4. \A c \in Calls : Chosen(c)
      <3>1. \A c \in Calls : call[c].pc # "write"
        BY <1>4
      <3> QED BY <3>1 DEF Chosen
    <2>5. Unheld
      BY <1>2 DEF Unheld
    <2>6. EntriesOnly
      BY <1>2 DEF EntriesOnly
    <2> QED BY <2>1, <2>2, <2>3, <2>4, <2>5, <2>6 DEF ServerInv, Server
  <1>8. LoneInv
    <2>1. \A c \in Calls : call[c].pc \in {"idle", "done"}
      BY <1>4
    <2>2. HoldersInv /\ FreshInv
      BY <1>1, <2>1 DEF HoldersInv, FreshInv, Lone
    <2>3. \A c \in Calls : Absence(c)
      BY <1>2, <2>1, MarkersAssumption DEF Absence
    <2>4. \A c \in Calls : Choice(c, call[c], holders[c])
      BY <2>1 DEF Choice, InPlay
    <2> QED BY <2>2, <2>3, <2>4 DEF LoneInv
  <1>9. AnswerInv
    <2>1. \A c \in Calls : call[c].outcome = "none"
      BY <1>4
    <2> QED BY <2>1 DEF AnswerInv, Justified
  <1> QED BY <1>5, <1>6, <1>7, <1>8, <1>9 DEF WriteInv

\* Every step keeps the whole invariant.
LEMMA NextWrite ==
  ASSUME WriteInv, [Next]_vars
  PROVE  WriteInv'
  <1>1. CASE Next
    <2>1. PICK c \in Calls : Step(c) \/ Deadlock(c)
      BY <1>1 DEF Next
    <2>2. TypeOK' /\ CallInv'
      BY <2>1, StepKept, KeptCalls DEF WriteInv
    <2>3. ServerInv' /\ LoneInv' /\ AnswerInv'
      BY <2>1, ServerStays, LoneInvStays, AnswerStays DEF WriteInv
    <2> QED BY <2>2, <2>3 DEF WriteInv
  <1>2. CASE UNCHANGED vars
    <2>1. /\ work' = work /\ table' = table /\ draft' = draft /\ lock' = lock /\ gap' = gap
          /\ call' = call /\ holders' = holders
      BY <1>2 DEF vars
    <2>2. TypeOK'
      BY <2>1 DEF WriteInv, TypeOK
    <2>3. CallInv'
      BY <2>1, SaneStays DEF WriteInv, CallInv
    <2>4. ServerInv'
      BY <2>1 DEF WriteInv, ServerInv, Chosen, Unheld, EntriesOnly, Returning, Interactive, Plan, Op, View
    <2>5. LoneInv'
      <3>1. \A c \in Calls : Choice(c, call[c], holders[c])'
        BY <2>1, ChoiceOf DEF WriteInv, LoneInv
      <3>2. \A c \in Calls : Absence(c)'
        BY <2>1 DEF WriteInv, LoneInv, Absence, Empty, Lone, Single, LoneOp, Plan, View, Returning
      <3>3. HoldersInv' /\ FreshInv'
        BY <2>1 DEF WriteInv, LoneInv, HoldersInv, FreshInv, Lone, Single, LoneOp
      <3> QED BY <3>1, <3>2, <3>3 DEF LoneInv
    <2>6. AnswerInv'
      BY <2>1 DEF WriteInv, AnswerInv, Single, Justified, LoneOp, OwnPremise
    <2> QED BY <2>2, <2>3, <2>4, <2>5, <2>6 DEF WriteInv
  <1> QED BY <1>1, <1>2

\* The whole invariant holds of every behaviour.
THEOREM InvariantHolds == Spec => []WriteInv
  BY InitWrite, NextWrite, PTL DEF Spec

\* Every variable keeps to its type (the server's tables and locks, and the calls).
THEOREM TypeCorrect == Spec => []TypeOK
  <1>1. WriteInv => TypeOK
    BY DEF WriteInv
  <1> QED BY <1>1, InvariantHolds, PTL

\* The committed rows, and the rows that every transaction sees, keep the unique
\* constraint; what a transaction has written it has locked; and no two have
\* written the same key (what a create arm and its loser can rely on).
THEOREM ServerHolds == Spec => []Server(work, table, draft, lock)
  <1>1. WriteInv => Server(work, table, draft, lock)
    BY DEF WriteInv, ServerInv
  <1> QED BY <1>1, InvariantHolds, PTL

\* A lone upsert that pins its premise fails with a conflict only if its key has
\* changed hands twice since it began (racePin, isRetryableRace,
\* executeRoutedOperation): the first failure is a race lost and retried, and the
\* second, on a fresh read, another.
THEOREM ConflictOutlivesRetryHolds == Spec => []ConflictOutlivesRetry
  <1>1. WriteInv => ConflictOutlivesRetry
    BY DEF WriteInv, AnswerInv, Justified, ConflictOutlivesRetry, OwnPremise, LoneOp
  <1> QED BY <1>1, InvariantHolds, PTL

\* A lone call that reports a missing row is right (the guards of a batch, and
\* the probes that attribute its failure; the locks of a transaction).
THEOREM NotFoundIsTrueHolds == Spec => []NotFoundIsTrue
  <1>1. WriteInv => NotFoundIsTrue
    BY DEF WriteInv, AnswerInv, Justified, NotFoundIsTrue, LoneOp
  <1> QED BY <1>1, InvariantHolds, PTL
-----------------------------------------------------------------------------
(***************************************************************************)
(* What an operation means to AtomicWrites.                                *)
(***************************************************************************)

\* An operation that succeeds, on the table t: the table it leaves, and the row it
\* answers.
Effect(t, op, t2, r) ==
  \/ /\ op.kind = "create" \/ (op.kind = "upsert" /\ Selected(t, op) = {})
     /\ Holder(t, op.create) = {} /\ t[op.row] = Absent
     /\ r = op.row
     /\ t2 = [t EXCEPT ![r] = [key |-> op.create, flag |-> op.flag]]
  \/ /\ op.kind = "upsert" /\ op.conditional /\ r \in Selected(t, op) /\ ~t[r].flag
     /\ t2 = t
  \/ /\ op.kind = "update" \/ (op.kind = "upsert" /\ (op.conditional => t[r].flag))
     /\ r \in Selected(t, op) /\ Holder(t, op.to) \ {r} = {}
     /\ t2 = [t EXCEPT ![r] = [key |-> op.to, flag |-> op.flag]]
  \/ /\ op.kind = "delete" /\ r \in Selected(t, op)
     /\ t2 = [t EXCEPT ![r] = Absent]

LEMMA SameStatements ==
  ASSUME NEW t, NEW op, NEW r
  PROVE  /\ Atomic!Selected(t, op) = Selected(t, op)
         /\ Atomic!InsertRow(t, op) = InsertRow(t, op)
         /\ Atomic!UpdateRow(t, op, r) = UpdateRow(t, op, r)
         /\ Atomic!DeleteRow(t, r) = DeleteRow(t, r)
         /\ Atomic!Refused(t, "notFound") = Refused(t, "notFound")
  <1>1. \A k : Atomic!Holder(t, k) = Holder(t, k)
    BY DEF Atomic!Holder, Holder
  <1>2. Atomic!Selected(t, op) = Selected(t, op)
    BY <1>1 DEF Atomic!Selected, Selected
  <1>3. \A why : Atomic!Refused(t, why) = Refused(t, why)
    BY DEF Atomic!Refused, Refused
  <1>4. Atomic!InsertRow(t, op) = InsertRow(t, op)
    BY <1>1, <1>3 DEF Atomic!InsertRow, InsertRow
  <1>5. Atomic!UpdateRow(t, op, r) = UpdateRow(t, op, r)
    BY <1>1, <1>3 DEF Atomic!UpdateRow, UpdateRow
  <1>6. Atomic!DeleteRow(t, r) = DeleteRow(t, r)
    BY DEF Atomic!DeleteRow, DeleteRow
  <1> QED BY <1>2, <1>3, <1>4, <1>5, <1>6

LEMMA EffectIsMeaning ==
  ASSUME NEW t \in Tables, UniqueKeys(t), NEW op \in Ops, NEW t2, NEW r, Effect(t, op, t2, r),
         NEW s, s = Atomic!Meaning(t, op)
  PROVE  s.fate = "ok" /\ s.table = t2 /\ s.row = r
  <1>1. /\ op.kind \in {"create", "upsert", "update", "delete"}
        /\ op.conditional \in BOOLEAN
    BY DEF Ops
  <1>2. PICK hit : hit = Selected(t, op)
    OBVIOUS
  <1>3. PICK x : x = CHOOSE y \in hit : TRUE
    OBVIOUS
  <1>4. ASSUME NEW y \in hit PROVE hit = {y} /\ x = y /\ y \in Rows
    <2>1. \A z \in hit : z \in Rows /\ t[z] # Absent /\ t[z].key = op.where
      BY <1>2 DEF Selected, Holder
    <2>2. \A z \in hit : z = y
      BY <2>1, <1>4 DEF UniqueKeys
    <2>3. x \in hit
      BY <1>3, <1>4
    <2> QED BY <1>4, <2>1, <2>2, <2>3
  <1>5. s = CASE op.kind = "create" -> InsertRow(t, op)
              [] op.kind = "upsert" /\ hit = {} -> InsertRow(t, op)
              [] op.kind = "upsert" /\ hit # {} /\ op.conditional /\ ~t[x].flag ->
                   [table |-> t, row |-> x, fate |-> "ok"]
              [] op.kind = "upsert" /\ hit # {} /\ (op.conditional => t[x].flag) -> UpdateRow(t, op, x)
              [] op.kind # "upsert" /\ op.kind # "create" /\ hit = {} -> Refused(t, "notFound")
              [] op.kind = "update" /\ hit # {} -> UpdateRow(t, op, x)
              [] op.kind = "delete" /\ hit # {} -> DeleteRow(t, x)
    BY <1>2, <1>3, SameStatements DEF Atomic!Meaning
  <1>6. CASE /\ op.kind = "create" \/ (op.kind = "upsert" /\ Selected(t, op) = {})
             /\ Holder(t, op.create) = {} /\ t[op.row] = Absent
             /\ r = op.row
             /\ t2 = [t EXCEPT ![r] = [key |-> op.create, flag |-> op.flag]]
    <2>1. s = InsertRow(t, op)
      BY <1>2, <1>5, <1>6
    <2>2. s = [table |-> t2, row |-> r, fate |-> "ok"]
      BY <1>6, <2>1 DEF InsertRow
    <2> QED BY <2>2
  <1>7. CASE /\ op.kind = "upsert" /\ op.conditional /\ r \in Selected(t, op) /\ ~t[r].flag
             /\ t2 = t
    <2>1. x = r /\ hit # {}
      BY <1>2, <1>4, <1>7
    <2>2. s = [table |-> t, row |-> r, fate |-> "ok"]
      BY <1>5, <1>7, <2>1
    <2> QED BY <1>7, <2>2
  <1>8. CASE /\ op.kind = "update" \/ (op.kind = "upsert" /\ (op.conditional => t[r].flag))
             /\ r \in Selected(t, op) /\ Holder(t, op.to) \ {r} = {}
             /\ t2 = [t EXCEPT ![r] = [key |-> op.to, flag |-> op.flag]]
    <2>1. x = r /\ hit # {}
      BY <1>2, <1>4, <1>8
    <2>2. s = UpdateRow(t, op, r)
      BY <1>5, <1>8, <2>1
    <2>3. s = [table |-> t2, row |-> r, fate |-> "ok"]
      BY <1>8, <2>2 DEF UpdateRow
    <2> QED BY <2>3
  <1>9. CASE /\ op.kind = "delete" /\ r \in Selected(t, op)
             /\ t2 = [t EXCEPT ![r] = Absent]
    <2>1. x = r /\ hit # {}
      BY <1>2, <1>4, <1>9
    <2>2. s = DeleteRow(t, r)
      BY <1>5, <1>9, <2>1
    <2>3. s = [table |-> t2, row |-> r, fate |-> "ok"]
      BY <1>9, <2>2 DEF DeleteRow
    <2> QED BY <2>3
  <1> QED BY <1>6, <1>7, <1>8, <1>9 DEF Effect

-----------------------------------------------------------------------------
(***************************************************************************)
(* A table t as one call sees it, laid over the rows of x that are not in L *)
(* when others have changed them.                                          *)
(***************************************************************************)

Over(L, t, x) == [r \in Rows |-> IF r \in L THEN t[r] ELSE x[r]]

\* The keys of the rows of t in L are no other rows' in x.
Exclusive(L, t, x) ==
  \A r, s \in Rows : r \in L /\ s \notin L /\ t[r] # Absent /\ x[s] # Absent => t[r].key # x[s].key

LEMMA OverType ==
  ASSUME NEW L, NEW t \in Tables, NEW x \in Tables
  PROVE  /\ Over(L, t, x) \in Tables
         /\ \A r \in Rows : Over(L, t, x)[r] = IF r \in L THEN t[r] ELSE x[r]
  BY DEF Over, Tables

LEMMA UniqueOver ==
  ASSUME NEW L, NEW t \in Tables, NEW x \in Tables, UniqueKeys(t), UniqueKeys(x), Exclusive(L, t, x)
  PROVE  UniqueKeys(Over(L, t, x))
  <1>1. SUFFICES ASSUME NEW r \in Rows, NEW s \in Rows,
                        Over(L, t, x)[r] # Absent, Over(L, t, x)[s] # Absent,
                        Over(L, t, x)[r].key = Over(L, t, x)[s].key
                 PROVE  r = s
    BY DEF UniqueKeys
  <1>2. /\ Over(L, t, x)[r] = IF r \in L THEN t[r] ELSE x[r]
        /\ Over(L, t, x)[s] = IF s \in L THEN t[s] ELSE x[s]
    BY OverType
  <1>3. CASE r \in L /\ s \in L
    BY <1>1, <1>2, <1>3 DEF UniqueKeys
  <1>4. CASE r \notin L /\ s \notin L
    BY <1>1, <1>2, <1>4 DEF UniqueKeys
  <1>5. CASE r \in L /\ s \notin L
    BY <1>1, <1>2, <1>5 DEF Exclusive
  <1>6. CASE r \notin L /\ s \in L
    BY <1>1, <1>2, <1>6 DEF Exclusive
  <1> QED BY <1>3, <1>4, <1>5, <1>6

\* The upserts of a call create the key that they select.
SameKey(op) == op.kind = "upsert" => op.create = op.where

\* An operation on a row in L means the same when others change other rows.
LEMMA EffectOver ==
  ASSUME NEW L, NEW t \in Tables, NEW u \in Tables, NEW x \in Tables,
         NEW op \in Ops, SameKey(op), NEW r \in Rows, r \in L, Effect(t, op, u, r),
         Exclusive(L, u, x), NEW t2, t2 = Over(L, t, x), NEW u2, u2 = Over(L, u, x)
  PROVE  Effect(t2, op, u2, r)
  <1>1. /\ \A s \in Rows : t2[s] = IF s \in L THEN t[s] ELSE x[s]
        /\ t2[r] = t[r]
    BY OverType
  <1>2. ASSUME NEW e, u = [t EXCEPT ![r] = e]
        PROVE  u2 = [t2 EXCEPT ![r] = e] /\ u[r] = e
    BY <1>2 DEF Over, Tables
  <1>3. /\ op.create \in Keys /\ op.to \in Keys /\ op.flag \in BOOLEAN
        /\ \A k \in Keys, f \in BOOLEAN : [key |-> k, flag |-> f] # Absent
    BY MarkersAssumption DEF Ops, Values
  <1>4. r \in Selected(t, op) => r \in Selected(t2, op)
    BY <1>1 DEF Selected, Holder
  <1>5. ASSUME NEW k, u[r] # Absent, u[r].key = k, NEW s \in Holder(t2, k), s \notin Holder(t, k)
        PROVE  FALSE
    <2>1. s \in Rows /\ t2[s] # Absent /\ t2[s].key = k
      BY <1>5 DEF Holder
    <2>2. s \notin L /\ x[s] = t2[s]
      BY <1>1, <1>5, <2>1 DEF Holder
    <2> QED BY <1>5, <2>1, <2>2 DEF Exclusive
  <1>6. CASE /\ op.kind = "create" \/ (op.kind = "upsert" /\ Selected(t, op) = {})
             /\ Holder(t, op.create) = {} /\ t[op.row] = Absent
             /\ r = op.row
             /\ u = [t EXCEPT ![r] = [key |-> op.create, flag |-> op.flag]]
    <2>1. u[r] # Absent /\ u[r].key = op.create
      <3>1. u[r] = [key |-> op.create, flag |-> op.flag]
        BY <1>2, <1>6
      <3> QED BY <1>3, <3>1
    <2>2. Holder(t2, op.create) = {}
      BY <1>5, <1>6, <2>1
    <2>3. op.kind = "upsert" => Selected(t2, op) = {}
      BY <2>2 DEF Selected, SameKey
    <2> QED BY <1>1, <1>2, <1>6, <2>2, <2>3 DEF Effect
  <1>7. CASE /\ op.kind = "upsert" /\ op.conditional /\ r \in Selected(t, op) /\ ~t[r].flag
             /\ u = t
    BY <1>1, <1>4, <1>7 DEF Effect
  <1>8. CASE /\ op.kind = "update" \/ (op.kind = "upsert" /\ (op.conditional => t[r].flag))
             /\ r \in Selected(t, op) /\ Holder(t, op.to) \ {r} = {}
             /\ u = [t EXCEPT ![r] = [key |-> op.to, flag |-> op.flag]]
    <2>1. u[r] # Absent /\ u[r].key = op.to
      <3>1. u[r] = [key |-> op.to, flag |-> op.flag]
        BY <1>2, <1>8
      <3> QED BY <1>3, <3>1
    <2>2. Holder(t2, op.to) \ {r} = {}
      BY <1>5, <1>8, <2>1
    <2> QED BY <1>1, <1>2, <1>4, <1>8, <2>2 DEF Effect
  <1>9. CASE /\ op.kind = "delete" /\ r \in Selected(t, op)
             /\ u = [t EXCEPT ![r] = Absent]
    BY <1>2, <1>4, <1>9 DEF Effect
  <1> QED BY <1>6, <1>7, <1>8, <1>9 DEF Effect

-----------------------------------------------------------------------------
(***************************************************************************)
(* The keys and the rows of a transaction are its own until it ends.       *)
(***************************************************************************)

\* No row of another call has the key k, nor will have it before c ends.
Owned(c, k, t, dr, lk, gp) ==
  /\ \A s \in Holder(t, k) : lk[s] = c
  /\ \A d \in Calls, s \in Rows : d # c /\ dr[d][s] \notin {Same, Absent} => dr[d][s].key # k
  /\ c \in gp[k] \/ Holder(t, k) # {}

KeptBy(c, k) == Owned(c, k, table, draft, lock, gap)

LEMMA LockedIsOwned ==
  ASSUME NEW w, NEW t, NEW dr, NEW lk, NEW gp, Server(w, t, dr, lk), NEW c \in Calls,
         NEW r \in Rows, lk[r] = c, t[r] # Absent
  PROVE  Owned(c, t[r].key, t, dr, lk, gp)
  <1>1. PICK k : k = t[r].key
    OBVIOUS
  <1>2. \A s \in Holder(t, k) : s = r
    BY <1>1 DEF Holder, Server, UniqueViews, UniqueKeys
  <1>3. ASSUME NEW d \in Calls, NEW s \in Rows, d # c, dr[d][s] \notin {Same, Absent},
               dr[d][s].key = k
        PROVE  FALSE
    <2>1. dr[d][r] = Same
      BY <1>3 DEF Server, Own
    <2>2. Seen(t, dr[d])[r] = t[r] /\ Seen(t, dr[d])[s] = dr[d][s]
      BY <1>3, <2>1 DEF Seen
    <2>3. UniqueKeys(Seen(t, dr[d]))
      BY DEF Server, UniqueViews
    <2>4. r = s
      BY <1>1, <1>3, <2>2, <2>3 DEF UniqueKeys
    <2> QED BY <1>3, <2>1, <2>4
  <1>4. r \in Holder(t, k)
    BY <1>1 DEF Holder
  <1> QED BY <1>1, <1>2, <1>3, <1>4 DEF Owned

\* A statement of another call gives no row the key.
LEMMA MineIsLeft ==
  ASSUME TypeOK, ServerInv, NEW c \in Calls, NEW d \in Calls, d # c, NEW k, KeptBy(c, k),
         NEW op \in Ops, NEW v \in Tables, v = View(d), NEW done, Cleared(d, v, op, done),
         NEW s \in Rows, done.table[s] # Absent, done.table[s].key = k
  PROVE  s \in Holder(table, k) /\ done.table[s] = v[s]
  <1>1. \A r \in Rows : /\ v[r] = IF draft[d][r] = Same THEN table[r] ELSE draft[d][r]
                        /\ draft[d][r] # Same => lock[r] = d
    BY DEF View, ServerInv, Server, Own
  <1>2. ASSUME NEW r \in Rows, v[r] # Absent, v[r].key = k
        PROVE  r \in Holder(table, k) /\ lock[r] = c
    <2>1. draft[d][r] = Same
      BY <1>1, <1>2 DEF KeptBy, Owned
    <2>2. table[r] = v[r]
      BY <1>1, <2>1
    <2> QED BY <1>2, <2>2 DEF KeptBy, Owned, Holder
  <1>3. Entrants(d, k) = {} => \E r \in Rows : v[r] # Absent /\ v[r].key = k /\ lock[r] = c
    <2>1. SUFFICES ASSUME Entrants(d, k) = {}
                   PROVE  \E r \in Rows : v[r] # Absent /\ v[r].key = k /\ lock[r] = c
      OBVIOUS
    <2>2. c \notin gap[k]
      BY <2>1 DEF Entrants
    <2>3. PICK r \in Rows : table[r] # Absent /\ table[r].key = k /\ lock[r] = c
      BY <2>2 DEF KeptBy, Owned, Holder
    <2>4. v[r] = table[r]
      BY <1>1, <2>3
    <2> QED BY <2>3, <2>4
  <1>4. Nobody # c
    BY MarkersAssumption
  <1>5. SUFFICES done.table[s] = v[s]
    BY <1>2, <1>5
  <1>6. SUFFICES ASSUME done.table[s] # v[s] PROVE FALSE
    OBVIOUS
  <1>7. CASE Inserts(v, op, done) /\ Entrants(d, op.create) = {}
    <2>1. /\ done.table = [v EXCEPT ![op.row] = [key |-> op.create, flag |-> op.flag]]
          /\ Holder(v, op.create) = {}
      BY <1>7 DEF Inserts
    <2>2. done.table[s].key = op.create
      BY <1>6, <2>1 DEF Tables
    <2> QED BY <1>3, <1>7, <2>1, <2>2 DEF Holder
  <1>8. ASSUME NEW r \in Selected(v, op), Updates(v, op, r, done), lock[r] \in {d, Nobody},
               op.to = op.where \/ Entrants(d, op.to) = {}
        PROVE  FALSE
    <2>1. /\ done.table = [v EXCEPT ![r] = [key |-> op.to, flag |-> op.flag]]
          /\ Holder(v, op.to) \ {r} = {}
          /\ r \in Rows /\ v[r] # Absent /\ v[r].key = op.where
      BY <1>8 DEF Updates, Selected, Holder
    <2>2. done.table[s].key = op.to
      BY <1>6, <2>1 DEF Tables
    <2>3. CASE op.to = op.where
      BY <1>2, <1>4, <1>8, <2>1, <2>2, <2>3
    <2>4. CASE Entrants(d, op.to) = {}
      BY <1>3, <1>4, <1>8, <2>1, <2>2, <2>4 DEF Holder
    <2> QED BY <1>8, <2>3, <2>4
  <1>9. ASSUME NEW r \in Selected(v, op), Deletes(v, op, r, done) PROVE FALSE
    <2>1. done.table = [v EXCEPT ![r] = Absent]
      BY <1>9 DEF Deletes
    <2> QED BY <1>6, <2>1 DEF Tables
  <1> QED BY <1>6, <1>7, <1>8, <1>9 DEF Cleared

-----------------------------------------------------------------------------
(***************************************************************************)
(* The steps of a transaction.                                             *)
(***************************************************************************)

\* A statement that succeeds does what its operation means.
LEMMA WriteMeans ==
  ASSUME TypeOK, CallInv, ServerInv, NEW c \in Calls, call[c].pc \in {"scan", "write"},
         Interactive, call[c].pc = IF Locates(Op(c)) THEN "write" ELSE "scan",
         NEW p \in Plans, p = IF Locates(Op(c)) THEN Plan(c) ELSE Unlocated(Op(c)),
         Given(Op(c), p), NEW v, v = View(c), SameKey(Op(c)),
         NEW done, done = Statement(v, Op(c), p), done.fate = "ok"
  PROVE  Effect(v, Op(c), done.table, done.row) /\ done.row \in Rows
  <1>1. PICK op : op = Op(c)
    OBVIOUS
  <1>2. /\ op \in Ops /\ v \in Tables /\ (op.kind \in {"create", "upsert"} => op.row \in Rows)
        /\ op.kind \in {"create", "upsert", "update", "delete"}
    BY <1>1, Running, ViewType DEF Ops
  <1>3. UniqueKeys(v)
    BY ViewType DEF ServerInv, Server, UniqueViews
  <1>4. /\ done = Statement(v, op, p) /\ Given(op, p)
        /\ call[c].pc = IF Locates(op) THEN "write" ELSE "scan"
        /\ p = IF Locates(op) THEN Plan(c) ELSE Unlocated(op)
        /\ SameKey(op)
    BY <1>1
  <1>5. /\ p.arm = "folded" => op.kind = "upsert" /\ ~Locates(op)
        /\ ~Locates(op) => op.kind = "create" \/ (op.kind = "upsert" /\ ~op.filter /\ ~op.conditional)
        /\ p.arm \in {"update", "delete", "skip"} => Locates(op) /\ p.row \in Rows
        /\ p.arm = "update" => op.kind \in {"upsert", "update"}
        /\ p.arm = "delete" => op.kind = "delete"
        /\ p.arm = "skip" => op.kind = "upsert" /\ op.conditional
    <2>1. CASE Locates(op)
      BY <1>4, <2>1 DEF Given, PlanFits
    <2>2. CASE ~Locates(op)
      <3>1. op.kind = "create" \/ (op.kind = "upsert" /\ ~op.filter /\ ~op.conditional)
        BY <1>2, <2>2 DEF Locates, Folded
      <3>2. p.arm = IF op.kind = "create" THEN "insert" ELSE "folded"
        BY <1>4, <2>2 DEF Unlocated
      <3> QED BY <2>2, <3>1, <3>2
    <2> QED BY <2>1, <2>2
  <1>6. p.arm \in {"update", "delete", "skip"} =>
          /\ p.row \in Selected(v, op) /\ ByFlag(v[p.row].flag, op, p)
    <2>1. SUFFICES ASSUME p.arm \in {"update", "delete", "skip"}
                   PROVE  p.row \in Selected(v, op) /\ ByFlag(v[p.row].flag, op, p)
      OBVIOUS
    <2>2. p = Plan(c) /\ call[c].pc = "write" /\ p.row # NoRow /\ Chosen(c)
      BY <1>4, <1>5, <2>1, MarkersAssumption DEF ServerInv
    <2> QED BY <1>1, <2>2 DEF Chosen
  <1>7. ASSUME NEW r \in Hit(v, op, p), p.arm \in {"update", "delete", "folded"}
        PROVE  /\ r \in Selected(v, op)
               /\ op.kind = "upsert" /\ op.conditional => v[r].flag
    <2>1. CASE p.arm = "folded"
      BY <1>5, <1>7, <2>1 DEF Hit, Selected
    <2>2. CASE p.arm # "folded"
      <3>1. r \in Targets(v, op, p) /\ p.row \in Selected(v, op)
        BY <1>6, <1>7, <2>2 DEF Hit
      <3>2. r = p.row
        <4>1. CASE op.kind = "upsert"
          <5>1. r \in Selected(v, op)
            BY <3>1, <4>1 DEF Targets, ByWhere
          <5> QED BY <1>3, <3>1, <5>1 DEF UniqueKeys, Selected, Holder
        <4>2. CASE op.kind # "upsert"
          BY <3>1, <4>2 DEF Targets, ByWhere
        <4> QED BY <4>1, <4>2
      <3>3. op.kind = "upsert" => p.arm = "update"
        BY <1>5, <1>7, <2>2
      <3> QED BY <1>6, <1>7, <3>1, <3>2, <3>3 DEF ByFlag
    <2> QED BY <2>1, <2>2
  <1>8. \/ done.table = v /\ done.row = p.row /\ p.arm = "skip"
        \/ /\ Inserts(v, op, done)
           /\ p.arm = "insert" \/ (p.arm = "folded" /\ Holder(v, op.where) = {})
        \/ \E r \in Hit(v, op, p) : Updates(v, op, r, done) /\ p.arm \in {"update", "folded"}
        \/ \E r \in Hit(v, op, p) : Deletes(v, op, r, done) /\ p.arm \in {"delete", "folded"}
    BY <1>2, <1>4, StatementCases
  <1>9. CASE done.table = v /\ done.row = p.row /\ p.arm = "skip"
    BY <1>1, <1>5, <1>6, <1>9 DEF Effect, ByFlag
  <1>10. CASE Inserts(v, op, done)
    <2>1. /\ op.kind \in {"create", "upsert"} /\ op.row \in Rows
          /\ v[op.row] = Absent /\ Holder(v, op.create) = {}
          /\ done.table = [v EXCEPT ![op.row] = [key |-> op.create, flag |-> op.flag]]
          /\ done.row = op.row
      BY <1>10 DEF Inserts
    <2>2. op.kind = "upsert" => Selected(v, op) = {}
      BY <1>4, <2>1 DEF SameKey, Selected
    <2> QED BY <1>1, <2>1, <2>2 DEF Effect
  <1>11. ASSUME NEW r \in Hit(v, op, p), Updates(v, op, r, done), p.arm \in {"update", "folded"}
         PROVE  Effect(v, op, done.table, done.row) /\ done.row \in Rows
    <2>1. /\ op.kind \in {"upsert", "update"} /\ r \in Rows
          /\ Holder(v, op.to) \ {r} = {}
          /\ done.table = [v EXCEPT ![r] = [key |-> op.to, flag |-> op.flag]]
          /\ done.row = r
      BY <1>11 DEF Updates
    <2>2. r \in Selected(v, op) /\ (op.kind = "upsert" /\ op.conditional => v[r].flag)
      BY <1>7, <1>11
    <2> QED BY <2>1, <2>2 DEF Effect
  <1>12. ASSUME NEW r \in Hit(v, op, p), Deletes(v, op, r, done), p.arm \in {"delete", "folded"}
         PROVE  Effect(v, op, done.table, done.row) /\ done.row \in Rows
    <2>1. r \in Selected(v, op)
      BY <1>7, <1>12
    <2> QED BY <1>12, <2>1 DEF Effect, Deletes
  <1> QED BY <1>1, <1>8, <1>9, <1>10, <1>11, <1>12

\* How many operations of a transaction are done.
Count(c) == IF call[c].pc = "commit" THEN call[c].at ELSE call[c].at - 1

Proceeds(c) ==
  /\ table' = table /\ draft' = draft
  /\ \A r \in Rows : lock[r] = c => lock'[r] = c
  /\ \A k \in Keys : gap[k] \subseteq gap'[k]
  /\ call'[c].pc # "done" /\ Count(c)' = Count(c)
  /\ call'[c].rows = call[c].rows /\ call'[c].outcome = call[c].outcome

WritesTo(c, v, op, new, row) ==
  /\ UniqueKeys(new) /\ Effect(v, op, new, row)
  /\ \E done : /\ done.table = new /\ done.row = row
               /\ Cleared(c, v, op, done) /\ Changes(work, draft, lock, c, v, new, row)
  /\ call[c].pc \in {"scan", "write"}
  /\ call'[c].rows = Append(call[c].rows, row)
  /\ \/ /\ Direct(c) /\ table' = new /\ Leave(c)
        /\ call'[c].pc = "done" /\ call'[c].outcome = "ok"
     \/ /\ table' = table
        /\ draft'[c] = [r \in Rows |-> IF new[r] # v[r] THEN new[r] ELSE draft[c][r]]
        /\ lock' = [r \in Rows |-> IF new[r] # v[r] \/ r = row THEN c ELSE lock[r]]
        /\ \A k \in Keys : gap[k] \subseteq gap'[k]
        /\ \A r \in Rows : new[r] # v[r] /\ new[r] # Absent => c \in gap'[new[r].key]
        /\ call'[c].pc # "done" /\ Count(c)' = Count(c) + 1
        /\ call'[c].outcome = call[c].outcome

WritesOne(c) == \E new \in Tables, row \in Rows : WritesTo(c, View(c), Op(c), new, row)

Publishes(c) ==
  /\ call[c].pc = "commit" /\ table' = View(c) /\ Leave(c)
  /\ call'[c].pc = "done" /\ call'[c].outcome = "ok" /\ call'[c].rows = call[c].rows

Restarts(c) ==
  /\ table' = table /\ Leave(c) /\ call'[c].pc # "done" /\ Count(c)' = 0
  /\ call'[c].rows = <<>> /\ call'[c].outcome = call[c].outcome

FailsOnce(c) ==
  table' = table /\ Leave(c) /\ call'[c].pc = "done" /\ call'[c].outcome \in Reasons

LEMMA ThrowGoes ==
  ASSUME TypeOK, CallInv, NEW c \in Calls, call[c].pc \notin {"commit", "done"},
         NEW why \in Reasons, NEW raceable \in BOOLEAN, Throw(c, why, raceable), table' = table
  PROVE  Restarts(c) \/ FailsOnce(c)
  <1>1. PICK s \in CallStates :
           /\ Moves(c, s) /\ Leave(c)
           /\ s.at = call[c].at /\ s.suspects = call[c].suspects /\ s.rows = call[c].rows
           /\ \/ /\ raceable /\ Single(c) /\ call[c].attempt = 1
                 /\ s.pc = "scan" /\ s.attempt = 2 /\ s.plans = <<>> /\ s.outcome = call[c].outcome
              \/ /\ ~(raceable /\ Single(c) /\ call[c].attempt = 1)
                 /\ s.pc = "done" /\ s.outcome = why /\ s.attempt = call[c].attempt
                 /\ s.plans = call[c].plans
    BY ThrowDoes
  <1>2. call'[c] = s
    BY <1>1, Moved
  <1>3. CASE s.pc = "scan" /\ Single(c) /\ s.outcome = call[c].outcome
    <2>1. call[c].at = 1 /\ Sane(c, call[c], draft[c])
      BY <1>3, Running
    <2>2. call[c].rows = <<>>
      BY <2>1 DEF Sane
    <2>3. Count(c)' = 0
      BY <1>1, <1>2, <1>3, <2>1 DEF Count
    <2> QED BY <1>1, <1>2, <1>3, <2>2, <2>3 DEF Restarts
  <1>4. CASE s.pc = "done" /\ s.outcome = why
    BY <1>1, <1>2, <1>4 DEF FailsOnce
  <1> QED BY <1>1, <1>3, <1>4

LEMMA WriteGoes ==
  ASSUME TypeOK, CallInv, ServerInv, NEW c \in Calls, Write(c), SameKey(Op(c))
  PROVE  WritesOne(c) \/ Restarts(c) \/ FailsOnce(c)
  <1>1. PICK p, done :
           /\ p \in Plans
           /\ p = (IF Locates(Op(c)) THEN Plan(c) ELSE Unlocated(Op(c)))
           /\ Given(Op(c), p) /\ done = Statement(View(c), Op(c), p)
           /\ Interactive /\ Unblocked(c)
           /\ call[c].pc = IF Locates(Op(c)) THEN "write" ELSE "scan"
           /\ \/ /\ done.fate = "ok" /\ Keep(c, done.table, done.row) /\ Advance(c, done.row)
              \/ /\ done.fate # "ok" /\ table' = table
                 /\ Throw(c, done.fate, done.fate = "conflict" /\ Pinned(Op(c), p))
    BY WriteDoes
  <1>2. call[c].pc \in {"scan", "write"} /\ call[c].pc \notin {"commit", "done"}
    BY <1>1
  <1>3. PICK v, op : v = View(c) /\ op = Op(c)
    OBVIOUS
  <1>4. /\ v \in Tables /\ op \in Ops /\ (op.kind \in {"create", "upsert"} => op.row \in Rows)
        /\ UniqueKeys(v)
    <2>1. v \in Tables /\ v = Seen(table, draft[c])
      BY <1>3, ViewType
    <2> QED BY <1>2, <1>3, <2>1, Running DEF ServerInv, Server, UniqueViews
  <1>5. /\ done.table \in Tables /\ UniqueKeys(done.table)
        /\ done.fate \in {"ok", "notFound", "conflict"}
    BY <1>1, <1>3, <1>4, StatementType
  <1>6. CASE done.fate # "ok"
    <2>1. PICK why, raceable :
            why = done.fate /\ raceable = (done.fate = "conflict" /\ Pinned(Op(c), p))
      OBVIOUS
    <2>2. why \in Reasons /\ raceable \in BOOLEAN /\ Throw(c, why, raceable) /\ table' = table
      BY <1>1, <1>5, <1>6, <2>1 DEF Reasons
    <2> QED BY <1>2, <2>2, ThrowGoes
  <1>7. CASE done.fate = "ok"
    <2>1. Effect(v, op, done.table, done.row) /\ done.row \in Rows
      BY <1>1, <1>2, <1>3, <1>7, WriteMeans
    <2>2. Cleared(c, v, op, done)
      BY <1>1, <1>2, <1>3, <1>7, WriteEffects
    <2>3. Changes(work, draft, lock, c, v, done.table, done.row)
      BY <1>2, <1>3, <1>5, <2>2, WriteServer
    <2>4. PICK o, new, row : o = call[c] /\ new = done.table /\ row = done.row
      OBVIOUS
    <2>5. Keep(c, new, row) /\ Advance(c, row)
      BY <1>1, <1>7, <2>4
    <2>6. /\ o = [pc |-> o.pc, at |-> o.at, attempt |-> o.attempt, plans |-> o.plans,
                  suspects |-> o.suspects, outcome |-> o.outcome, rows |-> o.rows]
          /\ o.at \in 1..Len(work.ops[c]) /\ o.at \in Nat /\ o.pc # "commit"
          /\ Direct(c) => o.at = Len(work.ops[c])
      BY <1>2, <2>4, CallType, Running DEF Direct, Single
    <2>7. PICK pc, outcome, rows, at :
            /\ pc = IF o.at # Len(work.ops[c]) THEN "scan" ELSE IF Direct(c) THEN "done" ELSE "commit"
            /\ outcome = IF Direct(c) THEN "ok" ELSE o.outcome
            /\ rows = Append(o.rows, row)
            /\ at = IF o.at = Len(work.ops[c]) THEN o.at ELSE o.at + 1
      OBVIOUS
    <2>8. call'[c] = [o EXCEPT !.pc = pc, !.outcome = outcome, !.rows = rows, !.at = at]
      BY <2>4, <2>5, <2>7 DEF Advance, TypeOK
    <2>9. call'[c].pc = pc /\ call'[c].outcome = outcome /\ call'[c].rows = rows /\ call'[c].at = at
      BY <2>6, <2>8
    <2>10. CASE Direct(c)
      <3>1. table' = new /\ Leave(c)
        BY <2>5, <2>10 DEF Keep
      <3>2. call'[c].pc = "done" /\ call'[c].outcome = "ok" /\ call'[c].rows = Append(call[c].rows, row)
        BY <2>4, <2>6, <2>7, <2>9, <2>10
      <3> QED BY <1>2, <1>3, <1>5, <2>1, <2>2, <2>3, <2>4, <2>10, <3>1, <3>2 DEF WritesOne, WritesTo
    <2>11. CASE ~Direct(c)
      <3>1. /\ table' = table /\ \A k \in Keys : gap[k] \subseteq gap'[k]
            /\ draft'[c] = [r \in Rows |-> IF new[r] # v[r] THEN new[r] ELSE draft[c][r]]
            /\ lock' = [r \in Rows |-> IF new[r] # v[r] \/ r = row THEN c ELSE lock[r]]
        BY <1>3, <1>5, <2>4, <2>5, <2>11, KeepDoes
      <3>2. ASSUME NEW r \in Rows, new[r] # v[r], new[r] # Absent
            PROVE  c \in gap'[new[r].key]
        <4>1. PICK k : k = new[r].key
          OBVIOUS
        <4>2. k \in Keys
          BY <1>5, <2>4, <3>2, <4>1 DEF Tables, Values
        <4>3. r \in Holder(new, k) /\ r \in {x \in Rows : new[x] # View(c)[x]}
          BY <1>3, <3>2, <4>1 DEF Holder
        <4>4. gap' = [q \in Keys |-> gap[q] \cup {d \in {c} : \E x \in {x \in Rows : new[x] # View(c)[x]} :
                                                              x \in Holder(new, q)}]
          BY <2>5, <2>11 DEF Keep
        <4> QED BY <4>1, <4>2, <4>3, <4>4
      <3>3. /\ call'[c].pc # "done" /\ call'[c].outcome = call[c].outcome
            /\ call'[c].rows = Append(call[c].rows, row) /\ Count(c)' = Count(c) + 1
        <4>1. pc # "done" /\ outcome = o.outcome
          BY <2>7, <2>11
        <4>2. Count(c)' = IF pc = "commit" THEN at ELSE at - 1
          BY <2>9 DEF Count
        <4>3. Count(c) = o.at - 1
          BY <2>4, <2>6 DEF Count
        <4>4. Count(c)' = o.at
          BY <2>6, <2>7, <2>11, <4>2
        <4> QED BY <2>4, <2>6, <2>7, <2>9, <4>1, <4>3, <4>4
      <3> QED BY <1>2, <1>3, <1>5, <2>1, <2>2, <2>3, <2>4, <3>1, <3>2, <3>3 DEF WritesOne, WritesTo
    <2> QED BY <2>10, <2>11
  <1> QED BY <1>6, <1>7

LEMMA GoesOn ==
  ASSUME TypeOK, NEW c \in Calls, NEW pc, pc \notin {"commit", "done"}, call[c].pc # "commit",
         NEW plans, call'[c] = [call[c] EXCEPT !.pc = pc, !.plans = plans],
         table' = table, draft' = draft, \A r \in Rows : lock[r] = c => lock'[r] = c,
         \A k \in Keys : gap[k] \subseteq gap'[k]
  PROVE  Proceeds(c)
  <1>1. PICK o : o = call[c]
    OBVIOUS
  <1>2. o = [pc |-> o.pc, at |-> o.at, attempt |-> o.attempt, plans |-> o.plans,
             suspects |-> o.suspects, outcome |-> o.outcome, rows |-> o.rows]
    BY <1>1, CallType
  <1>3. /\ call'[c].pc = pc /\ call'[c].at = o.at /\ call'[c].rows = o.rows
        /\ call'[c].outcome = o.outcome
    BY <1>1, <1>2
  <1>4. Count(c)' = Count(c)
    BY <1>1, <1>3 DEF Count
  <1> QED BY <1>1, <1>3, <1>4 DEF Proceeds

\* A step of a call on a driver with transactions.
LEMMA TransactionSteps ==
  ASSUME TypeOK, CallInv, ServerInv, Interactive, NEW c \in Calls, SameKey(Op(c)),
         Step(c) \/ Deadlock(c)
  PROVE  Proceeds(c) \/ WritesOne(c) \/ Publishes(c) \/ Restarts(c) \/ FailsOnce(c)
  <1>1. PICK o : o = call[c]
    OBVIOUS
  <1>2. /\ o = [pc |-> o.pc, at |-> o.at, attempt |-> o.attempt, plans |-> o.plans,
                suspects |-> o.suspects, outcome |-> o.outcome, rows |-> o.rows]
        /\ call = [d \in Calls |-> call[d]] /\ Nobody \notin Calls
    BY <1>1, CallType, MarkersAssumption DEF TypeOK
  <1>3. /\ o.pc # "done" /\ Sane(c, o, draft[c])
    BY <1>1, StepRuns, Running
  <1>4. o.pc \notin {"batch", "blame"}
    BY <1>3 DEF Sane
  <1>5. CASE Begin(c)
    <2>1. call'[c] = [o EXCEPT !.pc = "scan"] /\ o.pc = "idle"
      BY <1>1, <1>2, <1>5 DEF Begin
    <2>2. PICK plans : plans = o.plans
      OBVIOUS
    <2>3. call'[c] = [call[c] EXCEPT !.pc = "scan", !.plans = plans]
      BY <1>1, <1>2, <2>1, <2>2
    <2>4. Proceeds(c)
      BY <1>1, <1>5, <2>1, <2>3, GoesOn DEF Begin
    <2> QED BY <2>4
  <1>6. CASE Locate(c) \/ Wake(c)
    <2>1. PICK r \in Rows \cup {NoRow} :
            Take(c, r) /\ call[c].pc \in {"scan", "wait"}
      BY <1>6, LocateTakes
    <2>2. PICK plans : plans = <<PlanFor(View(c), Op(c), r)>>
      OBVIOUS
    <2>3. call'[c] = [call[c] EXCEPT !.pc = "write", !.plans = plans]
      BY <1>2, <2>1, <2>2 DEF Take
    <2>4. /\ table' = table /\ draft' = draft /\ \A x \in Rows : lock[x] = c => lock'[x] = c
          /\ \A k \in Keys : gap[k] \subseteq gap'[k]
      BY <2>1 DEF Take, TypeOK
    <2>5. Proceeds(c)
      BY <2>1, <2>3, <2>4, GoesOn
    <2> QED BY <2>5
  <1>7. CASE Wait(c)
    <2>1. PICK r \in Rows :
            call' = [call EXCEPT ![c].pc = "wait", ![c].plans = <<[row |-> r, arm |-> "none"]>>]
      BY <1>7 DEF Wait, Selected, Holder
    <2>2. PICK plans : plans = <<[row |-> r, arm |-> "none"]>>
      OBVIOUS
    <2>3. call'[c] = [call[c] EXCEPT !.pc = "wait", !.plans = plans] /\ call[c].pc = "scan"
      BY <1>2, <1>7, <2>1, <2>2 DEF Wait
    <2>4. Proceeds(c)
      BY <1>7, <2>3, GoesOn DEF Wait
    <2> QED BY <2>4
  <1>8. CASE Write(c)
    BY <1>8, WriteGoes
  <1>9. CASE Commit(c)
    <2>1. call'[c] = [o EXCEPT !.pc = "done", !.outcome = "ok"]
      BY <1>1, <1>2, <1>9 DEF Commit
    <2>2. call'[c].pc = "done" /\ call'[c].outcome = "ok" /\ call'[c].rows = o.rows
      BY <1>2, <2>1
    <2> QED BY <1>1, <1>9, <2>2 DEF Commit, Publishes
  <1>10. CASE Victim(c)
    <2>1. /\ call[c].pc \in {"scan", "wait", "write"} /\ table' = table
          /\ Throw(c, "deadlock", call[c].pc = "write" /\ Pinned(Op(c), Plan(c)))
      BY <1>10, VictimWaits
    <2>2. PICK raceable : raceable = (call[c].pc = "write" /\ Pinned(Op(c), Plan(c)))
      OBVIOUS
    <2>3. raceable \in BOOLEAN /\ Throw(c, "deadlock", raceable)
      BY <2>1, <2>2
    <2>4. PICK why : why = "deadlock"
      OBVIOUS
    <2>5. why \in Reasons /\ Throw(c, why, raceable)
      BY <2>3, <2>4 DEF Reasons
    <2> QED BY <2>1, <2>3, <2>5, ThrowGoes
  <1>11. ~PlanBatch(c) /\ ~RunBatch(c) /\ ~Blame(c)
    BY <1>1, <1>4 DEF PlanBatch, RunBatch, Blame
  <1> QED BY <1>5, <1>6, <1>7, <1>8, <1>9, <1>10, <1>11 DEF Step, Deadlock, Recorded

\* What is the call's own stays so when another call takes a step.
LEMMA MineStays ==
  ASSUME TypeOK, CallInv, ServerInv, Interactive, NEW d \in Calls, SameKey(Op(d)),
         Step(d) \/ Deadlock(d), NEW c \in Calls, c # d, NEW k \in Keys, KeptBy(c, k)
  PROVE  KeptBy(c, k)'
  <1>1. /\ \A s \in Holder(table, k) : lock[s] = c
        /\ \A e \in Calls, s \in Rows : e # c /\ draft[e][s] \notin {Same, Absent} => draft[e][s].key # k
        /\ c \in gap[k] \/ Holder(table, k) # {}
    BY DEF KeptBy, Owned
  <1>2. /\ \A r \in Rows : lock[r] = c => lock'[r] = c /\ table'[r] = table[r]
        /\ gap[k] \ {d} \subseteq gap'[k]
        /\ \A e \in Calls : e # d => draft'[e] = draft[e]
    BY StepServes, Steady, MarkersAssumption DEF Serves, Gentle
  <1>3. \A s \in Holder(table, k) : s \in Holder(table', k) /\ lock'[s] = c
    BY <1>1, <1>2 DEF Holder
  <1>4. SUFFICES /\ \A s \in Rows : table'[s] # Absent /\ table'[s].key = k => s \in Holder(table, k)
                 /\ \A s \in Rows : draft'[d][s] \notin {Same, Absent} => draft'[d][s].key # k
    <2>1. \A s \in Holder(table', k) : lock'[s] = c
      BY <1>3, <1>4 DEF Holder
    <2>2. \A e \in Calls, s \in Rows : e # c /\ draft'[e][s] \notin {Same, Absent} => draft'[e][s].key # k
      BY <1>1, <1>2, <1>4
    <2>3. c \in gap'[k] \/ Holder(table', k) # {}
      BY <1>1, <1>2, <1>3
    <2> QED BY <2>1, <2>2, <2>3 DEF KeptBy, Owned
  <1>5. /\ table' = table => \A s \in Rows : table'[s] # Absent /\ table'[s].key = k => s \in Holder(table, k)
        /\ draft'[d] = draft[d] => \A s \in Rows : draft'[d][s] \notin {Same, Absent} => draft'[d][s].key # k
    BY <1>1 DEF Holder
  <1>6. Leave(d) => \A s \in Rows : draft'[d][s] = Same
    BY LeaveType DEF Untouched
  <1>7. CASE Proceeds(d)
    BY <1>4, <1>5, <1>7 DEF Proceeds
  <1>8. CASE Restarts(d) \/ FailsOnce(d)
    BY <1>4, <1>5, <1>6, <1>8 DEF Restarts, FailsOnce
  <1>9. CASE Publishes(d)
    <2>1. \A s \in Rows : table'[s] = IF draft[d][s] = Same THEN table[s] ELSE draft[d][s]
      BY <1>9 DEF Publishes, View
    <2>2. \A s \in Rows : table'[s] # Absent /\ table'[s].key = k => s \in Holder(table, k)
      BY <1>1, <2>1 DEF Holder
    <2> QED BY <1>4, <1>6, <1>9, <2>2 DEF Publishes
  <1>10. CASE WritesOne(d)
    <2>1. PICK v, op : v = View(d) /\ op = Op(d)
      OBVIOUS
    <2>2. PICK new \in Tables, row \in Rows : WritesTo(d, v, op, new, row)
      BY <1>10, <2>1 DEF WritesOne
    <2>3. PICK done :
            /\ done.table = new /\ Cleared(d, v, op, done)
            /\ \/ Leave(d) /\ table' = new
               \/ /\ table' = table
                  /\ draft'[d] = [r \in Rows |-> IF new[r] # v[r] THEN new[r] ELSE draft[d][r]]
      <3>1. \/ Leave(d) /\ table' = new
            \/ /\ table' = table
               /\ draft'[d] = [r \in Rows |-> IF new[r] # v[r] THEN new[r] ELSE draft[d][r]]
        BY <2>2 DEF WritesTo
      <3>2. \E done : done.table = new /\ Cleared(d, v, op, done)
        BY <2>2 DEF WritesTo
      <3> QED BY <3>1, <3>2
    <2>4. v \in Tables /\ op \in Ops
      BY <2>1, StepRuns, Running, ViewType
    <2>5. \A s \in Rows : new[s] # Absent /\ new[s].key = k => s \in Holder(table, k) /\ new[s] = v[s]
      BY <2>1, <2>3, <2>4, MineIsLeft
    <2>6. CASE Leave(d) /\ table' = new
      BY <1>4, <1>6, <2>5, <2>6
    <2>7. CASE /\ table' = table
               /\ draft'[d] = [r \in Rows |-> IF new[r] # v[r] THEN new[r] ELSE draft[d][r]]
      <3>1. \A s \in Rows : draft'[d][s] = IF new[s] # v[s] THEN new[s] ELSE draft[d][s]
        BY <2>7
      <3>2. \A s \in Rows : draft'[d][s] \notin {Same, Absent} => draft'[d][s].key # k
        BY <1>1, <2>5, <3>1
      <3> QED BY <1>4, <1>5, <2>7, <3>2
    <2> QED BY <2>3, <2>6, <2>7
  <1> QED BY <1>7, <1>8, <1>9, <1>10, TransactionSteps

-----------------------------------------------------------------------------
(***************************************************************************)
(* The path of a transaction: the tables its operations so far lead        *)
(* through, from the committed one to the one it sees.                     *)
(***************************************************************************)

\* A table of the path differs from the committed one in rows that c has locked, and
\* the keys of the locked rows are its own.
Bound(c, u) ==
  /\ u \in Tables /\ UniqueKeys(u)
  /\ \A r \in Rows : /\ u[r] # table[r] => lock[r] = c
                     /\ lock[r] = c /\ u[r] # Absent => KeptBy(c, u[r].key)

Stage(c, i, t, u) ==
  LET r == call[c].rows[i] IN r \in Rows /\ lock[r] = c /\ Effect(t, work.ops[c][i], u, r)

Path(c, f) ==
  /\ Len(call[c].rows) = Count(c) /\ Count(c) \in Nat /\ Count(c) <= Len(work.ops[c])
  /\ f[0] = table /\ f[Count(c)] = View(c)
  /\ \A i \in 0..Count(c) : Bound(c, f[i])
  /\ \A i \in 1..Count(c) : Stage(c, i, f[i - 1], f[i])

PathInv == Interactive => \A c \in Calls : call[c].pc # "done" => \E f : Path(c, f)

\* When another call takes a step, the path goes on over what it has changed.
LEMMA BoundStays ==
  ASSUME TypeOK, CallInv, ServerInv, Interactive, NEW d \in Calls, SameKey(Op(d)),
         Step(d) \/ Deadlock(d), NEW c \in Calls, c # d, NEW u, Bound(c, u),
         NEW L, L = {r \in Rows : lock[r] = c}, NEW u2, u2 = Over(L, u, table')
  PROVE  Bound(c, u2)' /\ Exclusive(L, u, table')
  <1>1. /\ u \in Tables /\ UniqueKeys(u)
        /\ \A r \in Rows : /\ u[r] # table[r] => lock[r] = c
                           /\ lock[r] = c /\ u[r] # Absent => KeptBy(c, u[r].key)
    BY DEF Bound
  <1>2. /\ Server(work, table', draft', lock') /\ table' \in Tables
        /\ \A r \in Rows : lock[r] = c <=> lock'[r] = c
    <2>1. Serves(d) /\ Kept(d)
      BY StepServes, StepKept DEF ServerInv, Server, UniqueViews
    <2> QED BY <2>1, MarkersAssumption DEF Serves, Gentle, Kept
  <1>3. UniqueKeys(table')
    BY <1>2 DEF Server, UniqueViews
  <1>4. \A r \in Rows : u2[r] = IF r \in L THEN u[r] ELSE table'[r]
    BY <1>1, <1>2, OverType
  <1>5. ASSUME NEW r \in Rows, lock[r] = c, u[r] # Absent
        PROVE  KeptBy(c, u[r].key)'
    <2>1. PICK k : k = u[r].key
      OBVIOUS
    <2>2. k \in Keys /\ KeptBy(c, k)
      BY <1>1, <1>5, <2>1 DEF Tables, Values
    <2>3. KeptBy(c, k)'
      BY <2>2, MineStays
    <2> QED BY <2>1, <2>3 DEF KeptBy
  <1>6. Exclusive(L, u, table')
    <2>1. SUFFICES ASSUME NEW r \in Rows, NEW s \in Rows, r \in L, s \notin L, u[r] # Absent,
                          table'[s] # Absent, u[r].key = table'[s].key
                   PROVE  FALSE
      BY DEF Exclusive
    <2>2. KeptBy(c, u[r].key)'
      BY <1>5, <2>1
    <2>3. s \in Holder(table', u[r].key)
      BY <2>1 DEF Holder
    <2>4. lock'[s] = c
      BY <2>2, <2>3 DEF KeptBy, Owned
    <2> QED BY <1>2, <2>1, <2>4
  <1>7. u2 \in Tables /\ UniqueKeys(u2)
    BY <1>1, <1>2, <1>3, <1>6, OverType, UniqueOver
  <1>8. ASSUME NEW r \in Rows
        PROVE  /\ u2[r] # table'[r] => lock'[r] = c
               /\ lock'[r] = c /\ u2[r] # Absent => KeptBy(c, u2[r].key)'
    <2>1. u2[r] # table'[r] => lock'[r] = c
      BY <1>2, <1>4
    <2>2. ASSUME lock'[r] = c, u2[r] # Absent PROVE KeptBy(c, u2[r].key)'
      <3>1. u2[r] = u[r] /\ lock[r] = c
        BY <1>2, <1>4, <2>2
      <3>2. KeptBy(c, u[r].key)'
        BY <1>5, <2>2, <3>1
      <3> QED BY <3>1, <3>2 DEF KeptBy
    <2> QED BY <2>1, <2>2
  <1> QED BY <1>6, <1>7, <1>8 DEF Bound

SameKeys == \A c \in Calls : \A i \in DOMAIN work.ops[c] : SameKey(work.ops[c][i])

LEMMA PathStays ==
  ASSUME TypeOK, CallInv, ServerInv, Interactive, SameKeys, NEW d \in Calls, SameKey(Op(d)),
         Step(d) \/ Deadlock(d), NEW c \in Calls, c # d, NEW f, Path(c, f)
  PROVE  \E g : Path(c, g)'
  <1>1. PICK L, n : L = {r \in Rows : lock[r] = c} /\ n = Count(c)
    OBVIOUS
  <1>2. call'[c] = call[c] /\ draft'[c] = draft[c] /\ work' = work
    BY <1>1, Steady
  <1>3. /\ n \in Nat /\ n <= Len(work.ops[c]) /\ Len(call[c].rows) = n
        /\ f[0] = table /\ f[n] = View(c)
        /\ \A i \in 0..n : Bound(c, f[i])
        /\ \A i \in 1..n : Stage(c, i, f[i - 1], f[i])
    BY <1>1 DEF Path
  <1>4. /\ table \in Tables /\ table' \in Tables /\ Server(work, table, draft, lock)
        /\ \A r \in Rows : lock[r] = c <=> lock'[r] = c
        /\ \A r \in Rows : lock[r] = c => table'[r] = table[r]
    <2>1. Serves(d) /\ Kept(d)
      BY StepServes, StepKept DEF ServerInv, Server, UniqueViews
    <2> QED BY <2>1, MarkersAssumption DEF Serves, Gentle, Kept, TypeOK, ServerInv
  <1>5. PICK g : g = [i \in 0..n |-> Over(L, f[i], table')]
    OBVIOUS
  <1>6. ASSUME NEW i \in 0..n PROVE g[i] = Over(L, f[i], table') /\ Bound(c, g[i])' /\ Exclusive(L, f[i], table')
    <2>1. PICK u, u2 : u = f[i] /\ u2 = Over(L, u, table')
      OBVIOUS
    <2>2. Bound(c, u)
      BY <1>3, <2>1
    <2>3. Bound(c, u2)' /\ Exclusive(L, u, table')
      BY <1>1, <2>1, <2>2, BoundStays
    <2>4. g[i] = u2
      BY <1>5, <2>1
    <2> QED BY <2>1, <2>3, <2>4
  <1>7. g[0] = table'
    <2>1. \A r \in Rows : Over(L, table, table')[r] = table'[r]
      BY <1>1, <1>4, OverType
    <2>2. Over(L, table, table') = table'
      BY <1>4, <2>1, OverType DEF Tables
    <2> QED BY <1>3, <1>6, <2>2
  <1>8. g[n] = View(c)'
    <2>1. \A r \in Rows : draft[c][r] # Same => lock[r] = c
      BY <1>4 DEF Server, Own
    <2>2. PICK v, w : v = View(c) /\ w = View(c)'
      OBVIOUS
    <2>3. /\ v = [r \in Rows |-> IF draft[c][r] = Same THEN table[r] ELSE draft[c][r]]
          /\ w = [r \in Rows |-> IF draft[c][r] = Same THEN table'[r] ELSE draft[c][r]]
      BY <1>2, <2>2 DEF View
    <2>4. \A r \in Rows : w[r] = IF r \in L THEN v[r] ELSE table'[r]
      BY <1>1, <1>4, <2>1, <2>3
    <2>5. w = Over(L, v, table')
      BY <2>3, <2>4 DEF Over
    <2> QED BY <1>3, <1>6, <2>2, <2>5
  <1>9. ASSUME NEW i \in 1..n PROVE Stage(c, i, g[i - 1], g[i])'
    <2>1. PICK t, u, op, r : t = f[i - 1] /\ u = f[i] /\ op = work.ops[c][i] /\ r = call[c].rows[i]
      OBVIOUS
    <2>2. i \in 0..n /\ i - 1 \in 0..n /\ i \in 1..Len(work.ops[c])
      BY <1>3, OpType
    <2>3. r \in Rows /\ lock[r] = c /\ Effect(t, op, u, r)
      BY <1>3, <2>1 DEF Stage
    <2>4. op \in Ops /\ SameKey(op)
      BY <2>1, <2>2, OpType DEF SameKeys
    <2>5. t \in Tables /\ u \in Tables
      BY <1>3, <2>1, <2>2 DEF Bound
    <2>6. PICK t2, u2 : t2 = Over(L, t, table') /\ u2 = Over(L, u, table')
      OBVIOUS
    <2>7. t2 = g[i - 1] /\ u2 = g[i] /\ Exclusive(L, u, table')
      BY <1>6, <2>1, <2>2, <2>6
    <2>8. r \in L
      BY <1>1, <2>3
    <2>9. Effect(t2, op, u2, r)
      BY <1>4, <2>3, <2>4, <2>5, <2>6, <2>7, <2>8, EffectOver
    <2> QED BY <1>2, <1>4, <2>1, <2>3, <2>7, <2>9 DEF Stage
  <1>10. Count(c)' = n
    BY <1>1, <1>2 DEF Count
  <1>11. Path(c, g)'
    BY <1>2, <1>3, <1>6, <1>7, <1>8, <1>9, <1>10 DEF Path
  <1> QED BY <1>11

\* While c keeps its locks and its keys, and the others' drafts stay, so does what
\* bounds a table; the rows c locks now are bounded if the table has not changed them.
LEMMA BoundGrows ==
  ASSUME TypeOK, NEW c \in Calls, Server(work, table', draft', lock'), table' = table,
         \A r \in Rows : lock[r] = c => lock'[r] = c,
         \A k \in Keys : gap[k] \subseteq gap'[k],
         \A e \in Calls : e # c => draft'[e] = draft[e],
         NEW u, Bound(c, u)
  PROVE  Bound(c, u)'
  <1>1. /\ u \in Tables /\ UniqueKeys(u)
        /\ \A r \in Rows : /\ u[r] # table[r] => lock[r] = c
                           /\ lock[r] = c /\ u[r] # Absent => KeptBy(c, u[r].key)
    BY DEF Bound
  <1>2. ASSUME NEW r \in Rows, lock'[r] = c, u[r] # Absent
        PROVE  KeptBy(c, u[r].key)'
    <2>1. PICK k : k = u[r].key
      OBVIOUS
    <2>2. k \in Keys
      BY <1>1, <1>2, <2>1 DEF Tables, Values
    <2>3. CASE lock[r] = c
      <3>1. Owned(c, k, table, draft, lock, gap)
        BY <1>1, <1>2, <2>1, <2>3 DEF KeptBy
      <3>2. Owned(c, k, table', draft', lock', gap')
        BY <2>2, <3>1 DEF Owned, Holder
      <3> QED BY <2>1, <3>2 DEF KeptBy
    <2>4. CASE lock[r] # c
      <3>1. u[r] = table'[r]
        BY <1>1, <2>4
      <3>2. Owned(c, table'[r].key, table', draft', lock', gap')
        BY <1>2, <3>1, LockedIsOwned
      <3> QED BY <3>1, <3>2 DEF KeptBy
    <2> QED BY <2>3, <2>4
  <1> QED BY <1>1, <1>2 DEF Bound

LEMMA PathGrows ==
  ASSUME TypeOK, CallInv, ServerInv, Interactive, NEW c \in Calls, Step(c) \/ Deadlock(c),
         Proceeds(c), NEW f, Path(c, f)
  PROVE  Path(c, f)'
  <1>1. /\ Server(work, table', draft', lock') /\ work' = work
        /\ \A e \in Calls : e # c => draft'[e] = draft[e]
    BY StepServes, Steady DEF Serves
  <1>2. PICK n : n = Count(c)
    OBVIOUS
  <1>3. /\ n \in Nat /\ n <= Len(work.ops[c]) /\ Len(call[c].rows) = n
        /\ f[0] = table /\ f[n] = View(c)
        /\ \A i \in 0..n : Bound(c, f[i])
        /\ \A i \in 1..n : Stage(c, i, f[i - 1], f[i])
    BY <1>2 DEF Path
  <1>4. /\ call'[c].rows = call[c].rows /\ Count(c)' = n /\ table' = table /\ View(c)' = View(c)
        /\ \A r \in Rows : lock[r] = c => lock'[r] = c
        /\ \A k \in Keys : gap[k] \subseteq gap'[k]
    BY <1>2 DEF Proceeds, View
  <1>5. ASSUME NEW i \in 0..n PROVE Bound(c, f[i])'
    <2>1. PICK u : u = f[i]
      OBVIOUS
    <2>2. Bound(c, u)
      BY <1>3, <2>1
    <2>3. Bound(c, u)'
      BY <1>1, <1>4, <2>2, BoundGrows
    <2> QED BY <2>1, <2>3
  <1>6. ASSUME NEW i \in 1..n PROVE Stage(c, i, f[i - 1], f[i])'
    BY <1>1, <1>3, <1>4 DEF Stage
  <1> QED BY <1>1, <1>3, <1>4, <1>5, <1>6 DEF Path

LEMMA PathStarts ==
  ASSUME NEW c \in Calls, table \in Tables, UniqueKeys(table), draft[c] = Untouched,
         \A r \in Rows : lock[r] # c, Count(c) = 0, call[c].rows = <<>>, Len(work.ops[c]) \in Nat
  PROVE  \E f : Path(c, f)
  <1>1. PICK f : f = [i \in {0} |-> table]
    OBVIOUS
  <1>2. f[0] = table
    BY <1>1
  <1>3. View(c) = table
    BY DEF View, Untouched, Tables
  <1>4. Bound(c, table)
    BY DEF Bound
  <1>5. 0..0 = {0} /\ 1..0 = {} /\ Len(call[c].rows) = 0
    OBVIOUS
  <1>6. Path(c, f)
    BY <1>2, <1>3, <1>4, <1>5 DEF Path
  <1> QED BY <1>6

LEMMA PathRestarts ==
  ASSUME TypeOK, CallInv, ServerInv, NEW c \in Calls, Step(c) \/ Deadlock(c), Restarts(c)
  PROVE  \E f : Path(c, f)'
  <1>1. PICK f : f = [i \in {0} |-> table]
    OBVIOUS
  <1>2. f[0] = table
    BY <1>1
  <1>3. /\ work' = work /\ table' = table /\ table \in Tables /\ UniqueKeys(table)
        /\ Len(work.ops[c]) \in Nat
    BY Steady, OpType DEF Restarts, ServerInv, Server, UniqueViews, TypeOK
  <1>4. /\ draft'[c] = Untouched /\ \A r \in Rows : lock'[r] # c
    BY LeaveType, MarkersAssumption DEF Restarts
  <1>5. View(c)' = table
    BY <1>3, <1>4 DEF View, Untouched, Tables
  <1>6. Bound(c, table)'
    BY <1>3, <1>4 DEF Bound
  <1>7. 0..0 = {0} /\ 1..0 = {} /\ Len(call'[c].rows) = 0 /\ Count(c)' = 0
    BY DEF Restarts
  <1>8. Bound(c, f[0])'
    BY <1>2, <1>3, <1>6 DEF Bound
  <1>9. Path(c, f)'
    BY <1>2, <1>3, <1>5, <1>7, <1>8 DEF Path
  <1> QED BY <1>9

\* An operation done takes the path one table further.
LEMMA PathExtends ==
  ASSUME TypeOK, CallInv, ServerInv, Interactive, NEW c \in Calls, Step(c) \/ Deadlock(c),
         WritesOne(c), call'[c].pc # "done", NEW f, Path(c, f)
  PROVE  \E g : Path(c, g)'
  <1>1. PICK v, op : v = View(c) /\ op = Op(c)
    OBVIOUS
  <1>2. PICK new \in Tables, row \in Rows : WritesTo(c, v, op, new, row)
    BY <1>1 DEF WritesOne
  <1>3. /\ UniqueKeys(new) /\ Effect(v, op, new, row)
        /\ Changes(work, draft, lock, c, v, new, row)
        /\ call'[c].rows = Append(call[c].rows, row) /\ table' = table
        /\ draft'[c] = [r \in Rows |-> IF new[r] # v[r] THEN new[r] ELSE draft[c][r]]
        /\ lock' = [r \in Rows |-> IF new[r] # v[r] \/ r = row THEN c ELSE lock[r]]
        /\ \A k \in Keys : gap[k] \subseteq gap'[k]
        /\ \A r \in Rows : new[r] # v[r] /\ new[r] # Absent => c \in gap'[new[r].key]
        /\ Count(c)' = Count(c) + 1
    BY <1>2 DEF WritesTo
  <1>4. /\ Server(work, table', draft', lock') /\ work' = work
        /\ \A e \in Calls : e # c => draft'[e] = draft[e]
    BY StepServes, Steady DEF Serves
  <1>5. PICK n : n = Count(c)
    OBVIOUS
  <1>6. /\ n \in Nat /\ Len(call[c].rows) = n
        /\ f[0] = table /\ f[n] = v
        /\ \A i \in 0..n : Bound(c, f[i])
        /\ \A i \in 1..n : Stage(c, i, f[i - 1], f[i])
    BY <1>1, <1>5 DEF Path
  <1>7. /\ call[c].at = n + 1 /\ n + 1 <= Len(work.ops[c]) /\ op = work.ops[c][n + 1]
        /\ v \in Tables /\ call[c].rows \in Seq(Rows \cup {NoRow})
    <2>1. call[c].pc \in {"scan", "write"} /\ call[c].pc # "done" /\ call[c].pc # "commit"
      BY DEF WritesOne, WritesTo
    <2>2. call[c].at \in 1..Len(work.ops[c]) /\ Len(work.ops[c]) \in Nat /\ Op(c) = work.ops[c][call[c].at]
      BY <2>1, Running
    <2>3. n = call[c].at - 1
      BY <1>5, <2>1 DEF Count
    <2> QED BY <1>1, <2>2, <2>3, ViewType, CallType
  <1>8. PICK g : g = [i \in 0..(n + 1) |-> IF i = n + 1 THEN new ELSE f[i]]
    OBVIOUS
  <1>9. /\ g[n + 1] = new /\ \A i \in 0..n : g[i] = f[i] /\ i \in 0..(n + 1)
        /\ 0 \in 0..n /\ n \in 0..n
    BY <1>6, <1>8
  <1>10. /\ \A r \in Rows : lock'[r] = IF new[r] # v[r] \/ r = row THEN c ELSE lock[r]
         /\ \A r \in Rows : draft'[c][r] = IF new[r] # v[r] THEN new[r] ELSE draft[c][r]
         /\ \A r \in Rows : v[r] = IF draft[c][r] = Same THEN table[r] ELSE draft[c][r]
         /\ \A r \in Rows : new[r] # Same
    BY <1>1, <1>3, MarkersAssumption DEF View, Tables
  <1>11. View(c)' = new
    <2>1. PICK w : w = View(c)'
      OBVIOUS
    <2>2. w = [r \in Rows |-> IF draft'[c][r] = Same THEN table'[r] ELSE draft'[c][r]]
      BY <2>1 DEF View
    <2>3. \A r \in Rows : w[r] = new[r]
      BY <1>3, <1>10, <2>2
    <2>4. w = new
      BY <2>2, <2>3 DEF Tables
    <2> QED BY <2>1, <2>4
  <1>12. ASSUME NEW i \in 0..n PROVE Bound(c, f[i])'
    <2>1. PICK u : u = f[i]
      OBVIOUS
    <2>2. Bound(c, u)
      BY <1>6, <2>1
    <2>3. \A r \in Rows : lock[r] = c => lock'[r] = c
      BY <1>10
    <2>4. Bound(c, u)'
      BY <1>3, <1>4, <2>2, <2>3, BoundGrows
    <2> QED BY <2>1, <2>4
  <1>13. Bound(c, new)'
    <2>1. /\ v \in Tables /\ UniqueKeys(v)
          /\ \A r \in Rows : /\ v[r] # table'[r] => lock'[r] = c
                             /\ lock'[r] = c /\ v[r] # Absent => KeptBy(c, v[r].key)'
      BY <1>6, <1>9, <1>12 DEF Bound
    <2>2. \A r \in Rows : new[r] # table'[r] => lock'[r] = c
      BY <1>10, <2>1
    <2>3. ASSUME NEW r \in Rows, new[r] # v[r], new[r] # Absent
          PROVE  KeptBy(c, new[r].key)'
      <3>1. PICK k : k = new[r].key
        OBVIOUS
      <3>2. ASSUME NEW s \in Holder(table', k) PROVE lock'[s] = c
        <4>1. s \in Rows /\ table[s] # Absent /\ table[s].key = k
          BY <1>3, <3>2 DEF Holder
        <4>2. CASE draft[c][s] # Same
          BY <1>10, <4>1, <4>2 DEF ServerInv, Server, Own
        <4>3. CASE draft[c][s] = Same /\ new[s] # v[s]
          BY <1>10, <4>1, <4>3
        <4>4. CASE draft[c][s] = Same /\ new[s] = v[s]
          <5>1. new[s] = table[s]
            BY <1>10, <4>1, <4>4
          <5>2. s = r
            BY <1>3, <2>3, <3>1, <4>1, <5>1 DEF UniqueKeys
          <5> QED BY <1>10, <2>3, <5>2
        <4> QED BY <4>2, <4>3, <4>4
      <3>3. \A d \in Calls, s \in Rows : d # c /\ draft'[d][s] \notin {Same, Absent} => draft'[d][s].key # k
        BY <1>3, <1>4, <2>3, <3>1 DEF Changes
      <3>4. c \in gap'[k]
        BY <1>3, <2>3, <3>1
      <3> QED BY <3>1, <3>2, <3>3, <3>4 DEF KeptBy, Owned
    <2>4. ASSUME NEW r \in Rows, lock'[r] = c, new[r] # Absent
          PROVE  KeptBy(c, new[r].key)'
      <3>1. CASE new[r] # v[r]
        BY <2>3, <2>4, <3>1
      <3>2. CASE new[r] = v[r]
        <4>1. KeptBy(c, v[r].key)'
          BY <2>1, <2>4, <3>2
        <4> QED BY <3>2, <4>1 DEF KeptBy
      <3> QED BY <3>1, <3>2
    <2> QED BY <1>3, <2>2, <2>4 DEF Bound
  <1>14. PICK rows : rows = Append(call[c].rows, row)
    OBVIOUS
  <1>15. Len(rows) = n + 1 /\ rows[n + 1] = row /\ \A i \in 1..n : rows[i] = call[c].rows[i]
    BY <1>6, <1>7, <1>14
  <1>16. \A i \in 0..(n + 1) : Bound(c, g[i])'
    <2>1. ASSUME NEW i \in 0..(n + 1) PROVE Bound(c, g[i])'
      <3>1. CASE i = n + 1
        BY <1>9, <1>13, <3>1 DEF Bound
      <3>2. CASE i # n + 1
        <4>1. i \in 0..n
          BY <1>6, <3>2
        <4> QED BY <1>9, <1>12, <4>1 DEF Bound
      <3> QED BY <3>1, <3>2
    <2> QED BY <2>1
  <1>17. ASSUME NEW i \in 1..(n + 1) PROVE Stage(c, i, g[i - 1], g[i])'
    <2>1. CASE i = n + 1
      <3>1. g[i - 1] = v /\ g[i] = new
        BY <1>6, <1>9, <2>1
      <3>2. call'[c].rows[i] = row /\ work'.ops[c][i] = op /\ lock'[row] = c
        BY <1>3, <1>4, <1>7, <1>10, <1>14, <1>15, <2>1
      <3> QED BY <1>3, <3>1, <3>2 DEF Stage
    <2>2. CASE i # n + 1
      <3>1. i \in 1..n /\ i - 1 \in 0..n /\ i \in 0..n
        BY <1>6, <2>2
      <3>2. g[i - 1] = f[i - 1] /\ g[i] = f[i]
        BY <1>9, <3>1
      <3>3. call'[c].rows[i] = call[c].rows[i]
        BY <1>3, <1>14, <1>15, <3>1
      <3>4. Stage(c, i, f[i - 1], f[i])
        BY <1>6, <3>1
      <3> QED BY <1>4, <1>10, <3>2, <3>3, <3>4 DEF Stage
    <2> QED BY <2>1, <2>2
  <1>18. Path(c, g)'
    <2>1. Count(c)' = n + 1 /\ n + 1 \in Nat /\ Len(call'[c].rows) = n + 1
      BY <1>3, <1>5, <1>6, <1>14, <1>15
    <2>2. g[0] = table'
      BY <1>3, <1>6, <1>9
    <2> QED BY <1>4, <1>7, <1>9, <1>11, <1>16, <1>17, <2>1, <2>2 DEF Path
  <1> QED BY <1>18

\* The operations of a transaction lead, one after the other, from the committed
\* table to the one it sees.
LEMMA PathsStay ==
  ASSUME TypeOK, CallInv, ServerInv, SameKeys, PathInv, NEW c \in Calls, Step(c) \/ Deadlock(c)
  PROVE  PathInv'
  <1>1. work' = work /\ call[c].pc # "done" /\ \A d \in Calls : d # c => call'[d] = call[d]
    BY Steady
  <1>2. SUFFICES ASSUME Interactive, NEW d \in Calls, call'[d].pc # "done"
                 PROVE  \E g : Path(d, g)'
    BY <1>1 DEF PathInv, Interactive
  <1>3. SameKey(Op(c))
    BY <1>1, Running, OpType DEF SameKeys
  <1>4. CASE d # c
    <2>1. PICK f : Path(d, f)
      BY <1>1, <1>2, <1>4 DEF PathInv
    <2> QED BY <1>2, <1>3, <1>4, <2>1, PathStays
  <1>5. CASE d = c
    <2>1. PICK f : Path(c, f)
      BY <1>1, <1>2 DEF PathInv
    <2>2. CASE Proceeds(c)
      <3>1. Path(c, f)'
        BY <1>2, <2>1, <2>2, PathGrows
      <3> QED BY <1>5, <3>1
    <2>3. CASE WritesOne(c)
      BY <1>2, <1>5, <2>1, <2>3, PathExtends
    <2>4. CASE Restarts(c)
      BY <1>5, <2>4, PathRestarts
    <2>5. ~Publishes(c) /\ ~FailsOnce(c)
      BY <1>2, <1>5 DEF Publishes, FailsOnce
    <2> QED BY <1>2, <1>3, <2>2, <2>3, <2>4, <2>5, TransactionSteps
  <1> QED BY <1>4, <1>5

-----------------------------------------------------------------------------
(***************************************************************************)
(* Operations in order.                                                    *)
(***************************************************************************)

LEMMA OnePast ==
  ASSUME NEW S, NEW q \in Seq(S), NEW i \in 1..Len(q)
  PROVE  Append(SubSeq(q, 1, i - 1), q[i]) = SubSeq(q, 1, i)
  <1>1. PICK a, b : a = Append(SubSeq(q, 1, i - 1), q[i]) /\ b = SubSeq(q, 1, i)
    OBVIOUS
  <1>2. /\ a \in Seq(S) /\ Len(a) = i /\ b \in Seq(S) /\ Len(b) = i
        /\ \A j \in 1..i : a[j] = q[j] /\ b[j] = q[j]
    BY <1>1
  <1>3. a = b
    BY <1>2
  <1> QED BY <1>1, <1>3

\* A chain of effects is what the operations come to, alone and in order.
LEMMA RunsInOrder ==
  ASSUME NEW t, NEW ops, NEW n \in Nat, Len(ops) = n, NEW rows \in Seq(Rows), Len(rows) = n,
         NEW f, f[0] = t, \A i \in 0..n : f[i] \in Tables /\ UniqueKeys(f[i]),
         \A i \in 1..n : ops[i] \in Ops /\ Effect(f[i - 1], ops[i], f[i], rows[i])
  PROVE  Atomic!InOrder(t, ops) = [table |-> f[n], fate |-> "ok", rows |-> rows]
  <1> DEFINE F == [i \in 0..n |-> [table |-> f[i], fate |-> "ok", rows |-> SubSeq(rows, 1, i)]]
             First == [table |-> t, fate |-> "ok", rows |-> <<>>]
             Order(g) == g = [i \in 0..n |-> IF i = 0 THEN First ELSE Atomic!Then(g[i - 1], ops[i])]
             G == CHOOSE g : Order(g)
  <1>1. /\ F = [i \in 0..n |-> F[i]]
        /\ \A i \in 0..n : F[i] = [table |-> f[i], fate |-> "ok", rows |-> SubSeq(rows, 1, i)]
    OBVIOUS
  <1>2. F[0] = First
    <2>1. SubSeq(rows, 1, 0) = <<>>
      OBVIOUS
    <2> QED BY <1>1, <2>1
  <1>3. ASSUME NEW i \in 1..n PROVE F[i] = Atomic!Then(F[i - 1], ops[i])
    <2>1. i - 1 \in 0..n /\ i \in 0..n
      OBVIOUS
    <2>2. PICK u, op, s : u = f[i - 1] /\ op = ops[i] /\ s = Atomic!Meaning(u, op)
      OBVIOUS
    <2>3. s.fate = "ok" /\ s.table = f[i] /\ s.row = rows[i]
      BY <2>1, <2>2, EffectIsMeaning
    <2>4. PICK before : before = F[i - 1]
      OBVIOUS
    <2>5. before = [table |-> u, fate |-> "ok", rows |-> SubSeq(rows, 1, i - 1)]
      BY <1>1, <2>1, <2>2, <2>4
    <2>6. Atomic!Then(before, op) = [table |-> s.table, fate |-> s.fate,
                                     rows |-> Append(SubSeq(rows, 1, i - 1), s.row)]
      <3>1. before.table = u /\ before.fate = "ok" /\ before.rows = SubSeq(rows, 1, i - 1)
        BY <2>5
      <3>2. Atomic!Then(before, op) = [table |-> Atomic!Meaning(before.table, op).table,
                                       fate |-> Atomic!Meaning(before.table, op).fate,
                                       rows |-> Append(before.rows, Atomic!Meaning(before.table, op).row)]
        BY <3>1 DEF Atomic!Then
      <3> QED BY <2>2, <3>1, <3>2
    <2>7. Append(SubSeq(rows, 1, i - 1), rows[i]) = SubSeq(rows, 1, i)
      BY OnePast
    <2> QED BY <1>1, <2>1, <2>2, <2>3, <2>4, <2>6, <2>7
  <1> HIDE DEF F, First
  <1>4. Order(F)
    <2>1. ASSUME NEW i \in 0..n PROVE F[i] = IF i = 0 THEN First ELSE Atomic!Then(F[i - 1], ops[i])
      BY <1>2, <1>3
    <2> QED BY <1>1, <2>1
  <1>5. Order(G)
    <2> HIDE DEF Order
    <2> QED BY <1>4
  <1>6. Atomic!InOrder(t, ops) = G[n]
    BY DEF Atomic!InOrder, First
  <1> HIDE DEF G
  <1>7. \A i \in 0..n : G[i] = IF i = 0 THEN First ELSE Atomic!Then(G[i - 1], ops[i])
    BY <1>5
  <1> HIDE DEF Order
  <1> DEFINE S == {i \in 0..n : G[i] = F[i]}
  <1>8. 0 \in S
    BY <1>2, <1>7
  <1>9. ASSUME NEW m \in 0..n, m \in S, m # n PROVE m + 1 \in S
    <2>1. m + 1 \in 1..n /\ m + 1 \in 0..n /\ (m + 1) - 1 = m /\ m + 1 # 0
      BY <1>9
    <2>2. G[m + 1] = Atomic!Then(G[m], ops[m + 1]) /\ F[m + 1] = Atomic!Then(F[m], ops[m + 1])
      BY <1>3, <1>7, <2>1
    <2> QED BY <1>9, <2>1, <2>2
  <1>10. n \in S
    <2> HIDE DEF S
    <2>1. 0..n \subseteq S
      BY <1>8, <1>9, Induction
    <2> QED BY <2>1
  <1>11. SubSeq(rows, 1, n) = rows
    OBVIOUS
  <1> QED BY <1>1, <1>6, <1>10, <1>11

-----------------------------------------------------------------------------
(***************************************************************************)
(* The operations of a batch.                                              *)
(***************************************************************************)

\* What an operation's guards have made sure of.
LEMMA GuardsSay ==
  ASSUME NEW t \in Tables, NEW op \in Ops, NEW p \in Plans, ~Interactive, Planned(op, p),
         \A g \in Range(Guards(op, p)) : GuardHolds(t, g)
  PROVE  /\ p.arm \in {"delete", "folded"} /\ op.kind # "create" /\ op.kind # "upsert" =>
              Selected(t, op) # {} /\ (op.kind = "delete" \/ Folded(op))
         /\ p.arm \in {"update", "skip"} =>
              p.row \in Selected(t, op) /\ ByFlag(t[p.row].flag, op, p) /\ ~Folded(op)
  <1>1. /\ p.row \in Rows \cup {NoRow} /\ op.kind \in {"create", "upsert", "update", "delete"}
        /\ op.conditional \in BOOLEAN
    BY DEF Plans, Ops
  <1>2. PICK q : q = Guards(op, p)
    OBVIOUS
  <1>3. ASSUME NEW g, q = <<g>> PROVE GuardHolds(t, g)
    BY <1>2, <1>3 DEF Range
  <1>4. ASSUME NEW g, NEW h, q = <<g, h>> PROVE GuardHolds(t, g) /\ GuardHolds(t, h)
    BY <1>2, <1>4 DEF Range
  <1>5. ASSUME NEW flagged \in BOOLEAN, NEW expected \in BOOLEAN, NEW rows, NEW why, NEW raceable,
               GuardHolds(t, Guard(op, rows, flagged, expected, why, raceable))
        PROVE  expected = (\E r \in Selected(t, op) \cap rows : flagged => t[r].flag)
    BY <1>5 DEF GuardHolds, Guard
  <1>6. Locates(op) => ~Folded(op) /\ PlanFits(op, p)
    BY DEF Locates, Planned
  <1>7. ~Locates(op) => /\ p.arm = (IF op.kind = "create" THEN "insert" ELSE "folded")
                        /\ op.kind = "create" \/ Folded(op)
    BY DEF Locates, Planned, Unlocated
  <1>8. /\ p.arm = "update" => op.kind \in {"upsert", "update"} /\ ~Folded(op) /\ p.row \in Rows
        /\ p.arm = "delete" => op.kind = "delete"
        /\ p.arm = "skip"   => op.kind = "upsert" /\ op.conditional /\ ~Folded(op) /\ p.row \in Rows
        /\ p.arm = "folded" => Folded(op)
    BY <1>6, <1>7 DEF PlanFits
  <1>9. CASE p.arm \in {"delete", "folded"} /\ op.kind # "create" /\ op.kind # "upsert"
    <2>1. op.kind = "delete" \/ (op.kind = "update" /\ Folded(op))
      BY <1>1, <1>8, <1>9
    <2>2. q = <<Guard(op, Rows, FALSE, TRUE, "notFound", FALSE)>>
      BY <1>2, <1>9, <2>1 DEF Guards
    <2>3. GuardHolds(t, Guard(op, Rows, FALSE, TRUE, "notFound", FALSE))
      BY <1>3, <2>2
    <2>4. \E r \in Selected(t, op) \cap Rows : TRUE
      BY <1>5, <2>3
    <2> QED BY <1>9, <2>1, <2>4
  <1>10. CASE p.arm = "update" /\ ~(op.kind = "upsert" /\ op.conditional)
    <2>1. q = <<Found(op, p)>>
      BY <1>2, <1>8, <1>10 DEF Guards
    <2>2. GuardHolds(t, Guard(op, {p.row}, FALSE, TRUE, "notFound", FALSE))
      BY <1>3, <2>1 DEF Found
    <2>3. \E r \in Selected(t, op) \cap {p.row} : TRUE
      BY <1>5, <2>2
    <2> QED BY <1>8, <1>10, <2>3 DEF ByFlag
  <1>11. CASE p.arm = "update" /\ op.kind = "upsert" /\ op.conditional
    <2>1. q = <<Guard(op, {p.row}, TRUE, TRUE, "premise", FALSE)>>
      BY <1>2, <1>8, <1>11 DEF Guards
    <2>2. GuardHolds(t, Guard(op, {p.row}, TRUE, TRUE, "premise", FALSE))
      BY <1>3, <2>1
    <2>3. \E r \in Selected(t, op) \cap {p.row} : t[r].flag
      BY <1>5, <2>2
    <2> QED BY <1>8, <1>11, <2>3 DEF ByFlag
  <1>12. CASE p.arm = "skip"
    <2>1. q = <<Found(op, p), Guard(op, {p.row}, TRUE, FALSE, "premise", TRUE)>>
      BY <1>2, <1>8, <1>12 DEF Guards
    <2>2. /\ GuardHolds(t, Guard(op, {p.row}, FALSE, TRUE, "notFound", FALSE))
          /\ GuardHolds(t, Guard(op, {p.row}, TRUE, FALSE, "premise", TRUE))
      BY <1>4, <2>1 DEF Found
    <2>3. /\ \E r \in Selected(t, op) \cap {p.row} : TRUE
          /\ ~\E r \in Selected(t, op) \cap {p.row} : t[r].flag
      <3>1. TRUE = (\E r \in Selected(t, op) \cap {p.row} : FALSE => t[r].flag)
        BY <1>5, <2>2
      <3>2. FALSE = (\E r \in Selected(t, op) \cap {p.row} : TRUE => t[r].flag)
        BY <1>5, <2>2
      <3> QED BY <3>1, <3>2
    <2> QED BY <1>8, <1>12, <2>3 DEF ByFlag
  <1> QED BY <1>9, <1>10, <1>11, <1>12

\* So it does what it means.
LEMMA EntryMeans ==
  ASSUME NEW t \in Tables, NEW op \in Ops, NEW p \in Plans, ~Interactive, Planned(op, p),
         SameKey(op), op.kind \in {"create", "upsert"} => op.row \in Rows,
         \A g \in Range(Guards(op, p)) : GuardHolds(t, g),
         NEW done, done = Statement(t, op, p), done.fate = "ok"
  PROVE  Effect(t, op, done.table, done.row) /\ done.row \in Rows
  <1>1. /\ p.row \in Rows \cup {NoRow} /\ op.kind \in {"create", "upsert", "update", "delete"}
    BY DEF Plans, Ops
  <1>2. Given(op, p)
    BY DEF Planned, Given
  <1>3. /\ p.arm \in {"delete", "folded"} /\ op.kind # "create" /\ op.kind # "upsert" =>
              Selected(t, op) # {} /\ (op.kind = "delete" \/ Folded(op))
        /\ p.arm \in {"update", "skip"} =>
              p.row \in Selected(t, op) /\ ByFlag(t[p.row].flag, op, p) /\ ~Folded(op)
    BY GuardsSay
  <1>4. /\ p.arm = "update" => op.kind \in {"upsert", "update"}
        /\ p.arm = "delete" => op.kind = "delete"
        /\ p.arm = "skip"   => op.kind = "upsert" /\ op.conditional
        /\ p.arm = "insert" => op.kind \in {"create", "upsert"}
        /\ p.arm = "folded" => op.kind # "create"
        /\ p.arm = "folded" /\ op.kind = "upsert" => ~op.filter /\ ~op.conditional
    <2>1. CASE Locates(op)
      BY <2>1 DEF Planned, PlanFits
    <2>2. CASE ~Locates(op)
      <3>1. p.arm = (IF op.kind = "create" THEN "insert" ELSE "folded")
        BY <2>2 DEF Planned, Unlocated
      <3>2. op.kind = "upsert" => ~op.filter /\ ~op.conditional
        BY <2>2 DEF Locates, Folded
      <3> QED BY <3>1, <3>2
    <2> QED BY <2>1, <2>2
  <1>5. p.arm \in {"update", "delete"} \/ (p.arm = "folded" /\ op.kind # "upsert") =>
          Hit(t, op, p) # {} /\ Hit(t, op, p) \subseteq Selected(t, op)
                             /\ (p.arm = "update" => Hit(t, op, p) = {p.row})
    <2>1. CASE p.arm = "update"
      <3>1. ~ByWhere(op)
        BY <1>3, <1>4, <2>1 DEF ByWhere
      <3>2. Hit(t, op, p) = {r \in Rows : r = p.row /\ t[r] # Absent}
        BY <2>1, <3>1 DEF Hit, Targets
      <3> QED BY <1>3, <2>1, <3>2 DEF Selected, Holder
    <2>2. CASE p.arm \in {"delete", "folded"} /\ op.kind # "upsert"
      <3>1. ByWhere(op) /\ Selected(t, op) # {}
        BY <1>3, <1>4, <2>2 DEF ByWhere
      <3>2. Hit(t, op, p) = Selected(t, op)
        BY <2>2, <3>1 DEF Hit, Targets
      <3> QED BY <2>2, <3>1, <3>2
    <2> QED BY <1>4, <2>1, <2>2
  <1>6. p.arm = "folded" /\ op.kind = "upsert" => Hit(t, op, p) \subseteq Selected(t, op)
    BY <1>4 DEF Hit, Selected
  <1>7. \/ done.row = NoRow /\ Hit(t, op, p) = {} /\ p.arm \in {"folded", "update", "delete"}
           /\ (p.arm = "folded" => op.kind # "upsert")
        \/ done.table = t /\ done.row = p.row /\ p.arm = "skip"
        \/ /\ Inserts(t, op, done)
           /\ p.arm = "insert" \/ (p.arm = "folded" /\ Holder(t, op.where) = {})
        \/ \E r \in Hit(t, op, p) : Updates(t, op, r, done) /\ p.arm \in {"update", "folded"}
        \/ \E r \in Hit(t, op, p) : Deletes(t, op, r, done) /\ p.arm \in {"delete", "folded"}
    BY <1>2, StatementCases
  <1>8. CASE done.table = t /\ done.row = p.row /\ p.arm = "skip"
    BY <1>3, <1>4, <1>8 DEF Effect, ByFlag, Selected, Holder
  <1>9. CASE Inserts(t, op, done)
    <2>1. /\ op.kind \in {"create", "upsert"} /\ op.row \in Rows
          /\ t[op.row] = Absent /\ Holder(t, op.create) = {}
          /\ done.table = [t EXCEPT ![op.row] = [key |-> op.create, flag |-> op.flag]]
          /\ done.row = op.row
      BY <1>9 DEF Inserts
    <2>2. op.kind = "upsert" => Selected(t, op) = {}
      BY <2>1 DEF SameKey, Selected
    <2> QED BY <2>1, <2>2 DEF Effect
  <1>10. ASSUME NEW r \in Hit(t, op, p), Updates(t, op, r, done), p.arm \in {"update", "folded"}
         PROVE  Effect(t, op, done.table, done.row) /\ done.row \in Rows
    <2>1. /\ op.kind \in {"upsert", "update"} /\ r \in Rows
          /\ Holder(t, op.to) \ {r} = {}
          /\ done.table = [t EXCEPT ![r] = [key |-> op.to, flag |-> op.flag]]
          /\ done.row = r
      BY <1>10 DEF Updates
    <2>2. r \in Selected(t, op)
      BY <1>5, <1>6, <1>10
    <2>3. op.kind = "upsert" /\ op.conditional => t[r].flag
      BY <1>3, <1>4, <1>5, <1>10 DEF ByFlag
    <2> QED BY <2>1, <2>2, <2>3 DEF Effect
  <1>11. ASSUME NEW r \in Hit(t, op, p), Deletes(t, op, r, done), p.arm \in {"delete", "folded"}
         PROVE  Effect(t, op, done.table, done.row) /\ done.row \in Rows
    <2>1. op.kind = "delete" /\ r \in Rows /\ done.table = [t EXCEPT ![r] = Absent] /\ done.row = r
      BY <1>11 DEF Deletes
    <2>2. r \in Selected(t, op)
      BY <1>5, <1>11, <2>1
    <2> QED BY <2>1, <2>2 DEF Effect
  <1> QED BY <1>5, <1>7, <1>8, <1>9, <1>10, <1>11

\* A batch that goes through does what its operations mean, alone and in order.
LEMMA BatchInOrder ==
  ASSUME TypeOK, CallInv, ServerInv, SameKeys, NEW c \in Calls, call[c].pc = "batch",
         NEW run, run = BatchRun(table, work.ops[c], call[c].plans), run.fate = "ok"
  PROVE  Atomic!InOrder(table, work.ops[c]) = [table |-> run.table, fate |-> "ok", rows |-> run.rows]
  <1>1. PICK ops, plans, n : ops = work.ops[c] /\ plans = call[c].plans /\ n = Len(ops)
    OBVIOUS
  <1>2. PICK f : Runs(f, table, ops, plans)
    BY <1>1, OpType, RunFacts
  <1>3. /\ n \in Nat
        /\ \A i \in 1..n : ops[i] \in Ops /\ SameKey(ops[i])
                           /\ (ops[i].kind \in {"create", "upsert"} => ops[i].row \in Rows)
    BY <1>1, OpType DEF SameKeys
  <1>4. /\ ~Interactive /\ Len(plans) = n /\ \A i \in 1..n : Planned(ops[i], plans[i])
        /\ \A i \in 1..n : plans[i] \in Plans
    <2>1. ~Interactive /\ Len(plans) = n /\ \A i \in 1..n : Planned(ops[i], plans[i])
      BY <1>1 DEF CallInv, Sane
    <2>2. plans \in Seq(Plans)
      BY <1>1, CallType
    <2> QED BY <1>3, <2>1, <2>2
  <1>5. table \in Tables /\ UniqueKeys(table)
    BY DEF TypeOK, ServerInv, Server, UniqueViews
  <1>6. f[0] = Started(table) /\ f[n] = run /\ \A i \in 1..n : f[i] = Entry(f[i - 1], ops[i], plans[i])
    BY <1>1, <1>2 DEF Runs
  <1> DEFINE Fair(i) == /\ f[i] \in Outcomes /\ UniqueKeys(f[i].table)
                        /\ f[i].fate = "ok" =>
                             /\ Len(f[i].rows) = i
                             /\ \A j \in 1..i : /\ f[j - 1].fate = "ok" /\ f[i].rows[j] \in Rows
                                                /\ Effect(f[j - 1].table, ops[j], f[j].table, f[i].rows[j])
             S == {i \in 0..n : \A j \in 0..i : Fair(j)}
  <1>7. 0 \in S
    <2>1. f[0] \in Outcomes /\ f[0].table = table /\ f[0].rows = <<>>
      BY <1>5, <1>6 DEF Started, Outcomes
    <2>2. Fair(0)
      BY <1>5, <2>1
    <2> QED BY <1>3, <2>2
  <1>8. ASSUME NEW m \in 0..n, m \in S, m # n PROVE m + 1 \in S
    <2>1. m + 1 \in 1..n /\ m + 1 \in 0..n /\ (m + 1) - 1 = m /\ m \in 0..m
      BY <1>3, <1>8
    <2>2. PICK before, after, op, p, next :
            /\ before = f[m] /\ after = f[m + 1] /\ op = ops[m + 1] /\ p = plans[m + 1]
            /\ next = Statement(before.table, op, p)
      OBVIOUS
    <2>3. /\ after = Entry(before, op, p) /\ op \in Ops /\ p \in Plans /\ Planned(op, p) /\ SameKey(op)
          /\ op.kind \in {"create", "upsert"} => op.row \in Rows
      BY <1>3, <1>4, <1>6, <2>1, <2>2
    <2>4. /\ before \in Outcomes /\ UniqueKeys(before.table)
          /\ before.fate = "ok" =>
               /\ Len(before.rows) = m
               /\ \A j \in 1..m : /\ f[j - 1].fate = "ok" /\ before.rows[j] \in Rows
                                  /\ Effect(f[j - 1].table, ops[j], f[j].table, before.rows[j])
      BY <1>8, <2>1, <2>2
    <2>5. before.table \in Tables /\ before.rows \in Seq(Rows \cup {NoRow}) /\ before.culprit \in Seq(Premises)
      BY <2>4 DEF Outcomes
    <2>6. Given(op, p)
      BY <2>3 DEF Planned, Given
    <2>7. /\ next.table \in Tables /\ next.row \in Rows \cup {NoRow} /\ UniqueKeys(next.table)
      BY <2>2, <2>3, <2>4, <2>5, <2>6, StatementType
    <2>8. \/ before.fate # "ok" /\ after = before
          \/ \E g \in Range(Guards(op, p)) :
               after = [table |-> before.table, rows |-> before.rows, fate |-> "guard", culprit |-> <<g>>]
          \/ after = [table |-> before.table, rows |-> before.rows, fate |-> "conflict",
                      culprit |-> before.culprit]
          \/ /\ before.fate = "ok" /\ next.fate = "ok"
             /\ \A g \in Range(Guards(op, p)) : GuardHolds(before.table, g)
             /\ after = [table |-> next.table, rows |-> Append(before.rows, next.row), fate |-> "ok",
                         culprit |-> before.culprit]
      <3>1. /\ before \in Outcomes /\ next = Statement(before.table, op, p) /\ after = Entry(before, op, p)
            /\ op.kind \in {"create", "upsert"} => op.row \in Rows
        BY <2>2, <2>3, <2>4
      <3>2. \/ before.fate # "ok" /\ after = before
            \/ \E g \in Range(Guards(op, p)) :
                 /\ before.fate = "ok" /\ ~GuardHolds(before.table, g)
                 /\ after = [table |-> before.table, rows |-> before.rows, fate |-> "guard", culprit |-> <<g>>]
            \/ /\ before.fate = "ok" /\ next.fate = "conflict"
               /\ \A g \in Range(Guards(op, p)) : GuardHolds(before.table, g)
               /\ after = [table |-> before.table, rows |-> before.rows, fate |-> "conflict",
                           culprit |-> before.culprit]
            \/ /\ before.fate = "ok" /\ next.fate = "ok"
               /\ \A g \in Range(Guards(op, p)) : GuardHolds(before.table, g)
               /\ after = [table |-> next.table, rows |-> Append(before.rows, next.row), fate |-> "ok",
                           culprit |-> before.culprit]
        BY <1>4, <2>3, <3>1, EntryCases
      <3> QED BY <3>2
    <2>9. Range(Guards(op, p)) \subseteq Premises
      <3>1. Guards(op, p) \in Seq(Premises)
        BY <1>4, <2>3, <2>6, GuardsType DEF Planned
      <3> QED BY <3>1 DEF Range
    <2>10. Fair(m + 1)
      <3>1. CASE before.fate # "ok" /\ after = before
        BY <2>2, <2>4, <3>1
      <3>2. ASSUME NEW g \in Range(Guards(op, p)),
                   after = [table |-> before.table, rows |-> before.rows, fate |-> "guard",
                            culprit |-> <<g>>]
            PROVE  Fair(m + 1)
        <4>1. after \in Outcomes /\ after.table = before.table /\ after.fate # "ok"
          BY <2>5, <2>9, <3>2 DEF Outcomes
        <4> QED BY <2>2, <2>4, <4>1
      <3>3. CASE after = [table |-> before.table, rows |-> before.rows, fate |-> "conflict",
                          culprit |-> before.culprit]
        <4>1. after \in Outcomes /\ after.table = before.table /\ after.fate # "ok"
          BY <2>5, <3>3 DEF Outcomes
        <4> QED BY <2>2, <2>4, <4>1
      <3>4. CASE /\ before.fate = "ok" /\ next.fate = "ok"
                 /\ \A g \in Range(Guards(op, p)) : GuardHolds(before.table, g)
                 /\ after = [table |-> next.table, rows |-> Append(before.rows, next.row), fate |-> "ok",
                             culprit |-> before.culprit]
        <4>1. Effect(before.table, op, next.table, next.row) /\ next.row \in Rows
          BY <1>4, <2>2, <2>3, <2>5, <3>4, EntryMeans
        <4>2. PICK rows : rows = Append(before.rows, next.row)
          OBVIOUS
        <4>3. /\ rows \in Seq(Rows \cup {NoRow}) /\ Len(rows) = m + 1 /\ rows[m + 1] = next.row
              /\ \A j \in 1..m : rows[j] = before.rows[j]
          BY <2>4, <2>5, <2>7, <3>4, <4>2
        <4>4. after \in Outcomes /\ after.table = next.table /\ after.rows = rows
          BY <2>5, <2>7, <3>4, <4>2, <4>3 DEF Outcomes
        <4>5. ASSUME NEW j \in 1..(m + 1)
              PROVE  /\ f[j - 1].fate = "ok" /\ rows[j] \in Rows
                     /\ Effect(f[j - 1].table, ops[j], f[j].table, rows[j])
          <5>1. CASE j = m + 1
            BY <2>1, <2>2, <3>4, <4>1, <4>3, <4>4, <5>1
          <5>2. CASE j # m + 1
            <6>1. j \in 1..m
              BY <2>1, <5>2
            <6> QED BY <2>4, <3>4, <4>3, <6>1
          <5> QED BY <5>1, <5>2
        <4> QED BY <2>2, <2>7, <4>3, <4>4, <4>5
      <3> QED BY <2>8, <3>1, <3>2, <3>3, <3>4
    <2> HIDE DEF Fair
    <2>11. ASSUME NEW j \in 0..(m + 1) PROVE Fair(j)
      <3>1. j \in 0..m \/ j = m + 1
        BY <2>1
      <3> QED BY <1>8, <2>10, <3>1
    <2> QED BY <2>1, <2>11
  <1>9. n \in S
    <2> HIDE DEF S
    <2>1. 0..n \subseteq S
      BY <1>3, <1>7, <1>8, Induction
    <2> QED BY <1>3, <2>1
  <1>10. PICK h : h = [i \in 0..n |-> f[i].table]
    OBVIOUS
  <1>11. \A i \in 0..n : h[i] = f[i].table /\ h[i] \in Tables /\ UniqueKeys(h[i])
    BY <1>9, <1>10 DEF Outcomes
  <1>12. PICK rows : rows = run.rows
    OBVIOUS
  <1>13. /\ n \in 0..n /\ Fair(n)
    BY <1>3, <1>9
  <1>14. /\ Len(rows) = n /\ rows \in Seq(Rows \cup {NoRow})
         /\ \A j \in 1..n : rows[j] \in Rows /\ Effect(f[j - 1].table, ops[j], f[j].table, rows[j])
    BY <1>6, <1>12, <1>13 DEF Outcomes
  <1>15. rows \in Seq(Rows)
    BY <1>14
  <1>16. h[0] = table
    BY <1>3, <1>6, <1>11 DEF Started
  <1>17. \A i \in 1..n : ops[i] \in Ops /\ Effect(h[i - 1], ops[i], h[i], rows[i])
    <2>1. ASSUME NEW i \in 1..n PROVE ops[i] \in Ops /\ Effect(h[i - 1], ops[i], h[i], rows[i])
      <3>1. i - 1 \in 0..n /\ i \in 0..n
        BY <1>3
      <3> QED BY <1>3, <1>11, <1>14, <3>1
    <2> QED BY <2>1
  <1> HIDE DEF Fair, S
  <1>18. Atomic!InOrder(table, ops) = [table |-> h[n], fate |-> "ok", rows |-> rows]
    <2>1. n \in Nat /\ Len(ops) = n /\ rows \in Seq(Rows) /\ Len(rows) = n /\ h[0] = table
      BY <1>1, <1>3, <1>14, <1>15, <1>16
    <2>2. \A i \in 0..n : h[i] \in Tables /\ UniqueKeys(h[i])
      BY <1>11
    <2> QED BY <1>17, <2>1, <2>2, RunsInOrder, Z3
  <1> QED BY <1>1, <1>6, <1>11, <1>12, <1>13, <1>18

-----------------------------------------------------------------------------
(***************************************************************************)
(* The refinement.                                                         *)
(***************************************************************************)

\* What a call in state s has told its caller.
Said(s) == [status |-> IF s.outcome \in {"none", "ok"} THEN s.outcome ELSE "failed",
            rows |-> IF s.outcome = "ok" THEN s.rows ELSE <<>>]

LEMMA AnswerMoves ==
  ASSUME TypeOK, CallInv, ServerInv, NEW c \in Calls, Step(c) \/ Deadlock(c)
  PROVE  /\ Answered[c] = Atomic!Waiting /\ work' = work
         /\ Answered' = [Answered EXCEPT ![c] = Said(call'[c])]
  <1>1. /\ call[c].pc # "done" /\ work' = work /\ \A d \in Calls : d # c => call'[d] = call[d]
    BY Steady
  <1>2. call[c].outcome = "none"
    BY <1>1, Running
  <1>3. PICK a, b : a = Answered /\ b = Answered'
    OBVIOUS
  <1>4. /\ a = [d \in Calls |-> Said(call[d])] /\ b = [d \in Calls |-> Said(call'[d])]
    BY <1>3 DEF Answered, Said
  <1>5. b = [a EXCEPT ![c] = Said(call'[c])]
    BY <1>1, <1>4
  <1>6. Answered[c] = Atomic!Waiting
    BY <1>2, <1>3, <1>4 DEF Said, Atomic!Waiting
  <1> QED BY <1>1, <1>3, <1>5, <1>6

LEMMA StaysUnanswered ==
  ASSUME TypeOK, CallInv, ServerInv, NEW c \in Calls, Step(c) \/ Deadlock(c),
         table' = table, call'[c].outcome = "none"
  PROVE  UNCHANGED <<work, table, Answered>>
  <1>1. PICK a, b : a = Answered /\ b = Answered'
    OBVIOUS
  <1>2. /\ a[c] = Atomic!Waiting /\ work' = work /\ b = [a EXCEPT ![c] = Said(call'[c])]
    BY <1>1, AnswerMoves
  <1>3. Said(call'[c]) = Atomic!Waiting
    BY DEF Said, Atomic!Waiting
  <1>4. a = [d \in Calls |-> a[d]]
    BY <1>1 DEF Answered
  <1>5. a = b
    BY <1>2, <1>3, <1>4
  <1> QED BY <1>1, <1>2, <1>5

LEMMA FailsUndone ==
  ASSUME TypeOK, CallInv, ServerInv, NEW c \in Calls, Step(c) \/ Deadlock(c),
         table' = table, call'[c].outcome \in Reasons
  PROVE  Atomic!Fail(c)
  <1>1. Said(call'[c]) = Atomic!Failed
    BY DEF Said, Reasons, Atomic!Failed
  <1> QED BY <1>1, AnswerMoves DEF Atomic!Fail

LEMMA SucceedsAtOnce ==
  ASSUME TypeOK, CallInv, ServerInv, NEW c \in Calls, Step(c) \/ Deadlock(c),
         call'[c].outcome = "ok",
         Atomic!InOrder(table, work.ops[c]) = [table |-> table', fate |-> "ok", rows |-> call'[c].rows]
  PROVE  Atomic!Succeed(c)
  <1>1. Said(call'[c]) = [status |-> "ok", rows |-> call'[c].rows]
    BY DEF Said
  <1>2. PICK done : done = Atomic!InOrder(table, work.ops[c])
    OBVIOUS
  <1>3. done.fate = "ok" /\ done.table = table' /\ done.rows = call'[c].rows
    BY <1>2
  <1> QED BY <1>1, <1>2, <1>3, AnswerMoves DEF Atomic!Succeed

\* Throw, after a batch or one of its guards.
LEMMA ThrowUndoes ==
  ASSUME TypeOK, CallInv, ServerInv, NEW c \in Calls, Step(c) \/ Deadlock(c), table' = table,
         NEW why \in Reasons, NEW raceable \in BOOLEAN, Throw(c, why, raceable)
  PROVE  Atomic!Fail(c) \/ UNCHANGED <<work, table, Answered>>
  <1>1. call'[c].outcome = call[c].outcome \/ call'[c].outcome = why
    BY ThrowDoes, Moved
  <1>2. call[c].outcome = "none"
    BY StepRuns, Running
  <1> QED BY <1>1, <1>2, FailsUndone, StaysUnanswered

LEMMA TransactionImplements ==
  ASSUME TypeOK, CallInv, ServerInv, SameKeys, PathInv, Interactive, NEW c \in Calls,
         Step(c) \/ Deadlock(c)
  PROVE  Atomic!Succeed(c) \/ Atomic!Fail(c) \/ UNCHANGED <<work, table, Answered>>
  <1>1. /\ call[c].pc # "done" /\ call[c].outcome = "none" /\ Sane(c, call[c], draft[c])
        /\ call[c].at \in 1..Len(work.ops[c]) /\ Len(work.ops[c]) \in Nat
        /\ Op(c) = work.ops[c][call[c].at] /\ Op(c) \in Ops
    BY StepRuns, Running
  <1>2. SameKey(Op(c))
    BY <1>1, OpType DEF SameKeys
  <1>3. CASE Proceeds(c)
    BY <1>1, <1>3, StaysUnanswered DEF Proceeds
  <1>4. CASE Restarts(c)
    BY <1>1, <1>4, StaysUnanswered DEF Restarts
  <1>5. CASE FailsOnce(c)
    BY <1>5, FailsUndone DEF FailsOnce
  <1>6. CASE Publishes(c)
    <2>1. PICK f : Path(c, f)
      BY <1>1 DEF PathInv
    <2>2. PICK ops, rows, n : ops = work.ops[c] /\ rows = call[c].rows /\ n = Len(ops)
      OBVIOUS
    <2>3. Count(c) = n /\ n \in Nat
      BY <1>1, <1>6, <2>2 DEF Publishes, Count, Sane
    <2>4. /\ Len(rows) = n /\ f[0] = table /\ f[n] = table'
          /\ \A i \in 0..n : f[i] \in Tables /\ UniqueKeys(f[i])
          /\ \A i \in 1..n : rows[i] \in Rows /\ Effect(f[i - 1], ops[i], f[i], rows[i])
      BY <1>6, <2>1, <2>2, <2>3 DEF Path, Bound, Stage, Publishes
    <2>5. rows \in Seq(Rows \cup {NoRow})
      BY <2>2, CallType
    <2>6. rows \in Seq(Rows)
      BY <2>3, <2>4, <2>5
    <2>7. \A i \in 1..n : ops[i] \in Ops /\ Effect(f[i - 1], ops[i], f[i], rows[i])
      BY <2>2, <2>4, OpType
    <2>8. Atomic!InOrder(table, ops) = [table |-> f[n], fate |-> "ok", rows |-> rows]
      <3>1. Len(ops) = n /\ f[0] = table /\ \A i \in 0..n : f[i] \in Tables /\ UniqueKeys(f[i])
        BY <2>2, <2>4
      <3> QED BY <2>3, <2>4, <2>6, <2>7, <3>1, RunsInOrder
    <2> QED BY <1>6, <2>2, <2>4, <2>8, SucceedsAtOnce DEF Publishes
  <1>7. CASE WritesOne(c)
    <2>1. PICK v, op : v = View(c) /\ op = Op(c)
      OBVIOUS
    <2>2. PICK new \in Tables, row \in Rows : WritesTo(c, v, op, new, row)
      BY <1>7, <2>1 DEF WritesOne
    <2>3. CASE Direct(c)
      <3>1. Len(work.ops[c]) = 1 /\ call[c].at = 1
        BY <1>1, <2>3 DEF Direct, Single
      <3>2. call[c].pc \in {"scan", "write"}
        BY <2>2 DEF WritesTo
      <3>3. draft[c] = Untouched /\ call[c].rows = <<>>
        BY <1>1, <3>1, <3>2 DEF Sane
      <3>4. v = table /\ table \in Tables
        BY <2>1, <3>3 DEF View, Untouched, Tables, TypeOK
      <3>5. PICK rows : rows = <<row>>
        OBVIOUS
      <3>6. rows \in Seq(Rows) /\ Len(rows) = 1 /\ rows[1] = row
        BY <3>5
      <3>7. call'[c].rows = rows /\ UniqueKeys(new) /\ Effect(table, op, new, row)
        BY <2>2, <3>3, <3>4, <3>5 DEF WritesTo
      <3>8. CASE table' = new /\ call'[c].outcome = "ok"
        <4>1. PICK f : f = [i \in 0..1 |-> IF i = 0 THEN table ELSE new]
          OBVIOUS
        <4>2. f[0] = table /\ f[1] = new
          BY <4>1
        <4>3. UniqueKeys(table)
          BY DEF ServerInv, Server, UniqueViews
        <4>4. PICK ops, n : ops = work.ops[c] /\ n = 1
          OBVIOUS
        <4>5. /\ n \in Nat /\ Len(ops) = n /\ Len(rows) = n /\ ops[1] = op
          BY <1>1, <2>1, <3>1, <3>6, <4>4
        <4>6. \A i \in 0..n : f[i] \in Tables /\ UniqueKeys(f[i])
          BY <3>4, <3>7, <4>2, <4>3, <4>4
        <4>7. \A i \in 1..n : ops[i] \in Ops /\ Effect(f[i - 1], ops[i], f[i], rows[i])
          BY <1>1, <2>1, <3>6, <3>7, <4>2, <4>4, <4>5
        <4>8. Atomic!InOrder(table, ops) = [table |-> f[n], fate |-> "ok", rows |-> rows]
          BY <3>6, <4>2, <4>5, <4>6, <4>7, RunsInOrder
        <4> QED BY <3>7, <3>8, <4>2, <4>4, <4>8, SucceedsAtOnce
      <3>9. CASE table' = table /\ call'[c].outcome = call[c].outcome
        BY <1>1, <3>9, StaysUnanswered
      <3> QED BY <2>2, <3>8, <3>9 DEF WritesTo
    <2>4. CASE ~Direct(c)
      <3>1. table' = table /\ call'[c].outcome = call[c].outcome
        BY <2>2, <2>4 DEF WritesTo
      <3> QED BY <1>1, <3>1, StaysUnanswered
    <2> QED BY <2>3, <2>4
  <1> QED BY <1>2, <1>3, <1>4, <1>5, <1>6, <1>7, TransactionSteps

LEMMA BatchImplements ==
  ASSUME TypeOK, CallInv, ServerInv, SameKeys, ~Interactive, NEW c \in Calls,
         Step(c) \/ Deadlock(c)
  PROVE  Atomic!Succeed(c) \/ Atomic!Fail(c) \/ UNCHANGED <<work, table, Answered>>
  <1>1. PICK o : o = call[c]
    OBVIOUS
  <1>2. /\ o = [pc |-> o.pc, at |-> o.at, attempt |-> o.attempt, plans |-> o.plans,
                suspects |-> o.suspects, outcome |-> o.outcome, rows |-> o.rows]
        /\ call = [d \in Calls |-> call[d]]
        /\ o.pc # "done" /\ o.outcome = "none" /\ Sane(c, o, draft[c])
    BY <1>1, CallType, StepRuns, Running DEF TypeOK
  <1>3. CASE Begin(c)
    <2>1. call'[c] = [o EXCEPT !.pc = "scan"] /\ table' = table
      BY <1>1, <1>2, <1>3 DEF Begin
    <2>2. call'[c].outcome = "none"
      BY <1>2, <2>1
    <2> QED BY <2>1, <2>2, StaysUnanswered
  <1>4. CASE PlanBatch(c)
    <2>1. PICK p \in Plans :
            IF p.arm = "missing" THEN Reject(c, "notFound")
            ELSE call' = [call EXCEPT ![c].plans = Append(@, p),
                            ![c].pc = IF call[c].at = Len(work.ops[c]) THEN "batch" ELSE @,
                            ![c].at = IF call[c].at = Len(work.ops[c]) THEN @ ELSE @ + 1]
      BY <1>4, PlanBatchDoes
    <2>2. table' = table
      BY <1>4 DEF PlanBatch
    <2>3. CASE p.arm = "missing"
      <3>1. Throw(c, "notFound", FALSE)
        BY <2>1, <2>3, RejectThrows
      <3> QED BY <2>2, <3>1, ThrowUndoes DEF Reasons
    <2>4. CASE p.arm # "missing"
      <3>1. PICK plans, pc, at :
              /\ plans = Append(o.plans, p)
              /\ pc = IF o.at = Len(work.ops[c]) THEN "batch" ELSE o.pc
              /\ at = IF o.at = Len(work.ops[c]) THEN o.at ELSE o.at + 1
        OBVIOUS
      <3>2. call'[c] = [o EXCEPT !.plans = plans, !.pc = pc, !.at = at]
        BY <1>1, <1>2, <2>1, <2>4, <3>1
      <3>3. call'[c].outcome = "none"
        BY <1>2, <3>2
      <3> QED BY <2>2, <3>3, StaysUnanswered
    <2> QED BY <2>3, <2>4
  <1>5. CASE RunBatch(c)
    <2>1. PICK run : run = BatchRun(table, work.ops[c], call[c].plans)
      OBVIOUS
    <2>2. UniqueKeys(table)
      BY DEF ServerInv, Server, UniqueViews
    <2>3. /\ call[c].pc = "batch"
          /\ \/ /\ run.fate = "ok" /\ table' = run.table
                /\ call' = [call EXCEPT ![c].pc = "done", ![c].outcome = "ok", ![c].rows = run.rows]
             \/ /\ table' = table
                /\ Throw(c, "conflict", Pinned(work.ops[c][1], call[c].plans[1]))
             \/ /\ table' = table /\ \E g \in Guarding(c) : Throw(c, g.why, g.raceable)
             \/ /\ table' = table
                /\ call' = [call EXCEPT ![c].pc = "blame",
                              ![c].suspects = FlattenSeq([i \in DOMAIN work.ops[c] |->
                                                 Guards(work.ops[c][i], call[c].plans[i])])]
      <3>1. call[c].pc = "batch" /\ RunOutcome(c, run)
        BY <1>5, <2>1, <2>2, RunBatchDoes
      <3> QED BY <3>1 DEF RunOutcome
    <2>4. CASE /\ run.fate = "ok" /\ table' = run.table
               /\ call' = [call EXCEPT ![c].pc = "done", ![c].outcome = "ok", ![c].rows = run.rows]
      <3>1. PICK rows : rows = run.rows
        OBVIOUS
      <3>2. call'[c] = [o EXCEPT !.pc = "done", !.outcome = "ok", !.rows = rows]
        BY <1>1, <1>2, <2>4, <3>1
      <3>3. call'[c].outcome = "ok" /\ call'[c].rows = rows
        BY <1>2, <3>2
      <3>4. Atomic!InOrder(table, work.ops[c]) = [table |-> run.table, fate |-> "ok", rows |-> run.rows]
        BY <2>1, <2>3, <2>4, BatchInOrder
      <3> QED BY <2>4, <3>1, <3>3, <3>4, SucceedsAtOnce
    <2>5. CASE table' = table /\ Throw(c, "conflict", Pinned(work.ops[c][1], call[c].plans[1]))
      <3>1. PICK raceable : raceable = Pinned(work.ops[c][1], call[c].plans[1])
        OBVIOUS
      <3>2. raceable \in BOOLEAN /\ Throw(c, "conflict", raceable)
        BY <2>5, <3>1 DEF Pinned
      <3> QED BY <2>5, <3>2, ThrowUndoes DEF Reasons
    <2>6. ASSUME NEW g \in Guarding(c), table' = table, Throw(c, g.why, g.raceable)
          PROVE  Atomic!Fail(c) \/ UNCHANGED <<work, table, Answered>>
      <3>1. PICK why, raceable : why = g.why /\ raceable = g.raceable
        OBVIOUS
      <3>2. why \in Reasons /\ raceable \in BOOLEAN /\ Throw(c, why, raceable)
        BY <2>6, <3>1, PremiseType DEF Guarding
      <3> QED BY <2>6, <3>2, ThrowUndoes
    <2>7. CASE /\ table' = table
               /\ call' = [call EXCEPT ![c].pc = "blame",
                             ![c].suspects = FlattenSeq([i \in DOMAIN work.ops[c] |->
                                                Guards(work.ops[c][i], call[c].plans[i])])]
      <3>1. PICK q : q = FlattenSeq([i \in DOMAIN work.ops[c] |->
                                       Guards(work.ops[c][i], call[c].plans[i])])
        OBVIOUS
      <3>2. call'[c] = [o EXCEPT !.pc = "blame", !.suspects = q]
        BY <1>1, <1>2, <2>7, <3>1
      <3>3. call'[c].outcome = "none"
        BY <1>2, <3>2
      <3> QED BY <2>7, <3>3, StaysUnanswered
    <2> QED BY <2>3, <2>4, <2>5, <2>6, <2>7
  <1>6. CASE Blame(c)
    <2>1. /\ table' = table
          /\ \/ Throw(c, "unattributed", FALSE)
             \/ \E g \in Premises : Throw(c, g.why, g.raceable)
             \/ call' = [call EXCEPT ![c].suspects = Tail(@)]
      BY <1>6, BlameDoes
    <2>2. CASE Throw(c, "unattributed", FALSE)
      BY <2>1, <2>2, ThrowUndoes DEF Reasons
    <2>3. ASSUME NEW g \in Premises, Throw(c, g.why, g.raceable)
          PROVE  Atomic!Fail(c) \/ UNCHANGED <<work, table, Answered>>
      <3>1. PICK why, raceable : why = g.why /\ raceable = g.raceable
        OBVIOUS
      <3>2. why \in Reasons /\ raceable \in BOOLEAN /\ Throw(c, why, raceable)
        BY <2>3, <3>1, PremiseType
      <3> QED BY <2>1, <3>2, ThrowUndoes
    <2>4. CASE call' = [call EXCEPT ![c].suspects = Tail(@)]
      <3>1. PICK q : q = Tail(o.suspects)
        OBVIOUS
      <3>2. call'[c] = [o EXCEPT !.suspects = q]
        BY <1>1, <1>2, <2>4, <3>1
      <3>3. call'[c].outcome = "none"
        BY <1>2, <3>2
      <3> QED BY <2>1, <3>3, StaysUnanswered
    <2> QED BY <2>1, <2>2, <2>3, <2>4
  <1>7. ~Locate(c) /\ ~Wait(c) /\ ~Write(c) /\ ~Victim(c)
    BY DEF Locate, Wait, Write, Victim
  <1>8. ~Wake(c) /\ ~Commit(c)
    BY <1>1, <1>2 DEF Wake, Commit, Sane
  <1> QED BY <1>3, <1>4, <1>5, <1>6, <1>7, <1>8 DEF Step, Deadlock, Recorded

\* What is always so, when every upsert creates the key that it selects.
PathsInv == WriteInv /\ PathInv /\ SameKeys

LEMMA InitPaths ==
  ASSUME Init, SameKeys
  PROVE  PathsInv /\ Atomic!AtomicInit
  <1>1. WriteInv
    BY InitWrite
  <1>2. TypeOK /\ CallInv /\ ServerInv
    BY <1>1 DEF WriteInv
  <1>3. /\ work \in Workloads /\ table = work.table
        /\ draft = [c \in Calls |-> Untouched] /\ lock = [r \in Rows |-> Nobody]
        /\ \A c \in Calls : /\ call[c].pc \in {"idle", "done"} /\ call[c].at = 1
                            /\ call[c].rows = <<>> /\ call[c].outcome = "none"
    BY DEF Init
  <1>4. Answered = [c \in Calls |-> Atomic!Waiting]
    BY <1>3 DEF Answered, Atomic!Waiting
  <1>5. ASSUME NEW c \in Calls, call[c].pc # "done" PROVE \E f : Path(c, f)
    <2>1. table \in Tables /\ UniqueKeys(table) /\ Len(work.ops[c]) \in Nat
      BY <1>2, OpType DEF TypeOK, ServerInv, Server, UniqueViews
    <2>2. Count(c) = 0 /\ call[c].rows = <<>>
      BY <1>3, <1>5 DEF Count
    <2>3. draft[c] = Untouched /\ \A r \in Rows : lock[r] # c
      BY <1>3, MarkersAssumption
    <2> QED BY <2>1, <2>2, <2>3, PathStarts
  <1> QED BY <1>1, <1>3, <1>4, <1>5 DEF PathsInv, PathInv, Atomic!AtomicInit

LEMMA NextPaths ==
  ASSUME PathsInv, [Next]_vars
  PROVE  PathsInv' /\ [Atomic!AtomicNext]_Atomic!atomicVars
  <1>1. TypeOK /\ CallInv /\ ServerInv /\ WriteInv /\ PathInv /\ SameKeys
    BY DEF PathsInv, WriteInv
  <1>2. WriteInv'
    BY <1>1, NextWrite
  <1>3. CASE UNCHANGED vars
    <2>1. UNCHANGED <<work, table, draft, lock, gap, call>>
      BY <1>3 DEF vars
    <2>2. SameKeys'
      BY <1>1, <2>1 DEF SameKeys
    <2>3. \A c \in Calls : \A f : Path(c, f)' <=> Path(c, f)
      BY <2>1 DEF Path, Bound, Stage, Count, View, KeptBy, Owned
    <2>4. PathInv'
      BY <1>1, <2>1, <2>3 DEF PathInv, Interactive
    <2>5. Answered' = Answered
      BY <2>1 DEF Answered
    <2> QED BY <1>2, <2>1, <2>2, <2>4, <2>5 DEF PathsInv, Atomic!atomicVars
  <1>4. ASSUME NEW c \in Calls, Step(c) \/ Deadlock(c)
        PROVE  PathsInv' /\ [Atomic!AtomicNext]_Atomic!atomicVars
    <2>1. PathInv'
      BY <1>1, <1>4, PathsStay
    <2>2. work' = work
      BY <1>1, <1>4, Steady
    <2>3. SameKeys'
      BY <1>1, <2>2 DEF SameKeys
    <2>4. Atomic!Succeed(c) \/ Atomic!Fail(c) \/ UNCHANGED <<work, table, Answered>>
      BY <1>1, <1>4, TransactionImplements, BatchImplements
    <2> QED BY <1>2, <2>1, <2>3, <2>4 DEF PathsInv, Atomic!AtomicNext, Atomic!atomicVars
  <1> QED BY <1>3, <1>4 DEF Next

\* Each call takes effect at one moment, as if its operations had run then, alone and
\* in order, and answers with the rows that they touched; or it fails and has had no
\* effect.  So it is for every workload whose upserts create the key that they select,
\* on drivers with transactions, PostgreSQL's or InnoDB's, and on batch-only drivers.
THEOREM ImplementsAtomicWritesHolds == Spec /\ SameKeys => ImplementsAtomicWrites
  <1>1. Init /\ SameKeys => PathsInv /\ Atomic!AtomicInit
    BY InitPaths
  <1>2. PathsInv /\ [Next]_vars => PathsInv' /\ [Atomic!AtomicNext]_Atomic!atomicVars
    BY NextPaths
  <1> QED BY <1>1, <1>2, PTL DEF Spec, ImplementsAtomicWrites, Atomic!AtomicSpec
-----------------------------------------------------------------------------
(***************************************************************************)
(* Nested writes: what the ledger refuses.                                 *)
(***************************************************************************)

\* s lists the blocks, in their order and each in its own.
InBlocks(s, seqs, n) ==
  /\ \A i \in DOMAIN s : \E a \in 1..n : \E k \in DOMAIN seqs[a] : s[i] = seqs[a][k]
  /\ \A i, j \in DOMAIN s : i < j =>
       \E a, b \in 1..n : \E k \in DOMAIN seqs[a], l \in DOMAIN seqs[b] :
         s[i] = seqs[a][k] /\ s[j] = seqs[b][l] /\ (a < b \/ (a = b /\ k < l))
  /\ \A a \in 1..n : \A k \in DOMAIN seqs[a] : \E i \in DOMAIN s : s[i] = seqs[a][k]

LEMMA FirstBlock ==
  ASSUME NEW seqs PROVE InBlocks(seqs[1], seqs, 1)
  BY DEF InBlocks

LEMMA NextBlock ==
  ASSUME NEW P, NEW seqs, NEW n \in Nat, n # 0, NEW s \in Seq(P), seqs[n + 1] \in Seq(P),
         InBlocks(s, seqs, n)
  PROVE  InBlocks(s \o seqs[n + 1], seqs, n + 1)
  <1> DEFINE last == seqs[n + 1]
             whole == s \o last
  <1>1. /\ whole \in Seq(P) /\ Len(whole) = Len(s) + Len(last)
        /\ Len(s) \in Nat /\ Len(last) \in Nat
        /\ DOMAIN whole = 1..(Len(s) + Len(last)) /\ DOMAIN s = 1..Len(s)
        /\ DOMAIN last = 1..Len(last)
    OBVIOUS
  <1>2. \A i \in DOMAIN s : i \in DOMAIN whole /\ whole[i] = s[i]
    BY <1>1
  <1>3. \A k \in DOMAIN last : Len(s) + k \in DOMAIN whole /\ whole[Len(s) + k] = last[k]
    BY <1>1
  <1>4. \A i \in DOMAIN whole : i \notin DOMAIN s =>
          \E k \in DOMAIN last : i = Len(s) + k /\ whole[i] = last[k]
    <2>1. SUFFICES ASSUME NEW i \in DOMAIN whole, i \notin DOMAIN s
                   PROVE  \E k \in DOMAIN last : i = Len(s) + k /\ whole[i] = last[k]
      OBVIOUS
    <2>2. i - Len(s) \in DOMAIN last /\ i = Len(s) + (i - Len(s))
      BY <1>1, <2>1
    <2> HIDE DEF whole, last
    <2>3. whole[Len(s) + (i - Len(s))] = last[i - Len(s)]
      BY <1>3, <2>2
    <2> QED BY <2>2, <2>3
  <1>5. /\ n + 1 \in 1..(n + 1) /\ \A a \in 1..n : a \in 1..(n + 1) /\ a < n + 1
        /\ \A a \in 1..(n + 1) : a \in 1..n \/ a = n + 1
    OBVIOUS
  <1>6. last = seqs[n + 1]
    OBVIOUS
  <1> HIDE DEF whole, last
  <1>7. \A i \in DOMAIN whole : \E a \in 1..(n + 1) : \E k \in DOMAIN seqs[a] :
          whole[i] = seqs[a][k]
    <2> SUFFICES ASSUME NEW i \in DOMAIN whole
                 PROVE  \E a \in 1..(n + 1) : \E k \in DOMAIN seqs[a] : whole[i] = seqs[a][k]
      OBVIOUS
    <2>1. CASE i \in DOMAIN s
      BY <1>2, <1>5, <2>1 DEF InBlocks
    <2>2. CASE i \notin DOMAIN s
      BY <1>4, <1>5, <1>6, <2>2
    <2> QED BY <2>1, <2>2
  <1>8. \A a \in 1..(n + 1) : \A k \in DOMAIN seqs[a] : \E i \in DOMAIN whole :
          whole[i] = seqs[a][k]
    <2> SUFFICES ASSUME NEW a \in 1..(n + 1), NEW k \in DOMAIN seqs[a]
                 PROVE  \E i \in DOMAIN whole : whole[i] = seqs[a][k]
      OBVIOUS
    <2>1. CASE a \in 1..n
      <3>1. PICK i \in DOMAIN s : s[i] = seqs[a][k]
        BY <2>1 DEF InBlocks
      <3> QED BY <1>2, <3>1
    <2>2. CASE a = n + 1
      BY <1>3, <1>6, <2>2
    <2> QED BY <1>5, <2>1, <2>2
  <1>9. ASSUME NEW i \in DOMAIN whole, NEW j \in DOMAIN whole, i < j
        PROVE  \E a, b \in 1..(n + 1) : \E k \in DOMAIN seqs[a], l \in DOMAIN seqs[b] :
                 /\ whole[i] = seqs[a][k] /\ whole[j] = seqs[b][l]
                 /\ a < b \/ (a = b /\ k < l)
    <2>1. CASE i \in DOMAIN s /\ j \in DOMAIN s
      <3>1. \A x, y \in DOMAIN s : x < y =>
              \E a, b \in 1..n : \E k \in DOMAIN seqs[a], l \in DOMAIN seqs[b] :
                s[x] = seqs[a][k] /\ s[y] = seqs[b][l] /\ (a < b \/ (a = b /\ k < l))
        BY DEF InBlocks
      <3>2. PICK a \in 1..n, b \in 1..n :
              \E k \in DOMAIN seqs[a], l \in DOMAIN seqs[b] :
                s[i] = seqs[a][k] /\ s[j] = seqs[b][l] /\ (a < b \/ (a = b /\ k < l))
        BY <1>9, <2>1, <3>1, Zenon
      <3>3. a \in 1..(n + 1) /\ b \in 1..(n + 1)
        BY <1>5
      <3> QED BY <1>2, <2>1, <3>2, <3>3
    <2>2. CASE i \in DOMAIN s /\ j \notin DOMAIN s
      <3>1. PICK a \in 1..n : \E k \in DOMAIN seqs[a] : s[i] = seqs[a][k]
        BY <2>2 DEF InBlocks
      <3>2. PICK k \in DOMAIN seqs[a] : s[i] = seqs[a][k]
        BY <3>1
      <3>3. PICK l \in DOMAIN last : whole[j] = last[l]
        BY <1>4, <2>2
      <3>4. a \in 1..(n + 1) /\ a < n + 1 /\ n + 1 \in 1..(n + 1)
        BY <1>5
      <3>5. whole[i] = seqs[a][k] /\ l \in DOMAIN seqs[n + 1] /\ whole[j] = seqs[n + 1][l]
        BY <1>2, <1>6, <2>2, <3>2, <3>3
      <3> QED BY <3>4, <3>5
    <2>3. CASE i \notin DOMAIN s
      <3>1. j \notin DOMAIN s
        BY <1>1, <1>9, <2>3
      <3>2. PICK k \in DOMAIN last : i = Len(s) + k /\ whole[i] = last[k]
        BY <1>4, <2>3
      <3>3. PICK l \in DOMAIN last : j = Len(s) + l /\ whole[j] = last[l]
        BY <1>4, <3>1
      <3>4. k < l
        BY <1>1, <1>9, <3>2, <3>3
      <3> QED BY <1>5, <1>6, <3>2, <3>3, <3>4
    <2> QED BY <2>1, <2>2, <2>3
  <1>10. InBlocks(whole, seqs, n + 1)
    BY <1>7, <1>8, <1>9 DEF InBlocks
  <1> QED BY <1>10 DEF whole, last

LEMMA FlattenSeqOrder ==
  ASSUME NEW P, NEW seqs, NEW n \in Nat, n # 0, Len(seqs) = n, seqs # <<>>,
         \A i \in 1..n : seqs[i] \in Seq(P)
  PROVE  FlattenSeq(seqs) \in Seq(P) /\ InBlocks(FlattenSeq(seqs), seqs, n)
  <1> DEFINE f == CHOOSE f : f = [i \in 1..Len(seqs) |->
                                    IF i = 1 THEN seqs[i] ELSE f[i - 1] \o seqs[i]]
  <1>1. FlattenSeq(seqs) = f[n]
    BY DEF FlattenSeq
  <1>2. f = [i \in 1..n |-> IF i = 1 THEN seqs[i] ELSE f[i - 1] \o seqs[i]]
    <2>1. \E g : FlatTo(n, g, seqs)
      BY FlatExists
    <2> QED BY <2>1 DEF FlatTo
  <1> HIDE DEF f
  <1>3. \A i \in 1..n : f[i] = IF i = 1 THEN seqs[i] ELSE f[i - 1] \o seqs[i]
    BY <1>2
  <1> DEFINE S == {i \in 0..n : i # 0 => f[i] \in Seq(P) /\ InBlocks(f[i], seqs, i)}
  <1>4. 0 \in S
    OBVIOUS
  <1>5. ASSUME NEW i \in 0..n, i \in S, i # n PROVE i + 1 \in S
    <2>1. i + 1 \in 1..n /\ (i + 1) - 1 = i /\ seqs[i + 1] \in Seq(P) /\ i + 1 \in 0..n
      BY <1>5
    <2>2. CASE i = 0
      <3>1. f[1] = seqs[1] /\ seqs[1] \in Seq(P)
        BY <1>3, <2>1, <2>2
      <3>2. InBlocks(f[1], seqs, 1)
        BY <3>1, FirstBlock
      <3>3. i + 1 = 1
        BY <2>2
      <3> HIDE DEF f
      <3> QED BY <2>1, <3>1, <3>2, <3>3
    <2>3. CASE i # 0
      <3>1. i + 1 # 1 /\ i \in Nat
        BY <2>3
      <3>2. f[i + 1] = f[i] \o seqs[i + 1] /\ f[i] \in Seq(P) /\ InBlocks(f[i], seqs, i)
        BY <1>3, <1>5, <2>1, <2>3, <3>1
      <3>3. InBlocks(f[i + 1], seqs, i + 1)
        BY <2>1, <2>3, <3>1, <3>2, NextBlock
      <3>4. f[i + 1] \in Seq(P)
        BY <2>1, <3>2
      <3> QED BY <2>1, <3>3, <3>4
    <2> QED BY <2>2, <2>3
  <1>6. 0..n \subseteq S
    <2> HIDE DEF S
    <2> QED BY <1>4, <1>5, Induction
  <1>7. n \in S
    BY <1>6
  <1> QED BY <1>1, <1>7

\* A step of a program: its kind is one of the payload's, and so are its items.
IsStep(s, w) ==
  /\ s.kind \in DOMAIN w.payload
  /\ s.items \in Seq(Range(s.items))
  /\ \A item \in Range(s.items) : IsItem(item)
  /\ s.kind \notin Grouped(w.relation) => Len(s.items) = 1

\* What the kinds are in the order of the program.
Blocks(w) == [k \in DOMAIN RELATION_MUTATION_KEYS |->
                IF RELATION_MUTATION_KEYS[k] \in DOMAIN w.payload
                THEN StepsOf(w.payload, RELATION_MUTATION_KEYS[k], w.relation) ELSE <<>>]

\* The block of a kind: steps of that kind, and one at most if its items are grouped.
LEMMA BlockSteps ==
  ASSUME NEW w \in Requests, NEW kind \in DOMAIN w.payload
  PROVE  LET block == StepsOf(w.payload, kind, w.relation) IN
         /\ block \in Seq(Range(block))
         /\ \A k \in DOMAIN block : block[k].kind = kind /\ IsStep(block[k], w)
         /\ kind \in Grouped(w.relation) => Len(block) = 1
         /\ kind \notin Grouped(w.relation) => Len(block) = Len(w.payload[kind])
  <1> DEFINE items == w.payload[kind]
             block == StepsOf(w.payload, kind, w.relation)
  <1>1. items \in Seq(Range(items)) /\ \A item \in Range(items) : IsItem(item)
    BY RequestsAssumption
  <1>2. CASE kind \in Grouped(w.relation)
    <2> DEFINE s == [kind |-> kind, items |-> items]
    <2>1. block = <<s>>
      BY <1>2 DEF StepsOf
    <2>2. IsStep(s, w)
      BY <1>1, <1>2 DEF IsStep
    <2>3. s.kind = kind
      OBVIOUS
    <2> HIDE DEF s, items, block
    <2>4. block \in Seq({s}) /\ Len(block) = 1 /\ DOMAIN block = 1..1 /\ block[1] = s
      BY <2>1
    <2>5. Range(block) = {s}
      BY <2>4 DEF Range
    <2>6. \A k \in DOMAIN block : block[k] = s
      BY <2>4
    <2> QED BY <1>2, <2>2, <2>3, <2>4, <2>5, <2>6 DEF block
  <1>3. CASE kind \notin Grouped(w.relation)
    <2> DEFINE s(i) == [kind |-> kind, items |-> <<items[i]>>]
    <2>1. block = [i \in DOMAIN items |-> s(i)]
      BY <1>3 DEF StepsOf
    <2>2. ASSUME NEW i \in DOMAIN items PROVE IsStep(s(i), w) /\ s(i).kind = kind
      <3>1. items[i] \in Range(items)
        BY DEF Range
      <3>2. IsItem(items[i])
        BY <1>1, <3>1
      <3> DEFINE it == items[i]
      <3>3. /\ s(i).kind = kind /\ s(i).items = <<it>>
        OBVIOUS
      <3> HIDE DEF it
      <3>4. <<it>> \in Seq({it}) /\ Len(<<it>>) = 1 /\ DOMAIN <<it>> = 1..1 /\ <<it>>[1] = it
        OBVIOUS
      <3>5. Range(<<it>>) = {it}
        BY <3>4 DEF Range
      <3>6. IsItem(it)
        BY <3>2 DEF it
      <3> HIDE DEF s
      <3> QED BY <1>3, <3>3, <3>4, <3>5, <3>6 DEF IsStep
    <2>3. DOMAIN items = 1..Len(items) /\ Len(items) \in Nat
      BY <1>1
    <2>4. \A i \in DOMAIN items : block[i] = s(i)
      BY <2>1
    <2> HIDE DEF s, items, block
    <2>5. DOMAIN block = 1..Len(items) /\ \A i \in 1..Len(items) : block[i] \in Range(block)
      BY <2>1, <2>3 DEF Range
    <2>6. block = [i \in 1..Len(items) |-> block[i]]
      BY <2>1, <2>3, <2>4
    <2>7. block \in Seq(Range(block)) /\ Len(block) = Len(items)
      BY <2>3, <2>5, <2>6
    <2> QED BY <1>3, <2>2, <2>3, <2>4, <2>5, <2>7 DEF block, items
  <1> QED BY <1>2, <1>3

LEMMA KeysListed ==
  /\ Len(RELATION_MUTATION_KEYS) = 11 /\ DOMAIN RELATION_MUTATION_KEYS = 1..11
  /\ Kinds = {"disconnect", "delete", "update", "upsert", "connectOrCreate",
              "set", "updateMany", "deleteMany", "connect", "create", "createMany"}
  <1>1. Len(RELATION_MUTATION_KEYS) = 11 /\ DOMAIN RELATION_MUTATION_KEYS = 1..11
    BY DEF RELATION_MUTATION_KEYS
  <1>2. \A k \in 1..11 : \/ k = 1 \/ k = 2 \/ k = 3 \/ k = 4 \/ k = 5 \/ k = 6
                         \/ k = 7 \/ k = 8 \/ k = 9 \/ k = 10 \/ k = 11
    OBVIOUS
  <1>3. Kinds = {RELATION_MUTATION_KEYS[k] : k \in 1..11}
    BY <1>1 DEF Kinds, Range
  <1>4. Kinds = {RELATION_MUTATION_KEYS[1], RELATION_MUTATION_KEYS[2], RELATION_MUTATION_KEYS[3],
                 RELATION_MUTATION_KEYS[4], RELATION_MUTATION_KEYS[5], RELATION_MUTATION_KEYS[6],
                 RELATION_MUTATION_KEYS[7], RELATION_MUTATION_KEYS[8], RELATION_MUTATION_KEYS[9],
                 RELATION_MUTATION_KEYS[10], RELATION_MUTATION_KEYS[11]}
    BY <1>2, <1>3
  <1> QED BY <1>1, <1>4 DEF RELATION_MUTATION_KEYS

\* The order of the kinds: readers of what they name, then what has no bound, then
\* what only adds.
LEMMA KeysOrdered ==
  ASSUME NEW a \in 1..11, NEW b \in 1..11, a <= b
  PROVE  LET first == RELATION_MUTATION_KEYS[a]
             then  == RELATION_MUTATION_KEYS[b] IN
         /\ first = "set" => then \in {"updateMany", "deleteMany", "connect", "create", "createMany"}
                             \/ a = b
         /\ first = "updateMany" =>
              then \in {"updateMany", "deleteMany", "connect", "create", "createMany"}
         /\ first = "deleteMany" => then \in {"deleteMany", "connect", "create", "createMany"}
         /\ first \in {"connect", "create", "createMany"} =>
              then \in {"connect", "create", "createMany"}
  <1>1. \A k \in 1..11 : \/ k = 1 \/ k = 2 \/ k = 3 \/ k = 4 \/ k = 5 \/ k = 6
                         \/ k = 7 \/ k = 8 \/ k = 9 \/ k = 10 \/ k = 11
    OBVIOUS
  <1>2. \A k \in 1..11 : k < 6 => RELATION_MUTATION_KEYS[k] \in
          {"disconnect", "delete", "update", "upsert", "connectOrCreate"}
    BY <1>1 DEF RELATION_MUTATION_KEYS
  <1>3. RELATION_MUTATION_KEYS[6] = "set" /\ RELATION_MUTATION_KEYS[7] = "updateMany"
        /\ RELATION_MUTATION_KEYS[8] = "deleteMany" /\ RELATION_MUTATION_KEYS[9] = "connect"
        /\ RELATION_MUTATION_KEYS[10] = "create" /\ RELATION_MUTATION_KEYS[11] = "createMany"
    BY DEF RELATION_MUTATION_KEYS
  <1>4. CASE a < 6
    BY <1>2, <1>4
  <1>5. CASE a \in 6..8
    <2>1. (a = 6 \/ a = 7 \/ a = 8) /\ (b = 6 \/ b = 7 \/ b = 8 \/ b = 9 \/ b = 10 \/ b = 11)
      BY <1>5
    <2> QED BY <1>3, <2>1
  <1>6. CASE a \in 9..11
    <2>1. (a = 9 \/ a = 10 \/ a = 11) /\ (b = 9 \/ b = 10 \/ b = 11)
      BY <1>6
    <2> QED BY <1>3, <2>1
  <1> QED BY <1>4, <1>5, <1>6

\* One step is before another: its kind is no later, and if they have one kind, its
\* items are decided one by one.
Before(first, then, w) ==
  \E a, b \in 1..11 : /\ first.kind = RELATION_MUTATION_KEYS[a]
                      /\ then.kind = RELATION_MUTATION_KEYS[b]
                      /\ a <= b
                      /\ a = b => first.kind \notin Grouped(w.relation)

LEMMA ProgramSteps ==
  ASSUME NEW w \in Requests
  PROVE  LET steps == buildRelationMutationProgram(w.payload, w.relation) IN
         /\ Len(steps) \in Nat /\ DOMAIN steps = 1..Len(steps)
         /\ \A i \in DOMAIN steps : IsStep(steps[i], w)
         /\ \A i, j \in DOMAIN steps : i < j => Before(steps[i], steps[j], w)
         /\ ToOne(w) => Len(steps) # 0
  <1> DEFINE seqs  == Blocks(w)
             P     == UNION {Range(seqs[k]) : k \in 1..11}
             steps == FlattenSeq(seqs)
             key(k) == RELATION_MUTATION_KEYS[k]
  <1>1. buildRelationMutationProgram(w.payload, w.relation) = steps
    BY DEF buildRelationMutationProgram, Blocks
  <1>2. /\ DOMAIN seqs = 1..11
        /\ \A k \in 1..11 : seqs[k] = IF key(k) \in DOMAIN w.payload
                                      THEN StepsOf(w.payload, key(k), w.relation) ELSE <<>>
    BY KeysListed DEF Blocks
  <1> HIDE DEF seqs
  <1>3. ASSUME NEW k \in 1..11
        PROVE  /\ seqs[k] \in Seq(Range(seqs[k]))
               /\ \A l \in DOMAIN seqs[k] : seqs[k][l].kind = key(k) /\ IsStep(seqs[k][l], w)
               /\ key(k) \in Grouped(w.relation) => Len(seqs[k]) \in {0, 1}
    <2> HIDE DEF key
    <2>1. CASE key(k) \in DOMAIN w.payload
      <3>1. seqs[k] = StepsOf(w.payload, key(k), w.relation)
        BY <1>2, <2>1
      <3> QED BY <2>1, <3>1, BlockSteps
    <2>2. CASE key(k) \notin DOMAIN w.payload
      <3>1. seqs[k] = <<>>
        BY <1>2, <2>2
      <3> HIDE DEF key
      <3>2. /\ seqs[k] \in Seq(Range(seqs[k])) /\ Len(seqs[k]) = 0
            /\ \A l \in DOMAIN seqs[k] : FALSE
        BY <3>1
      <3> QED BY <3>2
    <2> QED BY <2>1, <2>2
  <1>4. \A k \in 1..11 : seqs[k] \in Seq(P)
    <2> SUFFICES ASSUME NEW k \in 1..11 PROVE seqs[k] \in Seq(P)
      OBVIOUS
    <2>1. Range(seqs[k]) \subseteq P
      OBVIOUS
    <2>2. seqs[k] \in Seq(Range(seqs[k]))
      BY <1>3
    <2> HIDE DEF P
    <2> QED BY <2>1, <2>2
  <1>5. Len(seqs) = 11 /\ seqs # <<>>
    <2> HIDE DEF P
    <2>1. seqs \in Seq(Seq(P))
      <3>1. seqs = [k \in 1..11 |-> seqs[k]]
        BY <1>2 DEF seqs, Blocks
      <3> QED BY <1>2, <1>4, <3>1
    <2>2. Len(seqs) = 11
      BY <1>2, <2>1
    <2>3. Len(<<>>) # 11
      OBVIOUS
    <2> QED BY <2>2, <2>3, Zenon
  <1>6. steps \in Seq(P) /\ InBlocks(steps, seqs, 11)
    <2> HIDE DEF P
    <2>1. 11 \in Nat /\ 11 # 0
      OBVIOUS
    <2>2. FlattenSeq(seqs) \in Seq(P) /\ InBlocks(FlattenSeq(seqs), seqs, 11)
      BY <1>4, <1>5, <2>1, FlattenSeqOrder
    <2> QED BY <2>2
  <1> HIDE DEF steps, P
  <1>7. Len(steps) \in Nat /\ DOMAIN steps = 1..Len(steps)
    BY <1>6
  <1>8. ASSUME NEW i \in DOMAIN steps PROVE IsStep(steps[i], w)
    <2>1. PICK a \in 1..11 : \E k \in DOMAIN seqs[a] : steps[i] = seqs[a][k]
      BY <1>6 DEF InBlocks
    <2>2. PICK k \in DOMAIN seqs[a] : steps[i] = seqs[a][k]
      BY <2>1
    <2> QED BY <1>3, <2>2
  <1>9. ASSUME NEW i \in DOMAIN steps, NEW j \in DOMAIN steps, i < j
        PROVE  Before(steps[i], steps[j], w)
    <2>1. \A x, y \in DOMAIN steps : x < y =>
            \E a, b \in 1..11 : \E k \in DOMAIN seqs[a], l \in DOMAIN seqs[b] :
              steps[x] = seqs[a][k] /\ steps[y] = seqs[b][l] /\ (a < b \/ (a = b /\ k < l))
      BY <1>6 DEF InBlocks
    <2>2. PICK a \in 1..11, b \in 1..11 :
            \E k \in DOMAIN seqs[a], l \in DOMAIN seqs[b] :
              steps[i] = seqs[a][k] /\ steps[j] = seqs[b][l] /\ (a < b \/ (a = b /\ k < l))
      BY <1>9, <2>1, Zenon
    <2>3. PICK k \in DOMAIN seqs[a], l \in DOMAIN seqs[b] :
            steps[i] = seqs[a][k] /\ steps[j] = seqs[b][l] /\ (a < b \/ (a = b /\ k < l))
      BY <2>2, Zenon
    <2>4. steps[i].kind = key(a) /\ steps[j].kind = key(b)
      <3> HIDE DEF key
      <3> QED BY <1>3, <2>3
    <2>5. a <= b
      BY <2>3
    <2>6. a = b => key(a) \notin Grouped(w.relation)
      <3> HIDE DEF key
      <3> SUFFICES ASSUME a = b, key(a) \in Grouped(w.relation) PROVE FALSE
        OBVIOUS
      <3>1. k < l /\ k \in DOMAIN seqs[a] /\ l \in DOMAIN seqs[a]
        BY <2>3
      <3>2. seqs[a] \in Seq(Range(seqs[a])) /\ Len(seqs[a]) \in {0, 1}
        BY <1>3
      <3>3. DOMAIN seqs[a] = 1..Len(seqs[a]) /\ Len(seqs[a]) <= 1
        <4>1. DOMAIN seqs[a] = 1..Len(seqs[a])
          BY <3>2
        <4>2. ASSUME NEW n \in {0, 1} PROVE n <= 1
          OBVIOUS
        <4> QED BY <3>2, <4>1, <4>2, Zenon
      <3>4. k \in 1..Len(seqs[a]) /\ l \in 1..Len(seqs[a])
        BY <3>1, <3>3, Zenon
      <3>5. Len(seqs[a]) \in Nat
        BY <3>2
      <3> HIDE DEF seqs
      <3> QED BY <3>1, <3>3, <3>4, <3>5
    <2>7. a = b => steps[i].kind \notin Grouped(w.relation)
      BY <2>4, <2>6
    <2> QED BY <2>4, <2>5, <2>7 DEF Before
  <1>10. ASSUME ToOne(w) PROVE Len(steps) # 0
    <2>1. PICK kind \in DOMAIN w.payload : Len(w.payload[kind]) = 1 /\ kind \in Kinds
      BY <1>10, RequestsAssumption
    <2>2. PICK a \in 1..11 : kind = key(a)
      BY <2>1, KeysListed DEF Kinds, Range
    <2>3. seqs[a] = StepsOf(w.payload, kind, w.relation)
      BY <1>2, <2>2
    <2>4. seqs[a] \in Seq(Range(seqs[a])) /\ Len(seqs[a]) = 1
      BY <2>1, <2>3, BlockSteps
    <2>5. 1 \in DOMAIN seqs[a]
      BY <2>4
    <2>6. PICK i \in DOMAIN steps : steps[i] = seqs[a][1]
      BY <1>6, <2>5 DEF InBlocks
    <2> QED BY <1>7, <2>6
  <1> QED BY <1>1, <1>7, <1>8, <1>9, <1>10

\* The one item of a step whose kind is not grouped.
LEMMA HeadItem ==
  ASSUME NEW w, NEW s, IsStep(s, w), Len(s.items) = 1
  PROVE  /\ Head(s.items) \in Range(s.items) /\ IsItem(Head(s.items))
         /\ Selectors(s) = {Head(s.items).where}
  <1>1. s.items \in Seq(Range(s.items))
    BY DEF IsStep
  <1>2. /\ DOMAIN s.items = 1..1 /\ 1 \in 1..1 /\ \A i \in 1..1 : i = 1
        /\ Head(s.items) = s.items[1]
    BY <1>1
  <1>3. Head(s.items) \in Range(s.items)
    BY <1>2, Zenon DEF Range
  <1>4. Selectors(s) = {s.items[i].where : i \in 1..1}
    BY <1>2, Zenon DEF Selectors
  <1>5. {s.items[i].where : i \in 1..1} = {s.items[1].where}
    BY <1>2, Zenon
  <1> QED BY <1>2, <1>3, <1>4, <1>5 DEF IsStep

\* What is told of a row's identity is its id, one that the step names.
Tells(c, s) == "id" \in DOMAIN c /\ c.id \in NamedIds(s) /\ c.id # Unknown

LEMMA NamedTells ==
  ASSUME NEW s, NEW item \in Range(s.items), IsItem(item)
  PROVE  /\ "id" \in DOMAIN item.where => Tells(item.where, s)
         /\ "id" \in item.spells => Tells(createIdentity(item), s)
         /\ "id" \in DOMAIN item.data => item.data.id \in NamedIds(s) /\ item.data.id # Unknown
  <1>1. item.spells \subseteq DOMAIN item.create
    BY DEF IsItem
  <1>2. /\ "id" \in DOMAIN item.where => item.where.id # Unknown
        /\ "id" \in DOMAIN item.create => item.create.id # Unknown
        /\ "id" \in DOMAIN item.data => item.data.id # Unknown
    <2>1. \A values \in {item.where, item.create, item.data} :
            "id" \in DOMAIN values => values["id"] # Unknown
      BY DEF IsItem
    <2> QED BY <2>1
  <1>3. /\ "id" \in DOMAIN item.where => item.where.id \in NamedIds(s)
        /\ "id" \in item.spells => item.create.id \in NamedIds(s)
        /\ "id" \in DOMAIN item.data => item.data.id \in NamedIds(s)
    BY DEF NamedIds
  <1>4. "id" \in item.spells =>
          "id" \in DOMAIN createIdentity(item) /\ createIdentity(item).id = item.create.id
    BY DEF createIdentity, Identity
  <1> QED BY <1>1, <1>2, <1>3, <1>4 DEF Tells

LEMMA UpdateTells ==
  ASSUME NEW s, NEW item \in Range(s.items), IsItem(item), "id" \in DOMAIN item.where,
         NEW c \in updateResults(item)
  PROVE  Tells(c, s)
  <1> DEFINE renamed == DOMAIN item.data \cap Identity
             result  == [f \in renamed \cup DOMAIN item.where |->
                           IF f \in renamed THEN item.data[f] ELSE item.where[f]]
  <1>1. Tells(item.where, s)
    BY NamedTells
  <1>2. c = item.where \/ c = result
    BY DEF updateResults
  <1>3. CASE c = result
    <2>1. "id" \in DOMAIN c /\ c.id = IF "id" \in renamed THEN item.data.id ELSE item.where.id
      BY <1>3
    <2>2. CASE "id" \in renamed
      BY <2>1, <2>2, NamedTells DEF Tells
    <2>3. CASE "id" \notin renamed
      BY <1>1, <2>1, <2>3 DEF Tells
    <2> QED BY <2>2, <2>3
  <1> QED BY <1>1, <1>2, <1>3

LEMMA SelectorTells ==
  ASSUME NEW w, NEW s, IsStep(s, w), NEW c \in Selectors(s),
         \A item \in Range(s.items) : "id" \in DOMAIN item.where
  PROVE  Tells(c, s)
  <1>1. PICK i \in DOMAIN s.items : c = s.items[i].where
    BY DEF Selectors
  <1>2. s.items[i] \in Range(s.items)
    BY DEF Range
  <1>3. IsItem(s.items[i])
    BY <1>2 DEF IsStep
  <1> QED BY <1>1, <1>2, <1>3, NamedTells

\* What a filter by id says.
LEMMA FilterTells ==
  ASSUME NEW s, NEW item \in Range(s.items), IsItem(item), DOMAIN item.where = {"id"}
  PROVE  Tells(filterConstraint(item.where), s)
  <1>1. Tells(item.where, s)
    BY NamedTells
  <1>2. "id" \in DOMAIN filterConstraint(item.where)
        /\ filterConstraint(item.where).id = item.where.id
    BY DEF filterConstraint, Identity
  <1> QED BY <1>1, <1>2 DEF Tells

AllKinds == {"disconnect", "delete", "update", "upsert", "connectOrCreate",
             "set", "updateMany", "deleteMany", "connect", "create", "createMany"}

Readers == {"disconnect", "delete", "update", "upsert", "connectOrCreate"}

LEMMA NamelessWhen ==
  ASSUME request.relation \in Relations, ~ToOne(request)
  PROVE  /\ Junction => Nameless = {"create", "createMany"}
         /\ ~Junction => Nameless = {"create", "createMany", "updateMany", "deleteMany"}
  <1>1. CASE Junction
    <2>1. ~(Held /\ ~ToOne(request)) /\ ~ToOne(request)
      BY <1>1 DEF Junction, Held
    <2>2. Nameless = {"create", "createMany"} \cup {}
      BY <1>1, <2>1 DEF Nameless
    <2> QED BY <1>1, <2>2
  <1>2. CASE ~Junction
    <2>1. Held /\ ~ToOne(request)
      BY <1>2 DEF Junction, Held, Relations, ToOne
    <2>2. Nameless = {"create", "createMany"} \cup {"updateMany", "deleteMany"}
      BY <1>2, <2>1 DEF Nameless
    <2> QED BY <1>2, <2>2
  <1> QED BY <1>1, <1>2

\* Of a relation to many rows: what a step reads has the id the step names, and it
\* reads something only if it asks for rows by what they are known by.
LEMMA ReadsTell ==
  ASSUME request.relation \in Relations, ~ToOne(request), NEW s, IsStep(s, request),
         s.kind \in AllKinds, TellsIds(s), NEW r \in Reads(s)
  PROVE  /\ Tells(r.of, s)
         /\ s.kind \in Readers \cup {"set"} \/ (Junction /\ s.kind = "deleteMany")
  <1> DEFINE rows    == {Row(c) : c \in Selectors(s)}
             members == {Member(c) : c \in Selectors(s)}
             filter  == Head(s.items).where
  <1>1. CASE s.kind \in Readers \cup {"set"}
    <2>1. r \in rows \cup members
      <3>1. CASE s.kind \in {"update", "upsert"}
        BY <3>1 DEF Reads
      <3>2. CASE s.kind \in {"delete", "set"}
        <4>1. Reads(s) = (rows \cup (IF Junction THEN {} ELSE members))
          BY <3>2 DEF Reads
        <4> QED BY <4>1
      <3>3. CASE s.kind = "disconnect"
        <4>1. Reads(s) = IF Junction THEN {} ELSE rows \cup members
          BY <3>3 DEF Reads
        <4> QED BY <4>1
      <3>4. CASE s.kind = "connectOrCreate"
        BY <3>4 DEF Reads
      <3> QED BY <1>1, <3>1, <3>2, <3>3, <3>4 DEF Readers
    <2>2. PICK c \in Selectors(s) : r.of = c
      BY <2>1 DEF Row, Member
    <2>3. s.kind \notin Nameless
      BY <1>1, NamelessWhen DEF Readers
    <2>4. \A item \in Range(s.items) : "id" \in DOMAIN item.where
      BY <2>3 DEF TellsIds
    <2> QED BY <1>1, <2>2, <2>4, SelectorTells
  <1>2. CASE s.kind = "deleteMany" /\ Junction
    <2>1. r.of = filterConstraint(filter)
      <3>1. Reads(s) = {Filtered(filterConstraint(filter), DOMAIN filter),
                        Member(filterConstraint(filter))}
        BY <1>2 DEF Reads
      <3> QED BY <3>1 DEF Filtered, Member
    <2>2. Len(s.items) = 1
      BY <1>2 DEF IsStep, Grouped, Junction
    <2>3. Head(s.items) \in Range(s.items) /\ IsItem(Head(s.items))
      BY <2>2, HeadItem
    <2>4. s.kind \notin Nameless
      BY <1>2, NamelessWhen
    <2>5. DOMAIN filter = {"id"}
      BY <2>3, <2>4 DEF TellsIds
    <2>6. Tells(filterConstraint(filter), s)
      BY <2>3, <2>5, FilterTells
    <2> QED BY <1>2, <2>1, <2>6
  <1>3. CASE s.kind = "deleteMany" /\ ~Junction
    BY <1>3 DEF Reads
  <1>4. CASE s.kind \in {"updateMany", "connect", "create", "createMany"}
    BY <1>4 DEF Reads
  <1> QED BY <1>1, <1>2, <1>3, <1>4 DEF AllKinds, Readers

\* A step that reads what it names writes what it names, and so does a junction's
\* deleteMany by id.
LEMMA WritesTell ==
  ASSUME request.relation \in Relations, ~ToOne(request), NEW s, IsStep(s, request),
         s.kind \in Readers \/ (Junction /\ s.kind = "deleteMany"),
         TellsIds(s), NEW v \in Writes(s)
  PROVE  Tells(v.of, s)
  <1> DEFINE item    == Head(s.items)
             created == {Row(createIdentity(item)), Member(createIdentity(item))}
             members == {Member(c) : c \in Selectors(s)}
  <1>1. s.kind \notin Nameless
    BY NamelessWhen DEF Readers
  <1>2. \A x \in Range(s.items) : DOMAIN x.where = {"id"}
    BY <1>1 DEF TellsIds
  <1>3. \A c \in Selectors(s) : Tells(c, s)
    BY <1>2, SelectorTells
  <1>4. s.kind \notin {"disconnect", "delete"} => item \in Range(s.items) /\ IsItem(item)
    <2> SUFFICES ASSUME s.kind \notin {"disconnect", "delete"}
                 PROVE  item \in Range(s.items) /\ IsItem(item)
      OBVIOUS
    <2>1. s.kind \notin Grouped(request.relation)
      BY DEF Grouped, Readers
    <2>2. Len(s.items) = 1
      BY <2>1 DEF IsStep
    <2> QED BY <2>2, HeadItem
  <1>5. s.kind \in {"upsert", "connectOrCreate"} => Tells(createIdentity(item), s)
    BY <1>4, NamedTells DEF TellsIds
  <1> HIDE DEF item
  <1>6. CASE s.kind \in {"disconnect", "delete"}
    <2>1. v \in members \cup {Row(c) : c \in Selectors(s)}
      BY <1>6 DEF Writes
    <2> QED BY <1>3, <2>1 DEF Row, Member
  <1>7. CASE s.kind = "update"
    <2>1. PICK c \in updateResults(item) : v = Row(c)
      BY <1>7 DEF Writes, item
    <2>2. "id" \in DOMAIN item.where
      BY <1>2, <1>4, <1>7
    <2>3. Tells(c, s)
      BY <1>4, <1>7, <2>2, UpdateTells
    <2> QED BY <2>1, <2>3 DEF Row
  <1>8. CASE s.kind = "upsert"
    <2>1. v \in (created \cup members \cup
                 {Predicate(c, DOMAIN item.data) : c \in updateResults(item)})
      BY <1>8 DEF Writes, item
    <2>2. "id" \in DOMAIN item.where
      BY <1>2, <1>4, <1>8
    <2>3. \A c \in updateResults(item) : Tells(c, s)
      BY <1>4, <1>8, <2>2, UpdateTells
    <2> QED BY <1>3, <1>5, <1>8, <2>1, <2>3 DEF Row, Member, Predicate
  <1>9. CASE s.kind = "connectOrCreate"
    <2>1. v \in created \cup members
      BY <1>9 DEF Writes, item
    <2> QED BY <1>3, <1>5, <1>9, <2>1 DEF Row, Member
  <1>10. CASE s.kind = "deleteMany" /\ Junction
    <2>1. v.of = filterConstraint(item.where)
      <3>1. v \in {Row(filterConstraint(item.where)), Member(filterConstraint(item.where))}
        BY <1>10 DEF Writes, item
      <3> QED BY <3>1 DEF Row, Member
    <2>2. Tells(filterConstraint(item.where), s)
      BY <1>2, <1>4, <1>10, FilterTells
    <2> QED BY <2>1, <2>2
  <1> QED BY <1>6, <1>7, <1>8, <1>9, <1>10 DEF Readers

\* Two steps that tell rows apart by their ids and may affect one another name one row.
LEMMA AffectedIsNamed ==
  ASSUME NEW s, NEW t, NEW v, NEW r, Tells(v.of, s), Tells(r.of, t), mayAffect(v, r)
  PROVE  NamedIds(s) \cap NamedIds(t) # {}
  <1>1. ~provesDisjoint(v.of, r.of)
    BY DEF mayAffect
  <1>2. v.of.id = r.of.id
    BY <1>1 DEF provesDisjoint, Tells
  <1> QED BY <1>2 DEF Tells

\* What the ledger holds against two steps of a relation to many rows.
LEMMA ManyConflict ==
  ASSUME request.relation \in Relations, ~ToOne(request), NEW s, NEW t,
         IsStep(s, request), IsStep(t, request), s.kind \in AllKinds, t.kind \in AllKinds,
         Before(s, t, request), TellsIds(s), TellsIds(t),
         NEW v \in Writes(s), NEW r \in Reads(t), mayAffect(v, r)
  PROVE  \/ NamedIds(s) \cap NamedIds(t) # {}
         \/ Junction /\ s.kind \in {"set", "updateMany"} /\ t.kind = "deleteMany"
  <1>1. Tells(r.of, t) /\ (t.kind \in Readers \cup {"set"} \/ (Junction /\ t.kind = "deleteMany"))
    BY ReadsTell
  <1>2. CASE s.kind \in Readers \/ (Junction /\ s.kind = "deleteMany")
    <2>1. Tells(v.of, s)
      BY <1>2, WritesTell
    <2> QED BY <1>1, <2>1, AffectedIsNamed
  <1>3. CASE ~(s.kind \in Readers \/ (Junction /\ s.kind = "deleteMany"))
    <2>1. PICK a \in 1..11, b \in 1..11 :
            /\ s.kind = RELATION_MUTATION_KEYS[a] /\ t.kind = RELATION_MUTATION_KEYS[b]
            /\ a <= b /\ (a = b => s.kind \notin Grouped(request.relation))
      BY DEF Before
    <2>2. /\ s.kind = "set" => t.kind \in {"updateMany", "deleteMany", "connect", "create", "createMany"}
                               \/ a = b
          /\ s.kind = "updateMany" =>
               t.kind \in {"updateMany", "deleteMany", "connect", "create", "createMany"}
          /\ s.kind = "deleteMany" => t.kind \in {"deleteMany", "connect", "create", "createMany"}
          /\ s.kind \in {"connect", "create", "createMany"} =>
               t.kind \in {"connect", "create", "createMany"}
      BY <2>1, KeysOrdered
    <2>3. "set" \in Grouped(request.relation)
      BY DEF Grouped
    <2>4. s.kind \in {"set", "updateMany"} /\ t.kind = "deleteMany" /\ Junction
      <3>1. s.kind \in {"set", "updateMany", "deleteMany", "connect", "create", "createMany"}
            /\ (s.kind = "deleteMany" => ~Junction)
        BY <1>3 DEF AllKinds, Readers
      <3>2. t.kind \notin {"updateMany", "connect", "create", "createMany"}
            /\ (t.kind = "deleteMany" => Junction)
        BY <1>1 DEF Readers
      <3> QED BY <2>1, <2>2, <2>3, <3>1, <3>2
    <2> QED BY <2>4
  <1> QED BY <1>2, <1>3

\* What it holds against two steps of a relation to one row that has both: a
\* deletion, and a request that may be for the same row.
LEMMA OneConflict ==
  ASSUME request.relation = "childHeldToOne", NEW s, NEW t,
         s.kind \in {"disconnect", "delete"}, t.kind \in {"connectOrCreate", "connect", "create"},
         NEW v \in Writes(s), NEW r \in Reads(t), mayAffect(v, r)
  PROVE  s.kind = "delete" /\ t.kind = "connectOrCreate"
  <1>1. ToOne(request) /\ ~ParentHeld
    BY DEF ToOne, ParentHeld
  <1>2. r \in ToOneReads(t)
    BY <1>1 DEF Reads
  <1>3. t.kind = "connectOrCreate" /\ r = Row(Head(t.items).where)
    <2>1. CASE t.kind = "connectOrCreate"
      BY <1>2, <2>1 DEF ToOneReads
    <2>2. CASE t.kind = "connect"
      BY <1>1, <1>2, <2>2 DEF ToOneReads
    <2>3. CASE t.kind = "create"
      BY <1>2, <2>3 DEF ToOneReads
    <2> QED BY <2>1, <2>2, <2>3
  <1>4. ASSUME s.kind = "disconnect" PROVE FALSE
    <2>1. v \in {Member(c) : c \in Selectors(s)}
      BY <1>4 DEF Writes
    <2>2. v.what = "member" /\ r.what = "row"
      BY <1>3, <2>1 DEF Member, Row
    <2> QED BY <2>2 DEF mayAffect
  <1> QED BY <1>3, <1>4
-----------------------------------------------------------------------------
\* The program is that of the request, whatever is done.
Programmed == /\ request \in Requests
              /\ program = buildRelationMutationProgram(request.payload, request.relation)

\* What a refusal says of the program.
Contradicts ==
  (\A k \in DOMAIN program : TellsIds(program[k])) =>
    \E i, j \in DOMAIN program :
      /\ i < j
      /\ \/ NamedIds(program[i]) \cap NamedIds(program[j]) # {}
         \/ ToOne(request) /\ ~Supported(program, request)
         \/ /\ ToOne(request)
            /\ program[i].kind = "delete" /\ program[j].kind = "connectOrCreate"
         \/ /\ Junction
            /\ program[i].kind \in {"set", "updateMany"} /\ program[j].kind = "deleteMany"

LEMMA RefusalShows ==
  ASSUME Programmed, ~(Supported(program, request) /\ assertIndependent(program))
  PROVE  Contradicts
  <1> SUFFICES ASSUME \A k \in DOMAIN program : TellsIds(program[k])
               PROVE  \E i, j \in DOMAIN program :
                        /\ i < j
                        /\ \/ NamedIds(program[i]) \cap NamedIds(program[j]) # {}
                           \/ ToOne(request) /\ ~Supported(program, request)
                           \/ /\ ToOne(request)
                              /\ program[i].kind = "delete" /\ program[j].kind = "connectOrCreate"
                           \/ /\ Junction
                              /\ program[i].kind \in {"set", "updateMany"}
                              /\ program[j].kind = "deleteMany"
    BY DEF Contradicts
  <1>1. request \in Requests /\ request.relation \in Relations
    BY RequestsAssumption DEF Programmed
  <1>2. /\ Len(program) \in Nat /\ DOMAIN program = 1..Len(program)
        /\ \A i \in DOMAIN program : IsStep(program[i], request)
        /\ \A i, j \in DOMAIN program : i < j => Before(program[i], program[j], request)
        /\ ToOne(request) => Len(program) # 0
    BY <1>1, ProgramSteps DEF Programmed
  <1>3. \A i \in DOMAIN program : program[i].kind \in AllKinds
    BY <1>1, <1>2, KeysListed, RequestsAssumption DEF IsStep, AllKinds
  <1>4. CASE ~Supported(program, request)
    <2>1. ToOne(request) /\ Len(program) # 1
      BY <1>4 DEF Supported
    <2>2. 1 \in DOMAIN program /\ 2 \in DOMAIN program /\ 1 < 2
      BY <1>2, <2>1
    <2> QED BY <1>4, <2>1, <2>2
  <1>5. CASE Supported(program, request)
    <2>1. ~assertIndependent(program)
      BY <1>5
    <2>2. PICK i \in DOMAIN program, j \in DOMAIN program :
            i < j /\ \E v \in Writes(program[i]), r \in Reads(program[j]) : mayAffect(v, r)
      BY <2>1 DEF assertIndependent
    <2>3. PICK v \in Writes(program[i]), r \in Reads(program[j]) : mayAffect(v, r)
      BY <2>2
    <2>4. CASE ~ToOne(request)
      <3>1. \/ NamedIds(program[i]) \cap NamedIds(program[j]) # {}
            \/ /\ Junction
               /\ program[i].kind \in {"set", "updateMany"} /\ program[j].kind = "deleteMany"
        <4>1. /\ IsStep(program[i], request) /\ IsStep(program[j], request)
              /\ Before(program[i], program[j], request)
              /\ program[i].kind \in AllKinds /\ program[j].kind \in AllKinds
          BY <1>2, <1>3, <2>2
        <4> QED BY <1>1, <2>3, <2>4, <4>1, ManyConflict
      <3> QED BY <2>2, <3>1
    <2>5. CASE ToOne(request)
      <3>1. Len(program) # 1
        BY <1>2, <2>2
      <3>2. request.relation = "childHeldToOne" /\ isVacateThenSupply(program)
        BY <1>5, <2>5, <3>1 DEF Supported
      <3>3. i = 1 /\ j = 2
        BY <1>2, <2>2, <3>2 DEF isVacateThenSupply
      <3>4. program[i].kind = "delete" /\ program[j].kind = "connectOrCreate"
        BY <2>3, <3>2, <3>3, OneConflict DEF isVacateThenSupply
      <3> QED BY <2>2, <2>5, <3>4
    <2> QED BY <2>4, <2>5
  <1> QED BY <1>4, <1>5

RefusedInv == Programmed /\ (phase = "refused" => Contradicts)

LEMMA ContradictsStays ==
  ASSUME Contradicts, UNCHANGED <<request, program>> PROVE Contradicts'
  BY DEF Contradicts, TellsIds, Nameless, Junction, Held

LEMMA RefusedSteps ==
  ASSUME RefusedInv, [NestedNext]_nestedVars PROVE RefusedInv'
  <1>1. ASSUME UNCHANGED <<request, program>>, phase' = "refused" => Contradicts
        PROVE  RefusedInv'
    BY <1>1, ContradictsStays DEF RefusedInv, Programmed
  <1>2. CASE Refuse
    BY <1>1, <1>2, RefusalShows DEF Refuse, RefusedInv
  <1>3. CASE Accept
    BY <1>1, <1>3 DEF Accept
  <1>4. CASE executeLinear
    BY <1>1, <1>4 DEF executeLinear
  <1>5. CASE executePlanningLevels
    BY <1>1, <1>5 DEF executePlanningLevels
  <1>6. CASE Interfere
    BY <1>1, <1>6 DEF Interfere
  <1>7. CASE Complete
    BY <1>1, <1>7 DEF Complete
  <1>8. CASE Abandon
    BY <1>1, <1>8 DEF Abandon
  <1>9. CASE UNCHANGED nestedVars
    BY <1>1, <1>9 DEF nestedVars, RefusedInv
  <1> QED BY <1>2, <1>3, <1>4, <1>5, <1>6, <1>7, <1>8, <1>9 DEF NestedNext

\* A program whose rows are told apart by their ids is refused only for what it says:
\* two mutations for one row, or two intents that a relation to one row cannot have,
\* or the deletion of that row ahead of a request that may be for it, or the deletion
\* of members of a junction that a `set` or an updateMany has gone before
\* (OwnWriteLedger.assertIndependent, relation-mutation-parser.ts:34).
THEOREM RefusedIsContradictionHolds == NestedSpec => []RefusedIsContradiction
  <1>1. NestedInit => RefusedInv
    BY DEF NestedInit, RefusedInv, Programmed
  <1>2. RefusedInv /\ [NestedNext]_nestedVars => RefusedInv'
    BY RefusedSteps
  <1>3. RefusedInv => RefusedIsContradiction
    BY DEF RefusedInv, Contradicts, RefusedIsContradiction
  <1> QED BY <1>1, <1>2, <1>3, PTL DEF NestedSpec
=============================================================================
