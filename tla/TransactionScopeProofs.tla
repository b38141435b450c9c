----------------------- MODULE TransactionScopeProofs -----------------------
(***************************************************************************)
(* For every tree of scopes and every set of statements: the transaction    *)
(* is all or nothing, no failure is lost in silence, every statement        *)
(* reaches the server in its own savepoint, and the connection is quiet     *)
(* when COMMIT, ROLLBACK or RELEASE goes out.                               *)
(*                                                                         *)
(* Two inductive invariants, one on top of the other.  IInv: work in        *)
(* progress lies in scopes that are all Open; Decide cannot leave Open      *)
(* while a job of a child is on activeOperations, and TreeAssumption        *)
(* supplies that child for every scope further down.  LogInv: the server's  *)
(* savepoints are those of scopes nested in each other, the scope that      *)
(* talks to the server is the innermost one (StartsInnermost), and as long  *)
(* as the transaction may still commit every statement's work is in the     *)
(* frame it belongs to, or was undone with a scope around it.               *)
(***************************************************************************)
EXTENDS TransactionScope, TLAPS

LEMMA InitInv == Init => IInv
  <1> SUFFICES ASSUME Init PROVE IInv
    OBVIOUS
  <1>1. TypeOK
    BY TreeAssumption DEF Init, TypeOK, OpStates, ScopeStates, Endings, Nested
  <1>2. DriverGiven /\ ClosedAfterBody
    BY TreeAssumption DEF Init, DriverGiven, ClosedAfterBody, Nested
  <1>3. WorkIsInOpenScopes
    BY TreeAssumption DEF Init, WorkIsInOpenScopes, HoldsQueue, Nested
  <1> QED BY <1>1, <1>2, <1>3 DEF IInv

\* A scope that is not Open has no work below it, so moving it disturbs nothing
\* but, if it comes to hold its parent's queue, what is asked of its ancestors.
LEMMA MoveKeepsWork ==
  ASSUME IInv, NEW n \in Scopes, NEW v, scope[n] \notin Open,
         scope' = [scope EXCEPT ![n] = v],
         v \in HoldsQueue \cup {"queued"} => scope[n] \in HoldsQueue \cup {"queued"},
         \A o \in Ops : op'[o] \in {"queued", "running"} =>
                          op[o] \in {"queued", "running"}
  PROVE  WorkIsInOpenScopes'
  <1>1. \A s \in Scopes : scope'[s] = IF s = n THEN v ELSE scope[s]
    BY DEF IInv, TypeOK
  <1>2. \A o \in Ops : \A a \in Chain(ScopeOf[o]) : a \in Scopes
    BY TreeAssumption DEF Chain
  <1>3. \A s \in Scopes : \A a \in Above[s] : a \in Scopes
    BY TreeAssumption
  <1> QED BY <1>1, <1>2, <1>3 DEF IInv, WorkIsInOpenScopes

\* The same for the other two parts, as long as no body is entered or left.
LEMMA MoveKeepsDrivers ==
  ASSUME IInv, NEW n \in Scopes, NEW v, scope[n] # "body", v # "called",
         scope' = [scope EXCEPT ![n] = v], closed' = closed,
         \A o \in Ops : op'[o] \in {"called", "queued", "running"} =>
                          op[o] \in {"called", "queued", "running"}
  PROVE  DriverGiven'
  <1>1. \A s \in Scopes : scope'[s] = IF s = n THEN v ELSE scope[s]
    BY DEF IInv, TypeOK
  <1> QED BY <1>1, TreeAssumption DEF IInv, DriverGiven, HasDriver, Nested

LEMMA MoveKeepsClosed ==
  ASSUME IInv, NEW n \in Scopes, NEW v,
         scope' = [scope EXCEPT ![n] = v], closed' = closed,
         v \in {"idle", "refused", "called", "queued", "starting", "opening",
                "body", "barring", "rejected"} => ~closed[n]
  PROVE  ClosedAfterBody'
  <1>1. \A s \in Scopes : scope'[s] = IF s = n THEN v ELSE scope[s]
    BY DEF IInv, TypeOK
  <1> QED BY <1>1 DEF IInv, ClosedAfterBody

-----------------------------------------------------------------------------

LEMMA CallOpInv ==
  ASSUME IInv, NEW o \in Ops, CallOp(o) PROVE IInv'
  <1>1. TypeOK'
    BY DEF CallOp, IInv, TypeOK, OpStates
  <1>2. \A p \in Ops : op'[p] = IF p = o THEN op'[o] ELSE op[p]
    BY DEF CallOp, IInv, TypeOK
  <1>3. op'[o] \in {"refused", "called"}
    BY DEF CallOp, IInv, TypeOK
  <1>4. DriverGiven'
    BY <1>2, <1>3 DEF CallOp, IInv, DriverGiven, HasDriver
  <1>5. ClosedAfterBody'
    BY DEF CallOp, IInv, ClosedAfterBody
  <1>6. WorkIsInOpenScopes'
    BY <1>2, <1>3 DEF CallOp, IInv, WorkIsInOpenScopes
  <1> QED BY <1>1, <1>4, <1>5, <1>6 DEF IInv

\* An open scope that gave out its driver is in its body, and so are the scopes
\* it is nested in.
LEMMA OpenScopeFacts ==
  ASSUME IInv, NEW s \in Scopes, HasDriver(s), IsOpen(s)
  PROVE  \A a \in Chain(s) : scope[a] \in Open
  <1>1. scope[s] = "body"
    BY DEF HasDriver, IsOpen, Chain
  <1> QED BY <1>1 DEF IInv, WorkIsInOpenScopes, HoldsQueue, Chain, Open

LEMMA AdmitOpInv ==
  ASSUME IInv, NEW o \in Ops, AdmitOp(o) PROVE IInv'
  <1> DEFINE s == ScopeOf[o]
  <1>s. s \in Scopes
    BY TreeAssumption
  <1>1. TypeOK'
    <2>1. CASE IsOpen(s)
      <3>1. Append(line[s], o) \in Seq(Ops \cup Nested)
        BY <1>s DEF IInv, TypeOK
      <3> QED BY <1>s, <2>1, <3>1 DEF AdmitOp, IInv, TypeOK, OpStates
    <2>2. CASE ~IsOpen(s)
      BY <1>s, <2>2 DEF AdmitOp, IInv, TypeOK, OpStates, Poison
    <2> QED BY <2>1, <2>2
  <1>2. \A p \in Ops : op'[p] = IF p = o THEN op'[o] ELSE op[p]
    BY DEF AdmitOp, IInv, TypeOK
  <1>3. \/ IsOpen(s) /\ op'[o] = "queued"
        \/ op'[o] = "rejected"
    BY DEF AdmitOp, IInv, TypeOK
  <1>4. UNCHANGED <<scope, closed>> /\ op[o] = "called"
    BY DEF AdmitOp
  <1>5. DriverGiven'
    BY <1>2, <1>3, <1>4 DEF IInv, DriverGiven, HasDriver
  <1>6. ClosedAfterBody'
    BY <1>4 DEF IInv, ClosedAfterBody
  <1>7. IsOpen(s) => \A a \in Chain(s) : scope[a] \in Open
    BY <1>s, <1>4, OpenScopeFacts DEF IInv, DriverGiven
  <1>8. WorkIsInOpenScopes'
    BY <1>2, <1>3, <1>4, <1>7 DEF IInv, WorkIsInOpenScopes
  <1> QED BY <1>1, <1>5, <1>6, <1>8 DEF IInv

LEMMA StartOpInv ==
  ASSUME IInv, NEW o \in Ops, StartOp(o) PROVE IInv'
  <1> DEFINE s == ScopeOf[o]
  <1>s. s \in Scopes /\ Tail(line[s]) \in Seq(Ops \cup Nested)
    BY TreeAssumption DEF StartOp, AtHead, IInv, TypeOK
  <1>1. TypeOK'
    <2>1. CASE Committable(s)
      BY <1>s, <2>1 DEF StartOp, IInv, TypeOK, OpStates
    <2>2. CASE ~Committable(s)
      BY <1>s, <2>2 DEF StartOp, IInv, TypeOK, OpStates, Poison
    <2> QED BY <2>1, <2>2
  <1>2. \A p \in Ops : op'[p] = IF p = o THEN op'[o] ELSE op[p]
    BY DEF StartOp, IInv, TypeOK
  <1>q. op[o] = "queued" /\ op'[o] \in {"running", "rejected"}
    BY DEF StartOp, IInv, TypeOK
  <1>3. UNCHANGED <<scope, closed>>
    BY DEF StartOp
  <1>4. DriverGiven'
    BY <1>2, <1>q, <1>3 DEF IInv, DriverGiven, HasDriver
  <1>5. ClosedAfterBody'
    BY <1>3 DEF IInv, ClosedAfterBody
  <1>6. WorkIsInOpenScopes'
    BY <1>2, <1>q, <1>3 DEF IInv, WorkIsInOpenScopes
  <1> QED BY <1>1, <1>4, <1>5, <1>6 DEF IInv

LEMMA FinishOpInv ==
  ASSUME IInv, NEW o \in Ops, FinishOp(o) PROVE IInv'
  <1>1. TypeOK'
    <2>1. op' \in [Ops -> OpStates]
      BY DEF FinishOp, IInv, TypeOK, OpStates
    <2>2. rollbackOnly' \in [Scopes -> BOOLEAN]
      BY DEF FinishOp, IInv, TypeOK, Poison
    <2>3. UNCHANGED <<scope, line, closed, savepointActive, outcome, cleanupFailed,
                      observed, committed>>
      BY DEF FinishOp
    <2> QED BY <2>1, <2>2, <2>3 DEF IInv, TypeOK
  <1>2. \A p \in Ops : op'[p] \in {"called", "queued", "running"} => op[p] = op'[p]
    BY DEF FinishOp, IInv, TypeOK
  <1>3. UNCHANGED <<scope, closed>>
    BY DEF FinishOp
  <1>4. DriverGiven'
    BY <1>2, <1>3 DEF IInv, DriverGiven, HasDriver
  <1>5. ClosedAfterBody'
    BY <1>3 DEF IInv, ClosedAfterBody
  <1>6. WorkIsInOpenScopes'
    BY <1>2, <1>3 DEF IInv, WorkIsInOpenScopes
  <1> QED BY <1>1, <1>4, <1>5, <1>6 DEF IInv

-----------------------------------------------------------------------------

LEMMA CallNestedInv ==
  ASSUME IInv, NEW n \in Nested, CallNested(n) PROVE IInv'
  <1>n. n \in Scopes
    BY DEF Nested
  <1>1. TypeOK'
    BY DEF CallNested, IInv, TypeOK, ScopeStates
  <1> DEFINE v == IF savepointActive[Parent[n]] THEN "refused" ELSE "called"
  <1>2. scope' = [scope EXCEPT ![n] = v] /\ UNCHANGED <<closed, op>> /\ scope[n] = "idle"
    BY DEF CallNested
  <1>3. DriverGiven'
    <2>1. \A s \in Scopes : scope'[s] = IF s = n THEN v ELSE scope[s]
      BY <1>2 DEF IInv, TypeOK
    <2>2. Parent[n] # n
      BY TreeAssumption DEF Nested
    <2>3. HasDriver(Parent[n])
      BY DEF CallNested
    <2> QED BY <1>2, <2>1, <2>2, <2>3, TreeAssumption
            DEF IInv, DriverGiven, HasDriver, Nested
  <1>4. ~closed[n]
    BY <1>n, <1>2 DEF IInv, ClosedAfterBody
  <1>5. ClosedAfterBody'
    BY <1>n, <1>2, <1>4, MoveKeepsClosed
  <1>6. WorkIsInOpenScopes'
    BY <1>n, <1>2, MoveKeepsWork DEF Open, HoldsQueue
  <1> QED BY <1>1, <1>3, <1>5, <1>6 DEF IInv

LEMMA ObserveInv ==
  ASSUME IInv, NEW n \in Nested, Observe(n) PROVE IInv'
  <1>1. UNCHANGED <<op, scope, line, closed, rollbackOnly, savepointActive,
                    outcome, cleanupFailed, committed>>
        /\ observed' = [observed EXCEPT ![n] = TRUE]
    BY DEF Observe
  <1>2. TypeOK'
    BY <1>1 DEF IInv, TypeOK
  <1> QED BY <1>1, <1>2 DEF IInv, DriverGiven, HasDriver, ClosedAfterBody,
                            WorkIsInOpenScopes

LEMMA AdmitNestedInv ==
  ASSUME IInv, NEW n \in Nested, AdmitNested(n) PROVE IInv'
  <1> DEFINE p == Parent[n]
  <1> DEFINE v == IF IsOpen(p) THEN "queued" ELSE "barring"
  <1>n. n \in Scopes /\ p \in Scopes
    BY TreeAssumption DEF Nested
  <1>2. scope' = [scope EXCEPT ![n] = v] /\ UNCHANGED <<closed, op>> /\ scope[n] = "called"
    BY DEF AdmitNested
  <1>1. TypeOK'
    <2>1. line' \in [Scopes -> Seq(Ops \cup Nested)]
      <3>1. Append(line[p], n) \in Seq(Ops \cup Nested)
        BY <1>n DEF IInv, TypeOK
      <3> QED BY <3>1, <1>n DEF AdmitNested, IInv, TypeOK
    <2>2. scope' \in [Scopes -> ScopeStates]
      BY <1>2 DEF IInv, TypeOK, ScopeStates
    <2>3. UNCHANGED <<op, closed, rollbackOnly, savepointActive, outcome,
                      cleanupFailed, observed, committed>>
      BY DEF AdmitNested
    <2> QED BY <2>1, <2>2, <2>3 DEF IInv, TypeOK
  <1>3. DriverGiven'
    <2>1. v # "called" /\ scope[n] # "body"
      BY <1>2
    <2> QED BY <1>n, <1>2, <2>1, MoveKeepsDrivers
  <1>4. ~closed[n]
    BY <1>n, <1>2 DEF IInv, ClosedAfterBody
  <1>5. ClosedAfterBody'
    BY <1>n, <1>2, <1>4, MoveKeepsClosed
  <1>6. WorkIsInOpenScopes'
    <2>1. \A s \in Scopes : scope'[s] = IF s = n THEN v ELSE scope[s]
      BY <1>2 DEF IInv, TypeOK
    <2>2. scope[n] \notin Open
      BY <1>2 DEF Open
    <2>3. HasDriver(p)
      BY <1>2 DEF IInv, DriverGiven
    <2>4. IsOpen(p) => \A a \in Above[n] : scope[a] \in Open
      BY <1>n, <2>3, OpenScopeFacts, TreeAssumption DEF Chain
    <2>5. \A o \in Ops : Chain(ScopeOf[o]) \subseteq Scopes
      BY TreeAssumption DEF Chain
    <2>6. \A s \in Scopes : Above[s] \subseteq Scopes /\ s \notin Above[s]
      BY TreeAssumption
    <2>7. "barring" \notin HoldsQueue \cup {"queued"}
      BY DEF HoldsQueue
    <2> QED BY <1>2, <2>1, <2>2, <2>4, <2>5, <2>6, <2>7 DEF IInv, WorkIsInOpenScopes
  <1> QED BY <1>1, <1>3, <1>5, <1>6 DEF IInv

LEMMA StartNestedInv ==
  ASSUME IInv, NEW n \in Nested, StartNested(n) PROVE IInv'
  <1> DEFINE p == Parent[n]
  <1> DEFINE v == IF Committable(p) THEN "starting" ELSE "failing"
  <1>n. n \in Scopes /\ p \in Scopes
    BY TreeAssumption DEF Nested
  <1>1. scope' = [scope EXCEPT ![n] = v] /\ UNCHANGED <<closed, op>> /\ scope[n] = "queued"
    BY DEF StartNested
  <1>2. TypeOK'
    <2>1. line' \in [Scopes -> Seq(Ops \cup Nested)]
      <3>1. Tail(line[p]) \in Seq(Ops \cup Nested)
        BY <1>n DEF StartNested, AtHead, IInv, TypeOK
      <3> QED BY <3>1, <1>n DEF StartNested, IInv, TypeOK
    <2>2. scope' \in [Scopes -> ScopeStates]
      BY <1>1 DEF IInv, TypeOK, ScopeStates
    <2>3. savepointActive' \in [Scopes -> BOOLEAN]
      BY <1>n DEF StartNested, IInv, TypeOK
    <2>4. UNCHANGED <<op, closed, rollbackOnly, outcome, cleanupFailed, observed,
                      committed>>
      BY DEF StartNested
    <2> QED BY <2>1, <2>2, <2>3, <2>4 DEF IInv, TypeOK
  <1>3. DriverGiven'
    BY <1>n, <1>1, MoveKeepsDrivers
  <1>4. ~closed[n]
    BY <1>n, <1>1 DEF IInv, ClosedAfterBody
  <1>5. ClosedAfterBody'
    BY <1>n, <1>1, <1>4, MoveKeepsClosed
  <1>6. WorkIsInOpenScopes'
    BY <1>n, <1>1, MoveKeepsWork DEF Open
  <1> QED BY <1>2, <1>3, <1>5, <1>6 DEF IInv

\* The steps that only move one nested scope on, outside its callback, share
\* this shape.
LEMMA NestedMoveInv ==
  ASSUME IInv, NEW n \in Nested, NEW v \in ScopeStates \ {"called", "queued"},
         scope[n] \notin Open, scope' = [scope EXCEPT ![n] = v],
         UNCHANGED <<op, line, closed, outcome, observed, committed>>,
         rollbackOnly' \in [Scopes -> BOOLEAN],
         savepointActive' \in [Scopes -> BOOLEAN],
         cleanupFailed' \in [Scopes -> BOOLEAN],
         v \in HoldsQueue => scope[n] \in HoldsQueue,
         v \in {"idle", "refused", "starting", "opening", "body", "barring",
                "rejected"} => ~closed[n]
  PROVE  IInv'
  <1>n. n \in Scopes
    BY DEF Nested
  <1>1. TypeOK'
    <2>1. scope' \in [Scopes -> ScopeStates]
      BY <1>n DEF IInv, TypeOK
    <2> QED BY <2>1 DEF IInv, TypeOK
  <1>2. DriverGiven'
    BY <1>n, MoveKeepsDrivers DEF Open
  <1>3. ClosedAfterBody'
    BY <1>n, MoveKeepsClosed
  <1>4. WorkIsInOpenScopes'
    BY <1>n, MoveKeepsWork
  <1> QED BY <1>1, <1>2, <1>3, <1>4 DEF IInv

LEMMA FlagTypes ==
  ASSUME IInv
  PROVE  /\ rollbackOnly \in [Scopes -> BOOLEAN]
         /\ savepointActive \in [Scopes -> BOOLEAN]
         /\ cleanupFailed \in [Scopes -> BOOLEAN]
         /\ \A s \in Scopes : [rollbackOnly EXCEPT ![s] = TRUE] \in [Scopes -> BOOLEAN]
         /\ \A n \in Nested : [savepointActive EXCEPT ![Parent[n]] = FALSE]
                                 \in [Scopes -> BOOLEAN]
         /\ \A s \in Scopes : [cleanupFailed EXCEPT ![s] = TRUE] \in [Scopes -> BOOLEAN]
  BY TreeAssumption DEF IInv, TypeOK, Nested

LEMMA CheckNestedInv ==
  ASSUME IInv, NEW n \in Nested, CheckNested(n) PROVE IInv'
  <1>0. Root \in Scopes
    BY TreeAssumption
  <1>1. scope[n] = "starting" /\ ~closed[n]
    BY DEF CheckNested, IInv, ClosedAfterBody, Nested
  <1>2. CASE Committable(Parent[n])
    <2>1. scope' = [scope EXCEPT ![n] = "opening"]
          /\ UNCHANGED <<savepointActive, rollbackOnly>>
      BY <1>2 DEF CheckNested
    <2> QED BY <1>1, <2>1, NestedMoveInv, FlagTypes
            DEF CheckNested, ScopeStates, Open, HoldsQueue
  <1>3. CASE ~Committable(Parent[n])
    <2>1. scope' = [scope EXCEPT ![n] = "failing"]
          /\ savepointActive' = [savepointActive EXCEPT ![Parent[n]] = FALSE]
          /\ rollbackOnly' = [rollbackOnly EXCEPT ![Root] = TRUE]
      BY <1>3 DEF CheckNested, FailNested, Poison
    <2> QED BY <1>0, <1>1, <2>1, NestedMoveInv, FlagTypes
            DEF CheckNested, ScopeStates, Open, HoldsQueue
  <1> QED BY <1>2, <1>3

LEMMA OpenSavepointInv ==
  ASSUME IInv, NEW n \in Nested, OpenSavepoint(n) PROVE IInv'
  <1>0. Root \in Scopes
    BY TreeAssumption
  <1>1. scope[n] = "opening" /\ ~closed[n]
    BY DEF OpenSavepoint, IInv, ClosedAfterBody, Nested
  <1>2. CASE scope' = [scope EXCEPT ![n] = "body"]
             /\ UNCHANGED <<savepointActive, rollbackOnly>>
    BY <1>1, <1>2, NestedMoveInv, FlagTypes DEF OpenSavepoint, ScopeStates, Open, HoldsQueue
  <1>3. CASE FailNested(n) /\ Poison(Root)
    BY <1>0, <1>1, <1>3, NestedMoveInv, FlagTypes
       DEF OpenSavepoint, FailNested, Poison, ScopeStates, Open, HoldsQueue
  <1> QED BY <1>2, <1>3 DEF OpenSavepoint

-----------------------------------------------------------------------------

LEMMA CloseScopeInv ==
  ASSUME IInv, NEW s \in Scopes, CloseScope(s) PROVE IInv'
  <1>1. /\ scope[s] = "body"
        /\ scope' = [scope EXCEPT ![s] = "draining"]
        /\ closed' = [closed EXCEPT ![s] = TRUE]
        /\ UNCHANGED op
    BY DEF CloseScope
  <1>2. \A x \in Scopes : /\ scope'[x] = IF x = s THEN "draining" ELSE scope[x]
                         /\ closed'[x] = IF x = s THEN TRUE ELSE closed[x]
    BY <1>1 DEF IInv, TypeOK
  <1>3. TypeOK'
    <2>1. scope' \in [Scopes -> ScopeStates] /\ closed' \in [Scopes -> BOOLEAN]
      BY <1>1 DEF IInv, TypeOK, ScopeStates
    <2>2. outcome' \in [Scopes -> {"none"} \cup Endings]
      BY DEF CloseScope, IInv, TypeOK
    <2>3. rollbackOnly' \in [Scopes -> BOOLEAN]
      BY FlagTypes DEF CloseScope, Poison
    <2>4. UNCHANGED <<op, line, savepointActive, cleanupFailed, observed, committed>>
      BY DEF CloseScope
    <2> QED BY <2>1, <2>2, <2>3, <2>4 DEF IInv, TypeOK
  <1>4. DriverGiven'
    <2>1. \A x \in Scopes : HasDriver(x) => HasDriver(x)'
      BY <1>1, <1>2 DEF HasDriver
    <2>2. \A n \in Nested : scope'[n] = "called" => scope[n] = "called"
      BY <1>2 DEF Nested
    <2> QED BY <1>1, <2>1, <2>2, TreeAssumption DEF IInv, DriverGiven
  <1>5. ClosedAfterBody'
    BY <1>2 DEF IInv, ClosedAfterBody
  <1>6. WorkIsInOpenScopes'
    <2>1. \A x \in Scopes : scope[x] \in Open => scope'[x] \in Open
      BY <1>2 DEF Open
    <2>2. \A x \in Scopes : scope'[x] \in HoldsQueue \cup {"queued"} =>
                             scope[x] \in HoldsQueue \cup {"queued"}
      BY <1>1, <1>2 DEF HoldsQueue
    <2>3. \A x \in Scopes : Above[x] \subseteq Scopes
      BY TreeAssumption
    <2>4. \A o \in Ops : Chain(ScopeOf[o]) \subseteq Scopes
      BY TreeAssumption DEF Chain
    <2> QED BY <1>1, <2>1, <2>2, <2>3, <2>4 DEF IInv, WorkIsInOpenScopes
  <1> QED BY <1>3, <1>4, <1>5, <1>6 DEF IInv

\* Nothing at work below s goes by a way that does not lead over a child of s,
\* and that child's job is on activeOperations.
LEMMA DrainedMeansNoWork ==
  ASSUME IInv, NEW s \in Scopes, ActiveOps(s) = {}, ActiveNested(s) = {}
  PROVE  /\ \A o \in Ops : op[o] \in {"queued", "running"} => s \notin Chain(ScopeOf[o])
         /\ \A x \in Scopes : scope[x] \in HoldsQueue \cup {"queued"} => s \notin Above[x]
  <1>1. \A c \in Nested : Parent[c] = s => scope[c] \notin HoldsQueue \cup {"queued"}
    BY DEF ActiveNested
  <1>2. \A o \in Ops : ScopeOf[o] = s => op[o] \notin {"queued", "running"}
    BY DEF ActiveOps
  <1>3. Open \subseteq HoldsQueue
    BY DEF Open, HoldsQueue
  <1>4. \A x \in Scopes : scope[x] \in HoldsQueue \cup {"queued"} => s \notin Above[x]
    <2> SUFFICES ASSUME NEW x \in Scopes, scope[x] \in HoldsQueue \cup {"queued"},
                        s \in Above[x]
                 PROVE  FALSE
      OBVIOUS
    <2>1. PICK c \in (Above[x] \cup {x}) \cap Nested : Parent[c] = s
      BY TreeAssumption
    <2>2. c \in Above[x] => scope[c] \in Open
      BY DEF IInv, WorkIsInOpenScopes
    <2> QED BY <1>1, <1>3, <2>1, <2>2
  <1>5. \A o \in Ops : op[o] \in {"queued", "running"} => s \notin Chain(ScopeOf[o])
    <2> SUFFICES ASSUME NEW o \in Ops, op[o] \in {"queued", "running"},
                        s \in Chain(ScopeOf[o])
                 PROVE  FALSE
      OBVIOUS
    <2>1. s \in Above[ScopeOf[o]]
      BY <1>2 DEF Chain
    <2>2. scope[ScopeOf[o]] \in Open /\ ScopeOf[o] \in Scopes
      BY TreeAssumption DEF IInv, WorkIsInOpenScopes, Chain
    <2> QED BY <1>3, <1>4, <2>1, <2>2
  <1> QED BY <1>4, <1>5

LEMMA DecideInv ==
  ASSUME IInv, NEW s \in Scopes, Decide(s) PROVE IInv'
  <1> DEFINE v == IF outcome[s] = "returned" /\ Committable(s)
                  THEN "committing" ELSE "aborting"
  <1>1. scope[s] = "draining" /\ scope' = [scope EXCEPT ![s] = v] /\ UNCHANGED <<op, closed>>
    BY DEF Decide
  <1>2. v \in {"committing", "aborting"}
    OBVIOUS
  <1> HIDE DEF v
  <1>3. \A x \in Scopes : scope'[x] = IF x = s THEN v ELSE scope[x]
    BY <1>1 DEF IInv, TypeOK
  <1>4. TypeOK'
    <2>1. scope' \in [Scopes -> ScopeStates]
      BY <1>1, <1>2 DEF IInv, TypeOK, ScopeStates
    <2> QED BY <2>1 DEF Decide, IInv, TypeOK
  <1>5. DriverGiven'
    BY <1>1, <1>2, MoveKeepsDrivers
  <1>6. ClosedAfterBody'
    BY <1>1, <1>2, MoveKeepsClosed
  <1>7. WorkIsInOpenScopes'
    <2>1. /\ \A o \in Ops : op[o] \in {"queued", "running"} => s \notin Chain(ScopeOf[o])
          /\ \A x \in Scopes : scope[x] \in HoldsQueue \cup {"queued"} => s \notin Above[x]
      BY DrainedMeansNoWork DEF Decide
    <2>2. \A x \in Scopes : scope'[x] \in HoldsQueue \cup {"queued"} =>
                             scope[x] \in HoldsQueue \cup {"queued"}
      BY <1>1, <1>3 DEF HoldsQueue
    <2>3. \A x \in Scopes : Above[x] \subseteq Scopes
      BY TreeAssumption
    <2>4. \A o \in Ops : Chain(ScopeOf[o]) \subseteq Scopes
      BY TreeAssumption DEF Chain
    <2> QED BY <1>1, <1>3, <2>1, <2>2, <2>3, <2>4 DEF IInv, WorkIsInOpenScopes
  <1> QED BY <1>4, <1>5, <1>6, <1>7 DEF IInv

-----------------------------------------------------------------------------

LEMMA ReleaseInv ==
  ASSUME IInv, NEW n \in Nested, Release(n) PROVE IInv'
  <1>1. scope[n] = "committing"
    BY DEF Release
  <1>2. CASE /\ scope' = [scope EXCEPT ![n] = "succeeding"]
             /\ savepointActive' = [savepointActive EXCEPT ![Parent[n]] = FALSE]
    BY <1>1, <1>2, NestedMoveInv, FlagTypes DEF Release, ScopeStates, Open, HoldsQueue
  <1>3. CASE /\ scope' = [scope EXCEPT ![n] = "recovering"]
             /\ UNCHANGED savepointActive
    BY <1>1, <1>3, NestedMoveInv, FlagTypes DEF Release, ScopeStates, Open, HoldsQueue
  <1> QED BY <1>2, <1>3 DEF Release

LEMMA RollbackToInv ==
  ASSUME IInv, NEW n \in Nested, RollbackTo(n) PROVE IInv'
  <1> DEFINE v == IF scope[n] = "aborting" THEN "releasing" ELSE "rereleasing"
  <1>1. scope[n] \in {"aborting", "recovering"} /\ scope' = [scope EXCEPT ![n] = v]
    BY DEF RollbackTo
  <1>2. v \in {"releasing", "rereleasing"}
    OBVIOUS
  <1>3. cleanupFailed' \in [Scopes -> BOOLEAN]
    BY FlagTypes DEF RollbackTo, Nested
  <1> HIDE DEF v
  <1> QED BY <1>1, <1>2, <1>3, NestedMoveInv, FlagTypes
          DEF RollbackTo, ScopeStates, Open, HoldsQueue

LEMMA ReleaseAfterRollbackInv ==
  ASSUME IInv, NEW n \in Nested, ReleaseAfterRollback(n) PROVE IInv'
  <1>1. scope[n] \in {"releasing", "rereleasing"}
    BY DEF ReleaseAfterRollback
  <1>2. rollbackOnly' \in [Scopes -> BOOLEAN]
    <2>1. \/ UNCHANGED rollbackOnly
          \/ rollbackOnly' = [rollbackOnly EXCEPT ![Root] = TRUE]
      BY DEF ReleaseAfterRollback, Poison
    <2> QED BY <2>1, FlagTypes, TreeAssumption
  <1>3. /\ scope' = [scope EXCEPT ![n] = "failing"]
        /\ savepointActive' = [savepointActive EXCEPT ![Parent[n]] = FALSE]
    BY DEF ReleaseAfterRollback, FailNested
  <1> QED BY <1>1, <1>2, <1>3, NestedMoveInv, FlagTypes
          DEF ReleaseAfterRollback, ScopeStates, Open, HoldsQueue

LEMMA SettleNestedInv ==
  ASSUME IInv, NEW n \in Nested, SettleNested(n) PROVE IInv'
  <1> DEFINE v == SettledAs[scope[n]]
  <1>1. /\ scope[n] \in {"succeeding", "failing", "barring"}
        /\ scope' = [scope EXCEPT ![n] = v]
    BY DEF SettleNested
  <1>2. v \in {"done", "failed"} \/ (v = "rejected" /\ scope[n] = "barring")
    <2>1. /\ SettledAs["succeeding"] = "done"
          /\ SettledAs["failing"] = "failed"
          /\ SettledAs["barring"] = "rejected"
      BY DEF SettledAs
    <2> QED BY <1>1, <2>1
  <1>3. rollbackOnly' \in [Scopes -> BOOLEAN]
    <2>1. \/ UNCHANGED rollbackOnly
          \/ rollbackOnly' = [rollbackOnly EXCEPT ![Parent[n]] = TRUE]
      BY Zenon DEF SettleNested, Poison
    <2>2. n \in Nested /\ Parent[n] \in Scopes
      BY TreeAssumption
    <2> QED BY <2>1, <2>2, FlagTypes
  <1>4. scope[n] = "barring" => ~closed[n]
    BY DEF IInv, ClosedAfterBody, Nested
  <1> HIDE DEF v
  <1> QED BY <1>1, <1>2, <1>3, <1>4, NestedMoveInv, FlagTypes
          DEF SettleNested, ScopeStates, Open, HoldsQueue

LEMMA EndRootInv ==
  ASSUME IInv, EndRoot PROVE IInv'
  <1>0. Root \in Scopes
    BY TreeAssumption
  <1>1. PICK v \in {"done", "failed"} : scope' = [scope EXCEPT ![Root] = v]
    BY DEF EndRoot
  <1>2. scope[Root] \in {"committing", "aborting"} /\ UNCHANGED <<op, closed>>
    BY DEF EndRoot
  <1>3. TypeOK'
    <2>1. scope' \in [Scopes -> ScopeStates]
      BY <1>1 DEF IInv, TypeOK, ScopeStates
    <2>2. committed' \in SUBSET Ops
      BY DEF EndRoot, Surviving, IInv, TypeOK
    <2>3. UNCHANGED <<op, line, closed, rollbackOnly, savepointActive, outcome,
                      cleanupFailed, observed>>
      BY DEF EndRoot
    <2> QED BY <2>1, <2>2, <2>3 DEF IInv, TypeOK
  <1>4. DriverGiven'
    BY <1>0, <1>1, <1>2, MoveKeepsDrivers
  <1>5. ClosedAfterBody'
    BY <1>0, <1>1, <1>2, MoveKeepsClosed
  <1>6. WorkIsInOpenScopes'
    BY <1>0, <1>1, <1>2, MoveKeepsWork DEF Open, HoldsQueue
  <1> QED BY <1>3, <1>4, <1>5, <1>6 DEF IInv

-----------------------------------------------------------------------------

LEMMA StepInv == IInv /\ [Next]_vars => IInv'
  <1> SUFFICES ASSUME IInv, [Next]_vars PROVE IInv'
    OBVIOUS
  <1>1. CASE UNCHANGED vars
    BY <1>1 DEF vars, IInv, TypeOK, DriverGiven, HasDriver, ClosedAfterBody,
                WorkIsInOpenScopes
  <1>2. ASSUME NEW o \in Ops, CallOp(o) \/ OpStep(o) PROVE IInv'
    BY <1>2, CallOpInv, AdmitOpInv, StartOpInv, FinishOpInv DEF OpStep
  <1>3. ASSUME NEW n \in Nested, CallNested(n) \/ Observe(n) \/ NestedStep(n) PROVE IInv'
    BY <1>3, CallNestedInv, ObserveInv, AdmitNestedInv, StartNestedInv,
       CheckNestedInv, OpenSavepointInv, ReleaseInv, RollbackToInv,
       ReleaseAfterRollbackInv, SettleNestedInv DEF NestedStep
  <1>4. ASSUME NEW s \in Scopes, CloseScope(s) \/ Decide(s) PROVE IInv'
    BY <1>4, CloseScopeInv, DecideInv
  <1>5. CASE EndRoot
    BY <1>5, EndRootInv
  <1> QED BY <1>1, <1>2, <1>3, <1>4, <1>5 DEF Next

\* The inductive invariant holds in every reachable state: work in progress is in
\* scopes that have not yet drained (TransactionBoundDriver's bookkeeping).
THEOREM InvariantHolds == Spec => []IInv
  <1> QED BY InitInv, StepInv, PTL DEF Spec

\* When COMMIT, ROLLBACK or RELEASE of a scope goes out nothing below that scope is
\* queued or running (closeTransactionScope and waitForActiveOperations).
THEOREM QuiescenceHolds == Spec => []Quiescent
  <1>1. IInv => Quiescent
    <2> SUFFICES ASSUME IInv, NEW s \in Scopes,
                        scope[s] \in (HoldsQueue \cup Settled) \
                                       (Open \cup {"starting", "opening"})
                 PROVE  /\ \A o \in Ops : s \in Chain(ScopeOf[o]) =>
                                           op[o] \notin {"queued", "running"}
                        /\ \A n \in Nested : s \in Above[n] =>
                                           scope[n] \notin HoldsQueue \cup {"queued"}
      BY DEF Quiescent
    <2>1. scope[s] \notin Open
      OBVIOUS
    <2> QED BY <2>1 DEF IInv, WorkIsInOpenScopes, Nested
  <1> QED BY <1>1, InvariantHolds, PTL

-----------------------------------------------------------------------------
(***************************************************************************)
(* What a step may do to a statement, to a scope, to the marks and to the  *)
(* log: the facts about the actions that the rest is argued from.          *)
(***************************************************************************)

\* A statement moves only by its own actions.
LEMMA OpMoves ==
  ASSUME IInv, [Next]_vars, NEW o \in Ops, op'[o] # op[o]
  PROVE  \/ CallOp(o) /\ op'[o] \in {"refused", "called"}
         \/ AdmitOp(o) /\ op'[o] = "queued"
         \/ AdmitOp(o) /\ op'[o] = "rejected" /\ rollbackOnly'[ScopeOf[o]]
         \/ StartOp(o) /\ op'[o] = "running" /\ Committable(ScopeOf[o])
         \/ StartOp(o) /\ op'[o] = "rejected" /\ rollbackOnly'[ScopeOf[o]]
         \/ FinishOp(o) /\ op'[o] = "ok"
         \/ FinishOp(o) /\ op'[o] = "failed" /\ rollbackOnly'[ScopeOf[o]]
  <1>t. /\ op \in [Ops -> OpStates] /\ rollbackOnly \in [Scopes -> BOOLEAN]
        /\ ScopeOf[o] \in Scopes
    BY TreeAssumption DEF IInv, TypeOK
  <1>1. ASSUME NEW q \in Ops, CallOp(q) PROVE q = o /\ op'[o] \in {"refused", "called"}
    BY <1>t, <1>1 DEF CallOp
  <1>2. ASSUME NEW q \in Ops, AdmitOp(q)
        PROVE  /\ q = o
               /\ \/ op'[o] = "queued"
                  \/ op'[o] = "rejected" /\ rollbackOnly'[ScopeOf[o]]
    BY <1>t, <1>2 DEF AdmitOp, Poison
  <1>3. ASSUME NEW q \in Ops, StartOp(q)
        PROVE  /\ q = o
               /\ \/ op'[o] = "running" /\ Committable(ScopeOf[o])
                  \/ op'[o] = "rejected" /\ rollbackOnly'[ScopeOf[o]]
    BY <1>t, <1>3 DEF StartOp, Poison
  <1>4. ASSUME NEW q \in Ops, FinishOp(q)
        PROVE  /\ q = o
               /\ \/ op'[o] = "ok"
                  \/ op'[o] = "failed" /\ rollbackOnly'[ScopeOf[o]]
    BY <1>t, <1>4 DEF FinishOp, Poison
  <1>5. ASSUME NEW n \in Nested, CallNested(n) \/ Observe(n) \/ NestedStep(n) PROVE op' = op
    BY <1>5 DEF CallNested, Observe, NestedStep, AdmitNested, StartNested, CheckNested,
                OpenSavepoint, Release, RollbackTo, ReleaseAfterRollback, SettleNested
  <1>6. ASSUME NEW s \in Scopes, CloseScope(s) \/ Decide(s) PROVE op' = op
    BY <1>6 DEF CloseScope, Decide
  <1>7. EndRoot \/ UNCHANGED vars => op' = op
    BY DEF EndRoot, vars
  <1> QED BY <1>1, <1>2, <1>3, <1>4, <1>5, <1>6, <1>7 DEF Next, OpStep

\* So does a scope.
LEMMA ScopeMoves ==
  ASSUME IInv, [Next]_vars, NEW s \in Scopes, scope'[s] # scope[s]
  PROVE  \/ /\ s \in Nested
            /\ \/ CallNested(s) /\ scope'[s] \in {"refused", "called"}
               \/ AdmitNested(s) /\ scope'[s] \in {"queued", "barring"}
               \/ StartNested(s) /\ scope'[s] = "starting" /\ Committable(Parent[s])
               \/ StartNested(s) /\ scope'[s] = "failing"
               \/ CheckNested(s) /\ scope'[s] = "opening"
               \/ CheckNested(s) /\ scope'[s] = "failing" /\ rollbackOnly'[Root]
               \/ OpenSavepoint(s) /\ scope'[s] = "body" /\ log' = Append(log, Frame(s))
               \/ OpenSavepoint(s) /\ scope'[s] = "failing" /\ rollbackOnly'[Root]
               \/ /\ Release(s) /\ scope'[s] = "succeeding"
                  /\ Held(s) /\ log' = Released(s)
               \/ Release(s) /\ scope'[s] = "recovering"
               \/ /\ RollbackTo(s) /\ scope[s] = "aborting" /\ scope'[s] = "releasing"
                  /\ cleanupFailed'[s] \/ (Held(s) /\ log' = RolledBack(s))
               \/ RollbackTo(s) /\ scope[s] = "recovering" /\ scope'[s] = "rereleasing"
               \/ ReleaseAfterRollback(s) /\ scope'[s] = "failing"
               \/ SettleNested(s) /\ scope[s] = "succeeding" /\ scope'[s] = "done"
               \/ SettleNested(s) /\ scope[s] = "failing" /\ scope'[s] = "failed"
               \/ SettleNested(s) /\ scope[s] = "barring" /\ scope'[s] = "rejected"
         \/ CloseScope(s) /\ scope'[s] = "draining"
         \/ Decide(s) /\ scope'[s] = "committing" /\ Committable(s)
         \/ Decide(s) /\ scope'[s] = "aborting"
         \/ s = Root /\ EndRoot /\ scope'[s] \in {"done", "failed"}
  <1>t. /\ scope \in [Scopes -> ScopeStates] /\ rollbackOnly \in [Scopes -> BOOLEAN]
        /\ cleanupFailed \in [Scopes -> BOOLEAN] /\ Nested \subseteq Scopes /\ Root \in Scopes
    BY TreeAssumption DEF IInv, TypeOK, Nested
  <1>1. ASSUME NEW n \in Nested, CallNested(n)
        PROVE  n = s /\ scope'[s] \in {"refused", "called"}
    BY <1>t, <1>1 DEF CallNested
  <1>2. ASSUME NEW n \in Nested, AdmitNested(n)
        PROVE  n = s /\ scope'[s] \in {"queued", "barring"}
    BY <1>t, <1>2 DEF AdmitNested
  <1>3. ASSUME NEW n \in Nested, StartNested(n)
        PROVE  n = s /\ \/ scope'[s] = "starting" /\ Committable(Parent[s])
                        \/ scope'[s] = "failing"
    BY <1>t, <1>3 DEF StartNested
  <1>4. ASSUME NEW n \in Nested, CheckNested(n)
        PROVE  n = s /\ \/ scope'[s] = "opening"
                        \/ scope'[s] = "failing" /\ rollbackOnly'[Root]
    BY <1>t, <1>4 DEF CheckNested, FailNested, Poison
  <1>5. ASSUME NEW n \in Nested, OpenSavepoint(n)
        PROVE  n = s /\ \/ scope'[s] = "body" /\ log' = Append(log, Frame(s))
                        \/ scope'[s] = "failing" /\ rollbackOnly'[Root]
    BY <1>t, <1>5 DEF OpenSavepoint, FailNested, Poison
  <1>6. ASSUME NEW n \in Nested, Release(n)
        PROVE  n = s /\ \/ scope'[s] = "succeeding" /\ Held(s) /\ log' = Released(s)
                        \/ scope'[s] = "recovering"
    BY <1>t, <1>6 DEF Release
  <1>7. ASSUME NEW n \in Nested, RollbackTo(n)
        PROVE  n = s /\ \/ /\ scope[s] = "aborting" /\ scope'[s] = "releasing"
                           /\ cleanupFailed'[s] \/ (Held(s) /\ log' = RolledBack(s))
                        \/ scope[s] = "recovering" /\ scope'[s] = "rereleasing"
    BY <1>t, <1>7 DEF RollbackTo
  <1>8. ASSUME NEW n \in Nested, ReleaseAfterRollback(n) PROVE n = s /\ scope'[s] = "failing"
    BY <1>t, <1>8 DEF ReleaseAfterRollback, FailNested
  <1>9. ASSUME NEW n \in Nested, SettleNested(n)
        PROVE  n = s /\ \/ scope[s] = "succeeding" /\ scope'[s] = "done"
                        \/ scope[s] = "failing" /\ scope'[s] = "failed"
                        \/ scope[s] = "barring" /\ scope'[s] = "rejected"
    <2>1. /\ SettledAs["succeeding"] = "done" /\ SettledAs["failing"] = "failed"
          /\ SettledAs["barring"] = "rejected"
      BY DEF SettledAs
    <2> QED BY <1>t, <1>9, <2>1 DEF SettleNested
  <1>10. ASSUME NEW n \in Nested, Observe(n) PROVE FALSE
    BY <1>10 DEF Observe
  <1>11. ASSUME NEW x \in Scopes, CloseScope(x) PROVE x = s /\ scope'[s] = "draining"
    BY <1>t, <1>11 DEF CloseScope
  <1>12. ASSUME NEW x \in Scopes, Decide(x)
         PROVE  x = s /\ \/ scope'[s] = "committing" /\ Committable(s)
                         \/ scope'[s] = "aborting"
    BY <1>t, <1>12 DEF Decide
  <1>13. CASE EndRoot
    BY <1>t, <1>13 DEF EndRoot
  <1>14. ASSUME NEW o \in Ops, CallOp(o) \/ OpStep(o) PROVE FALSE
    BY <1>14 DEF CallOp, OpStep, AdmitOp, StartOp, FinishOp
  <1>15. ASSUME UNCHANGED vars PROVE FALSE
    BY <1>15 DEF vars
  <1>16. ASSUME NEW n \in Nested, CallNested(n) \/ Observe(n) \/ NestedStep(n)
         PROVE  n = s /\ (CallNested(n) \/ Observe(n) \/ NestedStep(n))
    BY <1>16, <1>1, <1>2, <1>3, <1>4, <1>5, <1>6, <1>7, <1>8, <1>9, <1>10 DEF NestedStep
  <1>17. CASE \E n \in Nested : CallNested(n) \/ Observe(n) \/ NestedStep(n)
    <2>1. s \in Nested /\ (CallNested(s) \/ Observe(s) \/ NestedStep(s))
      BY <1>16, <1>17
    <2> QED BY <2>1, <1>1, <1>2, <1>3, <1>4, <1>5, <1>6, <1>7, <1>8, <1>9, <1>10 DEF NestedStep
  <1>18. CASE \E x \in Scopes : CloseScope(x) \/ Decide(x)
    BY <1>18, <1>11, <1>12
  <1> QED BY <1>13, <1>14, <1>15, <1>17, <1>18 DEF Next

\* Only these talk to the server.
LEMMA LogMoves ==
  ASSUME [Next]_vars, log' # log
  PROVE  \/ \E o \in Ops : FinishOp(o) /\ log' = Effect(o)
         \/ \E n \in Nested : /\ OpenSavepoint(n) /\ scope' = [scope EXCEPT ![n] = "body"]
                              /\ log' = Append(log, Frame(n))
         \/ \E n \in Nested : /\ Release(n) /\ scope' = [scope EXCEPT ![n] = "succeeding"]
                              /\ Held(n) /\ log' = Released(n)
         \/ \E n \in Nested : /\ RollbackTo(n) /\ Held(n) /\ log' = RolledBack(n)
                              /\ cleanupFailed' = cleanupFailed
         \/ \E n \in Nested : ReleaseAfterRollback(n) /\ Held(n) /\ log' = Released(n)
         \/ EndRoot /\ log' = <<Frame(Root)>>
  <1>1. ASSUME NEW o \in Ops, CallOp(o) \/ OpStep(o)
        PROVE  FinishOp(o) /\ log' = Effect(o)
    BY <1>1 DEF CallOp, OpStep, AdmitOp, StartOp, FinishOp
  <1>2. ASSUME NEW n \in Nested, CallNested(n) \/ Observe(n) \/ NestedStep(n)
        PROVE  \/ /\ OpenSavepoint(n) /\ scope' = [scope EXCEPT ![n] = "body"]
                  /\ log' = Append(log, Frame(n))
               \/ /\ Release(n) /\ scope' = [scope EXCEPT ![n] = "succeeding"]
                  /\ Held(n) /\ log' = Released(n)
               \/ /\ RollbackTo(n) /\ Held(n) /\ log' = RolledBack(n)
                  /\ cleanupFailed' = cleanupFailed
               \/ ReleaseAfterRollback(n) /\ Held(n) /\ log' = Released(n)
    <2>1. \/ OpenSavepoint(n) \/ Release(n) \/ RollbackTo(n) \/ ReleaseAfterRollback(n)
      BY <1>2 DEF CallNested, Observe, NestedStep, AdmitNested, StartNested, CheckNested,
                  SettleNested
    <2>2. CASE OpenSavepoint(n)
      BY <2>2 DEF OpenSavepoint
    <2>3. CASE Release(n)
      BY <2>3 DEF Release
    <2>4. CASE RollbackTo(n)
      BY <2>4 DEF RollbackTo
    <2>5. CASE ReleaseAfterRollback(n)
      BY <2>5 DEF ReleaseAfterRollback
    <2> QED BY <2>1, <2>2, <2>3, <2>4, <2>5
  <1>3. ASSUME NEW s \in Scopes, CloseScope(s) \/ Decide(s) PROVE FALSE
    BY <1>3 DEF CloseScope, Decide
  <1>4. ASSUME UNCHANGED vars PROVE FALSE
    BY <1>4 DEF vars
  <1>5. EndRoot => log' = <<Frame(Root)>>
    BY DEF EndRoot
  <1> QED BY <1>1, <1>2, <1>3, <1>4, <1>5 DEF Next

\* Marks are set and never taken back.
LEMMA MarksStay ==
  ASSUME IInv, [Next]_vars
  PROVE  /\ \A s \in Scopes : rollbackOnly[s] => rollbackOnly'[s]
         /\ \A s \in Scopes : closed'[s] => closed[s] \/ CloseScope(s)
         /\ \A s \in Scopes : closed[s] => closed'[s]
         /\ \A s \in Scopes : observed[s] => observed'[s]
         /\ committed' # committed => EndRoot
  <1>t. /\ rollbackOnly \in [Scopes -> BOOLEAN] /\ closed \in [Scopes -> BOOLEAN]
        /\ observed \in [Scopes -> BOOLEAN] /\ Root \in Scopes /\ Nested \subseteq Scopes
        /\ \A n \in Nested : Parent[n] \in Scopes
        /\ \A o \in Ops : ScopeOf[o] \in Scopes
    BY TreeAssumption DEF IInv, TypeOK, Nested
  <1>1. ASSUME NEW x \in Scopes, CloseScope(x) \/ Decide(x)
        PROVE  /\ rollbackOnly' = rollbackOnly \/ \E r \in Scopes : Poison(r)
               /\ closed' = closed \/ (closed' = [closed EXCEPT ![x] = TRUE] /\ CloseScope(x))
               /\ observed' = observed /\ committed' = committed
    BY <1>1 DEF CloseScope, Decide
  <1>2. ASSUME NEW n \in Nested, CallNested(n) \/ Observe(n) \/ NestedStep(n)
        PROVE  /\ rollbackOnly' = rollbackOnly \/ \E r \in Scopes : Poison(r)
               /\ closed' = closed /\ committed' = committed
               /\ observed' = observed \/ observed' = [observed EXCEPT ![n] = TRUE]
    BY <1>t, <1>2 DEF CallNested, Observe, NestedStep, AdmitNested, StartNested, CheckNested,
                OpenSavepoint, Release, RollbackTo, ReleaseAfterRollback, SettleNested
  <1>3. ASSUME NEW o \in Ops, CallOp(o) \/ OpStep(o)
        PROVE  /\ rollbackOnly' = rollbackOnly \/ \E r \in Scopes : Poison(r)
               /\ closed' = closed /\ committed' = committed /\ observed' = observed
    BY <1>t, <1>3 DEF CallOp, OpStep, AdmitOp, StartOp, FinishOp
  <1>4. EndRoot => UNCHANGED <<rollbackOnly, closed, observed>>
    BY DEF EndRoot
  <1>5. UNCHANGED vars => UNCHANGED <<rollbackOnly, closed, observed, committed>>
    BY DEF vars
  <1>6. rollbackOnly' = rollbackOnly \/ \E r \in Scopes : Poison(r)
    BY <1>1, <1>2, <1>3, <1>4, <1>5 DEF Next
  <1>7. /\ \/ closed' = closed
           \/ \E x \in Scopes : closed' = [closed EXCEPT ![x] = TRUE] /\ CloseScope(x)
        /\ observed' = observed \/ \E n \in Nested : observed' = [observed EXCEPT ![n] = TRUE]
        /\ committed' # committed => EndRoot
    BY <1>1, <1>2, <1>3, <1>4, <1>5 DEF Next
  <1>8. \A s \in Scopes : rollbackOnly[s] => rollbackOnly'[s]
    BY <1>t, <1>6 DEF Poison
  <1> QED BY <1>t, <1>7, <1>8

-----------------------------------------------------------------------------
(***************************************************************************)
(* The server's stack of savepoints.                                       *)
(***************************************************************************)

LEMMA LogFacts ==
  ASSUME SavepointsNest
  PROVE  /\ Len(log) \in Nat /\ 1 \in DOMAIN log /\ Len(log) \in DOMAIN log
         /\ DOMAIN log = 1..Len(log)
         /\ \A i \in DOMAIN log : /\ log[i] \in Frames /\ log[i].of \in Scopes
                                  /\ log[i].work \subseteq Ops
  <1>1. /\ log \in Seq(Frames) /\ log # <<>>
    BY DEF SavepointsNest
  <1>2. /\ Len(log) \in Nat /\ Len(log) # 0 /\ DOMAIN log = 1..Len(log)
        /\ \A i \in DOMAIN log : log[i] \in Frames
    BY <1>1
  <1>3. \A f \in Frames : f.of \in Scopes /\ f.work \subseteq Ops
    BY DEF Frames
  <1> QED BY <1>2, <1>3

\* A savepoint the server has, at a position after the transaction itself, and at
\* one only.
LEMMA PositionOf ==
  ASSUME SavepointsNest, NEW n \in Nested, Held(n)
  PROVE  /\ Position(n) \in 2..Len(log) /\ log[Position(n)].of = n
         /\ \A i \in DOMAIN log : log[i].of = n => i = Position(n)
  <1>1. Position(n) \in DOMAIN log /\ log[Position(n)].of = n
    BY DEF Held, Position
  <1>2. \A i, j \in DOMAIN log : log[i].of = n /\ log[j].of = n => i = j
    <2>1. \A i, j \in DOMAIN log : i < j => log[i].of # log[j].of
      BY LogFacts, TreeAssumption DEF SavepointsNest
    <2> QED BY <2>1, LogFacts
  <1>3. Position(n) # 1
    BY <1>1 DEF SavepointsNest, Nested
  <1> QED BY <1>1, <1>2, <1>3, LogFacts

LEMMA EffectFrames ==
  ASSUME SavepointsNest, NEW o \in Ops
  PROVE  /\ Effect(o) \in Seq(Frames) /\ Len(Effect(o)) = Len(log)
         /\ \A i \in DOMAIN log :
              /\ Effect(o)[i].of = log[i].of
              /\ Effect(o)[i].work = IF i = Len(log) THEN log[i].work \cup {o} ELSE log[i].work
  <1> DEFINE new == [log[Len(log)] EXCEPT !.work = @ \cup {o}]
  <1>1. /\ new \in Frames /\ new.of = log[Len(log)].of
        /\ new.work = log[Len(log)].work \cup {o}
    BY LogFacts DEF Frames
  <1> HIDE DEF new
  <1>2. Effect(o) = [log EXCEPT ![Len(log)] = new]
    BY DEF Effect, new
  <1>3. log \in Seq(Frames)
    BY DEF SavepointsNest
  <1>4. /\ Effect(o) \in Seq(Frames) /\ Len(Effect(o)) = Len(log)
        /\ \A i \in DOMAIN log : Effect(o)[i] = IF i = Len(log) THEN new ELSE log[i]
    BY <1>1, <1>2, <1>3, LogFacts
  <1> QED BY <1>1, <1>4

LEMMA OpenedFrames ==
  ASSUME SavepointsNest, NEW n \in Nested
  PROVE  LET new == Append(log, Frame(n)) IN
         /\ new \in Seq(Frames) /\ Len(new) = Len(log) + 1
         /\ \A i \in DOMAIN log : new[i] = log[i]
         /\ new[Len(log) + 1].of = n /\ new[Len(log) + 1].work = {}
  <1>1. Frame(n) \in Frames /\ Frame(n).of = n /\ Frame(n).work = {}
    BY DEF Frame, Frames, Nested
  <1> QED BY <1>1, LogFacts DEF SavepointsNest

LEMMA RolledBackFrames ==
  ASSUME SavepointsNest, NEW n \in Nested, Held(n)
  PROVE  /\ RolledBack(n) \in Seq(Frames) /\ Len(RolledBack(n)) = Position(n)
         /\ \A i \in 1..(Position(n) - 1) : RolledBack(n)[i] = log[i]
         /\ RolledBack(n)[Position(n)] = Frame(n)
         /\ RolledBack(n)[Position(n)].of = n /\ RolledBack(n)[Position(n)].work = {}
  <1>1. Frame(n) \in Frames /\ Frame(n).of = n /\ Frame(n).work = {}
    BY DEF Frame, Frames, Nested
  <1> DEFINE k == Position(n) - 1
             below == SubSeq(log, 1, k)
  <1>2. k \in 1..Len(log) /\ Position(n) = k + 1
    BY PositionOf, LogFacts
  <1>3. /\ below \in Seq(Frames) /\ Len(below) = k
        /\ \A i \in 1..k : below[i] = log[i]
    BY <1>2, LogFacts DEF SavepointsNest
  <1>4. RolledBack(n) = Append(below, Frame(n))
    BY DEF RolledBack
  <1> HIDE DEF k, below
  <1>5. /\ Append(below, Frame(n)) \in Seq(Frames) /\ Len(Append(below, Frame(n))) = k + 1
        /\ \A i \in 1..k : Append(below, Frame(n))[i] = below[i]
        /\ Append(below, Frame(n))[k + 1] = Frame(n)
    BY <1>1, <1>2, <1>3
  <1> QED BY <1>1, <1>2, <1>3, <1>4, <1>5 DEF k

LEMMA ReleasedFrames ==
  ASSUME SavepointsNest, NEW n \in Nested, Held(n)
  PROVE  LET k == Position(n) - 1 IN
         /\ Released(n) \in Seq(Frames) /\ Len(Released(n)) = k /\ k \in 1..Len(log)
         /\ \A i \in 1..k :
              /\ Released(n)[i].of = log[i].of
              /\ Released(n)[i].work =
                   IF i = k THEN log[k].work \cup UNION {log[j].work : j \in Position(n)..Len(log)}
                   ELSE log[i].work
  <1> DEFINE k == Position(n) - 1
             below == SubSeq(log, 1, k)
             kept == UNION {log[j].work : j \in Position(n)..Len(log)}
             new == [below[k] EXCEPT !.work = @ \cup kept]
  <1>1. k \in 1..Len(log) /\ k \in Nat
    BY PositionOf, LogFacts
  <1>2. /\ below \in Seq(Frames) /\ Len(below) = k
        /\ \A i \in 1..k : below[i] = log[i]
    BY <1>1, LogFacts DEF SavepointsNest
  <1>3. kept \subseteq Ops
    BY LogFacts, PositionOf
  <1>4. /\ new \in Frames /\ new.of = log[k].of /\ new.work = log[k].work \cup kept
    <2>1. below[k] = log[k] /\ log[k] \in Frames
      BY <1>1, <1>2, LogFacts
    <2>2. new = [log[k] EXCEPT !.work = @ \cup kept]
      BY <2>1
    <2> QED BY <1>3, <2>1, <2>2 DEF Frames
  <1>5. Released(n) = [below EXCEPT ![k] = new]
    BY DEF Released
  <1> HIDE DEF k, below, kept, new
  <1>6. /\ Released(n) \in Seq(Frames) /\ Len(Released(n)) = k
        /\ \A i \in 1..k : Released(n)[i] = IF i = k THEN new ELSE below[i]
    BY <1>1, <1>2, <1>4, <1>5
  <1>7. \A i \in 1..k : /\ Released(n)[i].of = log[i].of
                        /\ Released(n)[i].work = IF i = k THEN log[k].work \cup kept
                                                 ELSE log[i].work
    BY <1>1, <1>2, <1>4, <1>6
  <1> QED BY <1>1, <1>6, <1>7 DEF k, kept

-----------------------------------------------------------------------------
(***************************************************************************)
(* The parts of LogInv, one after the other.                               *)
(***************************************************************************)

LEMMA TreeFacts ==
  /\ Root \in Scopes /\ Root \notin Nested /\ Nested \subseteq Scopes
  /\ \A o \in Ops : ScopeOf[o] \in Scopes /\ Root \in Chain(ScopeOf[o])
  /\ \A n \in Nested : /\ Parent[n] \in Scopes /\ Parent[n] \in Above[n] /\ n # Parent[n]
                       /\ Above[n] = Above[Parent[n]] \cup {Parent[n]}
                       /\ Root \in Above[n]
  /\ \A s \in Scopes : Above[s] \subseteq Scopes /\ Chain(s) \subseteq Scopes /\ s \in Chain(s)
                       /\ s \notin Above[s] /\ Root \in Chain(s)
  BY TreeAssumption DEF Nested, Chain

\* No action of another scope, or of the environment, puts a job into a queue's hands.
LEMMA QueueMoves ==
  ASSUME IInv, [Next]_vars
  PROVE  /\ \A o \in Ops : op'[o] = "running" /\ op[o] # "running" =>
              /\ StartOp(o) /\ Committable(ScopeOf[o])
              /\ scope' = scope /\ log' = log
              /\ \A q \in Ops \ {o} : op'[q] = op[q]
         /\ \A n \in Nested : scope'[n] \in HoldsQueue /\ scope[n] \notin HoldsQueue =>
              /\ StartNested(n) /\ Committable(Parent[n]) /\ scope'[n] = "starting"
              /\ op' = op /\ log' = log
              /\ \A m \in Scopes \ {n} : scope'[m] = scope[m]
  <1>1. ASSUME NEW o \in Ops, op'[o] = "running", op[o] # "running"
        PROVE  /\ StartOp(o) /\ Committable(ScopeOf[o])
               /\ scope' = scope /\ log' = log
               /\ \A q \in Ops \ {o} : op'[q] = op[q]
    <2>1. StartOp(o) /\ Committable(ScopeOf[o])
      BY <1>1, OpMoves
    <2> QED BY <2>1 DEF StartOp, IInv, TypeOK
  <1>2. ASSUME NEW n \in Nested, scope'[n] \in HoldsQueue, scope[n] \notin HoldsQueue
        PROVE  /\ StartNested(n) /\ Committable(Parent[n]) /\ scope'[n] = "starting"
               /\ op' = op /\ log' = log
               /\ \A m \in Scopes \ {n} : scope'[m] = scope[m]
    <2>1. StartNested(n) /\ Committable(Parent[n]) /\ scope'[n] = "starting"
      <3>1. n \in Scopes /\ n # Root /\ scope'[n] # scope[n]
        BY <1>2, TreeFacts
      <3>2. scope[n] \notin {"starting", "opening", "body", "draining", "committing", "aborting",
                             "recovering", "releasing", "rereleasing"}
        BY <1>2 DEF HoldsQueue
      <3>3. scope'[n] \notin {"refused", "called", "queued", "barring", "failing", "succeeding",
                              "done", "failed", "rejected"}
        BY <1>2 DEF HoldsQueue
      <3> QED BY <3>1, <3>2, <3>3, ScopeMoves
              DEF CheckNested, OpenSavepoint, Release, RollbackTo, ReleaseAfterRollback,
                  CloseScope, Decide
    <2> QED BY <2>1 DEF StartNested, IInv, TypeOK
  <1> QED BY <1>1, <1>2

LEMMA OneJobStep ==
  ASSUME IInv, OneJobAtATime, [Next]_vars PROVE OneJobAtATime'
  <1>1. \A o \in Ops : op'[o] = "running" /\ op[o] # "running" => ~Busy(ScopeOf[o])
    BY QueueMoves DEF StartOp, AtHead
  <1>2. \A n \in Nested : scope'[n] \in HoldsQueue /\ scope[n] \notin HoldsQueue =>
          ~Busy(Parent[n])
    BY QueueMoves DEF StartNested, AtHead
  <1>3. ASSUME NEW o \in Ops, NEW q \in Ops, op'[o] = "running", op'[q] = "running",
               ScopeOf[o] = ScopeOf[q]
        PROVE  o = q
    BY <1>1, <1>3, QueueMoves DEF OneJobAtATime, Busy
  <1>4. ASSUME NEW m \in Nested, NEW n \in Nested, scope'[m] \in HoldsQueue,
               scope'[n] \in HoldsQueue, Parent[m] = Parent[n]
        PROVE  m = n
    BY <1>2, <1>4, QueueMoves, TreeFacts DEF OneJobAtATime, Busy
  <1>5. ASSUME NEW o \in Ops, NEW n \in Nested, op'[o] = "running",
               scope'[n] \in HoldsQueue, Parent[n] = ScopeOf[o]
        PROVE  FALSE
    BY <1>1, <1>2, <1>5, QueueMoves DEF OneJobAtATime, Busy
  <1> QED BY <1>3, <1>4, <1>5 DEF OneJobAtATime

LEMMA FailuresMarkStep ==
  ASSUME IInv, FailuresMark, [Next]_vars PROVE FailuresMark'
  <1>1. ASSUME NEW o \in Ops, op'[o] \in {"failed", "rejected"}
        PROVE  rollbackOnly'[ScopeOf[o]]
    <2>1. CASE op'[o] = op[o]
      BY <1>1, <2>1, MarksStay, TreeFacts DEF FailuresMark
    <2>2. CASE op'[o] # op[o]
      BY <1>1, <2>2, OpMoves
    <2> QED BY <2>1, <2>2
  <1>2. ASSUME NEW n \in Nested, closed'[Parent[n]], Unhandled(n)'
        PROVE  rollbackOnly'[Parent[n]]
    <2>t. /\ n \in Scopes /\ n # Root /\ Parent[n] \in Scopes
          /\ rollbackOnly \in [Scopes -> BOOLEAN] /\ scope \in [Scopes -> ScopeStates]
      BY TreeFacts DEF IInv, TypeOK
    <2>1. ~observed'[n] /\ ~observed[n]
      BY <1>2, <2>t, MarksStay DEF Unhandled
    <2>2. CASE scope'[n] # scope[n]
      <3>1. SettleNested(n) /\ scope[n] # "succeeding"
        BY <1>2, <2>t, <2>2, ScopeMoves DEF Unhandled
      <3>2. closed[Parent[n]]
        BY <3>1, <1>2, MarksStay DEF SettleNested
      <3> QED BY <2>t, <2>1, <3>1, <3>2 DEF SettleNested, Poison
    <2>3. CASE scope'[n] = scope[n] /\ closed[Parent[n]]
      BY <1>2, <2>t, <2>1, <2>3, MarksStay DEF FailuresMark, Unhandled
    <2>4. CASE scope'[n] = scope[n] /\ ~closed[Parent[n]]
      <3>1. CloseScope(Parent[n])
        BY <1>2, <2>t, <2>4, MarksStay
      <3>2. Unhandled(n)
        BY <1>2, <2>1, <2>4 DEF Unhandled
      <3> QED BY <2>t, <3>1, <3>2 DEF CloseScope, Poison
    <2> QED BY <2>2, <2>3, <2>4
  <1>3. ASSUME NEW s \in Scopes, scope'[s] = "draining" PROVE closed'[s]
    <2>1. CASE scope'[s] = scope[s]
      BY <1>3, <2>1, MarksStay DEF FailuresMark
    <2>2. CASE scope'[s] # scope[s]
      <3>1. CloseScope(s)
        BY <1>3, <2>2, ScopeMoves
      <3> QED BY <3>1 DEF CloseScope, IInv, TypeOK
    <2> QED BY <2>1, <2>2
  <1> QED BY <1>1, <1>2, <1>3 DEF FailuresMark

\* A scope that goes on to COMMIT or RELEASE has seen nothing of its own fail.
LEMMA CommittingIsClean ==
  ASSUME IInv, FailuresMark, NEW s \in Scopes, Decide(s), Committable(s)
  PROVE  /\ \A o \in Ops : ScopeOf[o] = s => op[o] \in {"idle", "refused", "ok"}
         /\ \A n \in Nested : Parent[n] = s =>
              \/ scope[n] \in {"idle", "refused", "done"}
              \/ scope[n] \in {"failed", "rejected"} /\ observed[n]
  <1>1. ~rollbackOnly[s] /\ closed[s]
    BY TreeFacts DEF Committable, Decide, FailuresMark
  <1>2. ASSUME NEW o \in Ops, ScopeOf[o] = s PROVE op[o] \in {"idle", "refused", "ok"}
    <2>1. op[o] \in OpStates /\ op[o] \notin {"called", "queued", "running"}
      BY <1>2 DEF Decide, ActiveOps, IInv, TypeOK
    <2>2. op[o] \notin {"failed", "rejected"}
      BY <1>1, <1>2 DEF FailuresMark
    <2> QED BY <2>1, <2>2 DEF OpStates
  <1>3. ASSUME NEW n \in Nested, Parent[n] = s
        PROVE  \/ scope[n] \in {"idle", "refused", "done"}
               \/ scope[n] \in {"failed", "rejected"} /\ observed[n]
    <2>1. /\ scope[n] \in ScopeStates
          /\ scope[n] \notin HoldsQueue \cup {"called", "queued", "succeeding", "failing", "barring"}
      BY <1>3, TreeFacts DEF Decide, ActiveNested, IInv, TypeOK
    <2>2. ~Unhandled(n)
      BY <1>1, <1>3 DEF FailuresMark
    <2> QED BY <2>1, <2>2 DEF ScopeStates, HoldsQueue, Unhandled
  <1> QED BY <1>2, <1>3

LEMMA SuccessStep ==
  ASSUME IInv, FailuresMark, SuccessIsClean, [Next]_vars PROVE SuccessIsClean'
  <1>1. ASSUME NEW s \in Scopes, scope'[s] \in {"committing", "succeeding", "done"},
               NEW o \in Ops, ScopeOf[o] = s
        PROVE  op'[o] # "failed"
    <2>1. CASE op'[o] # op[o]
      <3>1. SUFFICES ASSUME op'[o] = "failed" PROVE FALSE
        OBVIOUS
      <3>2. op[o] = "running" /\ scope' = scope
        BY <2>1, <3>1, OpMoves DEF FinishOp
      <3>3. scope[s] \in Open
        BY <3>2, <1>1, TreeFacts DEF IInv, WorkIsInOpenScopes
      <3> QED BY <1>1, <3>2, <3>3 DEF Open
    <2>2. CASE op'[o] = op[o] /\ scope'[s] = scope[s]
      BY <1>1, <2>2 DEF SuccessIsClean
    <2>3. CASE op'[o] = op[o] /\ scope'[s] # scope[s]
      <3>1. CASE Decide(s) /\ Committable(s)
        BY <1>1, <2>3, <3>1, CommittingIsClean
      <3>2. CASE ~(Decide(s) /\ Committable(s))
        <4>1. scope[s] \in {"committing", "succeeding"}
          <5>1. EndRoot /\ s = Root /\ scope'[s] = "done" => scope[s] = "committing"
            BY DEF EndRoot, IInv, TypeOK
          <5>2. scope'[s] = "succeeding" => scope[s] = "committing"
            BY <2>3, ScopeMoves DEF Release
          <5>3. scope'[s] # "committing"
            BY <2>3, <3>2, ScopeMoves
          <5>4. scope'[s] = "done" => scope[s] = "succeeding" \/ (s = Root /\ EndRoot)
            BY <2>3, ScopeMoves
          <5> QED BY <1>1, <5>1, <5>2, <5>3, <5>4
        <4> QED BY <1>1, <2>3, <4>1 DEF SuccessIsClean
      <3> QED BY <3>1, <3>2
    <2> QED BY <2>1, <2>2, <2>3
  <1>2. ASSUME NEW s \in Scopes, scope'[s] = "succeeding", NEW a \in Above[s]
        PROVE  scope'[a] \in Open
    <2>t. a \in Scopes /\ Root \notin Nested
      BY TreeFacts
    <2>1. scope[a] \in Open
      <3>1. CASE scope'[s] = scope[s]
        BY <1>2, <3>1 DEF SuccessIsClean
      <3>2. CASE scope'[s] # scope[s]
        <4>1. scope[s] = "committing"
          BY <1>2, <3>2, ScopeMoves DEF Release
        <4> QED BY <4>1 DEF IInv, WorkIsInOpenScopes, HoldsQueue
      <3> QED BY <3>1, <3>2
    <2>2. ~Decide(a)
      <3>1. SUFFICES ASSUME Decide(a) PROVE FALSE
        OBVIOUS
      <3>2. scope'[s] = scope[s] /\ scope[s] = "succeeding"
        BY <1>2, <3>1, <2>t DEF Decide, IInv, TypeOK
      <3>3. PICK c \in (Above[s] \cup {s}) \cap Nested : Parent[c] = a
        BY TreeAssumption
      <3>4. scope[c] \in Open \cup {"succeeding"}
        BY <3>2, <3>3 DEF SuccessIsClean
      <3> QED BY <3>1, <3>3, <3>4 DEF Decide, ActiveNested, HoldsQueue, Open
    <2>3. scope'[a] # scope[a] => CloseScope(a) /\ scope'[a] = "draining"
      <3>1. scope[a] \notin {"idle", "called", "queued", "starting", "opening", "committing",
                             "aborting", "recovering", "releasing", "rereleasing",
                             "succeeding", "failing", "barring"}
        BY <2>1 DEF Open
      <3> QED BY <2>t, <2>2, <3>1, ScopeMoves
              DEF CallNested, AdmitNested, StartNested, CheckNested, OpenSavepoint, Release,
                  RollbackTo, ReleaseAfterRollback, SettleNested, EndRoot
    <2> QED BY <2>1, <2>3 DEF Open
  <1> QED BY <1>1, <1>2 DEF SuccessIsClean

-----------------------------------------------------------------------------
\* The transaction can still be committed only if it could before.
LEMMA CommittingBefore ==
  ASSUME IInv, [Next]_vars, Committing' PROVE Committing
  <1>1. CASE ~rollbackOnly'[Root]
    BY <1>1, MarksStay, TreeFacts DEF Committing
  <1>2. CASE scope'[Root] = "committing" /\ scope[Root] # "committing"
    <2>1. Committable(Root)
      BY <1>2, ScopeMoves, TreeFacts
    <2> QED BY <2>1, TreeFacts DEF Committable, Committing
  <1>3. CASE scope[Root] = "committing"
    BY <1>3 DEF Committing
  <1> QED BY <1>1, <1>2, <1>3 DEF Committing

\* A scope that may start a job, and that nobody is at work in, is the innermost.
LEMMA StartsInnermost ==
  ASSUME IInv, SavepointsNest, NEW s \in Scopes, ~Busy(s), Committable(s),
         \A a \in Chain(s) : scope[a] \in Open
  PROVE  Innermost = s
  <1>1. Committing
    BY TreeFacts DEF Committable, Committing
  <1>2. PICK i \in DOMAIN log : log[i].of = s
    <2>1. CASE s = Root
      BY <2>1, LogFacts DEF SavepointsNest
    <2>2. CASE s \in Nested
      <3>1. scope[s] \in InSavepoint
        BY TreeFacts DEF Open, InSavepoint, HoldsQueue
      <3> QED BY <2>2, <3>1 DEF SavepointsNest, Held
    <2> QED BY <2>1, <2>2 DEF Nested
  <1>3. ASSUME i # Len(log) PROVE FALSE
    <2>1. i + 1 \in 2..Len(log) /\ (i + 1) - 1 = i
      BY <1>2, <1>3, LogFacts
    <2>2. /\ log[i + 1].of \in Nested /\ Parent[log[i + 1].of] = s
          /\ scope[log[i + 1].of] \in HoldsQueue
      BY <1>1, <1>2, <2>1 DEF SavepointsNest, InSavepoint
    <2> QED BY <2>2 DEF Busy
  <1> QED BY <1>2, <1>3 DEF Innermost

\* The scopes of the frames from a savepoint upwards are that scope and ones
\* nested in it.
LEMMA FramesAbove ==
  ASSUME SavepointsNest, NEW n \in Nested, Held(n), NEW j \in Position(n)..Len(log)
  PROVE  /\ j \in DOMAIN log
         /\ \/ j = Position(n) /\ log[j].of = n
            \/ j # Position(n) /\ n \in Above[log[j].of]
  <1>1. /\ Position(n) \in 2..Len(log) /\ log[Position(n)].of = n
    BY PositionOf
  <1>2. j \in DOMAIN log /\ Position(n) \in DOMAIN log
    BY <1>1, LogFacts
  <1>3. j # Position(n) => Position(n) < j
    BY <1>1, LogFacts
  <1> QED BY <1>1, <1>2, <1>3 DEF SavepointsNest

\* Above a savepoint whose callback has ended nobody is at work.
LEMMA NobodyAbove ==
  ASSUME IInv, SavepointsNest, NEW n \in Nested, Held(n), scope[n] \notin Open
  PROVE  /\ \A j \in Position(n)..Len(log) : j # Position(n) =>
              scope[log[j].of] \notin HoldsQueue
         /\ \A m \in Nested : Held(m) /\ scope[m] \in HoldsQueue /\ m # n =>
              Position(m) \in 2..(Position(n) - 1)
         /\ \A j \in 1..Position(n) : log[j].of = n => j = Position(n)
         /\ Committing => Position(n) = Len(log)
  <1>1. ASSUME NEW j \in Position(n)..Len(log), j # Position(n)
        PROVE  scope[log[j].of] \notin HoldsQueue
    <2>1. n \in Above[log[j].of] /\ log[j].of \in Scopes
      BY <1>1, FramesAbove, LogFacts
    <2> QED BY <2>1 DEF IInv, WorkIsInOpenScopes
  <1>2. ASSUME NEW m \in Nested, Held(m), scope[m] \in HoldsQueue, m # n
        PROVE  Position(m) \in 2..(Position(n) - 1)
    <2>1. Position(m) \in 2..Len(log) /\ log[Position(m)].of = m
      BY <1>2, PositionOf
    <2>2. Position(n) \in 2..Len(log) /\ log[Position(n)].of = n
      BY PositionOf
    <2>3. Position(m) \in Position(n)..Len(log) => Position(m) = Position(n)
      BY <1>1, <1>2, <2>1
    <2> QED BY <1>2, <2>1, <2>2, <2>3, LogFacts
  <1>3. \A j \in 1..Position(n) : log[j].of = n => j = Position(n)
    BY PositionOf, LogFacts
  <1>4. Committing => Position(n) = Len(log)
    <2>1. SUFFICES ASSUME Committing, Position(n) # Len(log) PROVE FALSE
      OBVIOUS
    <2>2. Len(log) \in Position(n)..Len(log) /\ Len(log) \in 2..Len(log)
      BY PositionOf, LogFacts
    <2>3. scope[log[Len(log)].of] \in InSavepoint
      BY <2>1, <2>2 DEF SavepointsNest
    <2> QED BY <1>1, <2>1, <2>2, <2>3 DEF InSavepoint
  <1> QED BY <1>1, <1>2, <1>3, <1>4

\* Where a scope stands when it talks to the server.
LEMMA ServerGuards ==
  /\ \A n \in Nested : Release(n) => scope[n] = "committing"
  /\ \A n \in Nested : RollbackTo(n) => scope[n] \in {"aborting", "recovering"}
  /\ \A n \in Nested : ReleaseAfterRollback(n) => scope[n] \in {"releasing", "rereleasing"}
  /\ EndRoot => scope[Root] \in {"committing", "aborting"}
  /\ \A n \in Nested : OpenSavepoint(n) => scope[n] = "opening"
  /\ \A o \in Ops : FinishOp(o) => op[o] = "running"
  BY DEF Release, RollbackTo, ReleaseAfterRollback, EndRoot, OpenSavepoint, FinishOp

\* A RELEASE after a rollback either drops a savepoint with no work in it or bars
\* the COMMIT.
LEMMA ReleaseDropsNothing ==
  ASSUME IInv, WorkIsInnermost, SavepointsNest, NEW n \in Nested, ReleaseAfterRollback(n), Committing'
  PROVE  /\ Held(n) /\ log' = Released(n)
         /\ Position(n) = Len(log) /\ log[Len(log)].work = {}
  <1>1. scope[n] \in {"releasing", "rereleasing"}
    BY ServerGuards
  <1>2. ~rollbackOnly'[Root]
    <2>1. scope[Root] \in Open
      BY <1>1, TreeFacts DEF IInv, WorkIsInOpenScopes, HoldsQueue
    <2>2. scope'[Root] = scope[Root]
      BY TreeFacts DEF ReleaseAfterRollback, FailNested, IInv, TypeOK
    <2> QED BY <2>1, <2>2 DEF Committing, Open
  <1>3. ~Poison(Root)
    BY <1>2, TreeFacts DEF Poison, IInv, TypeOK
  <1>4. Held(n) /\ log' = Released(n) /\ ~cleanupFailed[n] /\ scope[n] = "releasing"
    BY <1>3 DEF ReleaseAfterRollback
  <1>5. log[Len(log)] = Frame(n)
    BY <1>4 DEF WorkIsInnermost
  <1>6. log[Len(log)].of = n /\ log[Len(log)].work = {}
    BY <1>5 DEF Frame
  <1> QED BY <1>4, <1>6, PositionOf, LogFacts

\* A scope enters its savepoint by SAVEPOINT and leaves it by a RELEASE.
LEMMA InSavepointMoves ==
  ASSUME IInv, [Next]_vars, NEW n \in Nested
  PROVE  /\ scope'[n] \in InSavepoint /\ scope[n] \notin InSavepoint =>
              OpenSavepoint(n) /\ log' = Append(log, Frame(n))
         /\ scope[n] \in InSavepoint /\ scope'[n] \notin InSavepoint =>
              \/ Release(n) /\ Held(n) /\ log' = Released(n)
              \/ ReleaseAfterRollback(n)
  <1>t. n \in Scopes /\ n # Root
    BY TreeFacts
  <1>1. InSavepoint = {"body", "draining", "committing", "aborting", "recovering", "releasing",
                       "rereleasing"}
    BY DEF InSavepoint, HoldsQueue
  <1>2. ASSUME scope'[n] \in InSavepoint, scope[n] \notin InSavepoint
        PROVE  OpenSavepoint(n) /\ log' = Append(log, Frame(n))
    BY <1>t, <1>1, <1>2, ScopeMoves DEF CloseScope, Decide, Release, RollbackTo
  <1>3. ASSUME scope[n] \in InSavepoint, scope'[n] \notin InSavepoint
        PROVE  \/ Release(n) /\ Held(n) /\ log' = Released(n)
               \/ ReleaseAfterRollback(n)
    BY <1>t, <1>1, <1>3, ScopeMoves
       DEF CallNested, AdmitNested, StartNested, CheckNested, OpenSavepoint, SettleNested
  <1> QED BY <1>2, <1>3

-----------------------------------------------------------------------------
LEMMA SavepointsStep ==
  ASSUME IInv, OneJobAtATime, SavepointsNest, WorkIsInnermost, [Next]_vars
  PROVE  SavepointsNest'
  <1>1. CASE log' = log
    <2>1. ASSUME NEW n \in Nested, scope'[n] \in InSavepoint PROVE Held(n)'
      <3>1. scope[n] \in InSavepoint
        <4>1. Len(Append(log, Frame(n))) # Len(log)
          <5>1. log \in Seq(Frames) /\ Frame(n) \in Frames
            BY DEF SavepointsNest, Frame, Frames, Nested
          <5>2. Len(Append(log, Frame(n))) = Len(log) + 1
            BY <5>1
          <5>3. Len(log) \in Nat
            BY LogFacts
          <5> QED BY <5>1, <5>3
        <4> QED BY <1>1, <2>1, <4>1, InSavepointMoves
      <3> QED BY <1>1, <3>1 DEF SavepointsNest, Held
    <2>2. ASSUME Committing', NEW i \in 2..Len(log') PROVE scope'[log'[i].of] \in InSavepoint
      <3> DEFINE n == log[i].of
      <3>1. n \in Nested /\ scope[n] \in InSavepoint
        BY <1>1, <2>2, CommittingBefore DEF SavepointsNest
      <3>2. ASSUME Held(n), log' = Released(n) PROVE FALSE
        BY <1>1, <3>1, <3>2, ReleasedFrames, PositionOf, LogFacts
      <3>3. ~ReleaseAfterRollback(n)
        BY <2>2, <3>1, <3>2, ReleaseDropsNothing
      <3> HIDE DEF n
      <3>4. scope'[n] \in InSavepoint
        BY <3>1, <3>2, <3>3, InSavepointMoves
      <3> QED BY <1>1, <3>4 DEF n
    <2> QED BY <1>1, <2>1, <2>2 DEF SavepointsNest
  <1>2. ASSUME NEW o \in Ops, FinishOp(o), log' = Effect(o) PROVE SavepointsNest'
    <2>1. scope' = scope
      BY <1>2 DEF FinishOp
    <2>2. /\ log' \in Seq(Frames) /\ Len(log') = Len(log) /\ DOMAIN log' = DOMAIN log
          /\ DOMAIN log = 1..Len(log) /\ 1 \in DOMAIN log
          /\ \A i \in DOMAIN log : log'[i].of = log[i].of
      <3>1. /\ log' \in Seq(Frames) /\ Len(log') = Len(log)
            /\ \A i \in DOMAIN log : log'[i].of = log[i].of
        BY <1>2, EffectFrames
      <3>2. DOMAIN log' = 1..Len(log')
        BY <3>1
      <3> QED BY <3>1, <3>2, LogFacts
    <2>3. log' # <<>>
      BY <2>2
    <2>4. \A n \in Nested : scope'[n] \in InSavepoint => Held(n)'
      BY <2>1, <2>2 DEF SavepointsNest, Held
    <2>5. /\ \A i \in 2..Len(log) : i \in DOMAIN log /\ i - 1 \in DOMAIN log
      BY <2>2
    <2> QED BY <2>1, <2>2, <2>3, <2>4, <2>5, CommittingBefore DEF SavepointsNest
  <1>3. ASSUME NEW n \in Nested, OpenSavepoint(n), scope' = [scope EXCEPT ![n] = "body"],
               log' = Append(log, Frame(n))
        PROVE  SavepointsNest'
    <2>1. scope[n] = "opening" /\ log[Len(log)].of = Parent[n]
      BY <1>3, ServerGuards DEF WorkIsInnermost, Innermost
    <2>2. /\ log' \in Seq(Frames) /\ Len(log') = Len(log) + 1 /\ DOMAIN log' = 1..(Len(log) + 1)
          /\ \A i \in DOMAIN log : log'[i] = log[i]
          /\ log'[Len(log) + 1].of = n
      BY <1>3, OpenedFrames
    <2>3. log' # <<>> /\ log'[1].of = Root
      BY <2>2, LogFacts DEF SavepointsNest
    <2>4. \A x \in Scopes : scope'[x] = IF x = n THEN "body" ELSE scope[x]
      BY <1>3 DEF IInv, TypeOK
    <2>5. ASSUME NEW i \in 2..Len(log')
          PROVE  log'[i].of \in Nested /\ Parent[log'[i].of] = log'[i - 1].of
      <3>1. /\ DOMAIN log = 1..Len(log) /\ Len(log) \in Nat /\ Len(log) \in DOMAIN log
            /\ i \in Nat
        BY LogFacts
      <3>2. CASE i \in 2..Len(log)
        <4>1. i \in DOMAIN log /\ i - 1 \in DOMAIN log
          BY <3>1, <3>2
        <4>2. log[i].of \in Nested /\ Parent[log[i].of] = log[i - 1].of
          BY <3>2 DEF SavepointsNest
        <4> QED BY <2>2, <4>1, <4>2
      <3>3. CASE i \notin 2..Len(log)
        <4>1. i = Len(log) + 1 /\ i - 1 = Len(log)
          BY <2>2, <3>1, <3>3
        <4>2. log'[i].of = n /\ log'[i - 1] = log[Len(log)]
          BY <2>2, <3>1, <4>1
        <4> QED BY <2>1, <4>2
      <3> QED BY <3>2, <3>3
    <2>6. ASSUME NEW i \in DOMAIN log', NEW j \in DOMAIN log', i < j
          PROVE  log'[i].of \in Above[log'[j].of]
      <3>1. CASE j \in DOMAIN log
        BY <2>2, <2>6, <3>1, LogFacts DEF SavepointsNest
      <3>2. CASE j \notin DOMAIN log
        <4>1. j = Len(log) + 1 /\ i \in DOMAIN log
          BY <2>2, <2>6, <3>2, LogFacts
        <4>2. i = Len(log) \/ log[i].of \in Above[log[Len(log)].of]
          BY <4>1, LogFacts DEF SavepointsNest
        <4> QED BY <2>1, <2>2, <4>1, <4>2, TreeFacts
      <3> QED BY <3>1, <3>2
    <2>7. ASSUME NEW m \in Nested, scope'[m] \in InSavepoint PROVE Held(m)'
      <3>1. CASE m = n
        BY <2>2, <3>1, LogFacts DEF Held
      <3>2. CASE m # n
        <4>1. PICK i \in DOMAIN log : log[i].of = m
          BY <2>4, <2>7, <3>2, TreeFacts DEF SavepointsNest, Held
        <4> QED BY <2>2, <4>1, LogFacts DEF Held
      <3> QED BY <3>1, <3>2
    <2>8. ASSUME Committing', NEW i \in 2..Len(log') PROVE scope'[log'[i].of] \in InSavepoint
      <3>1. "body" \in InSavepoint
        BY DEF InSavepoint, HoldsQueue
      <3>2. CASE i \in DOMAIN log
        BY <2>2, <2>4, <2>8, <3>1, <3>2, CommittingBefore, LogFacts DEF SavepointsNest
      <3>3. CASE i \notin DOMAIN log
        BY <2>2, <2>4, <3>1, <3>3, LogFacts, TreeFacts
      <3> QED BY <3>2, <3>3
    <2> QED BY <2>2, <2>3, <2>5, <2>6, <2>7, <2>8 DEF SavepointsNest
  <1>4. ASSUME NEW n \in Nested, Held(n), NEW k \in 1..Len(log), scope[n] \in HoldsQueue \ Open,
               \A x \in Scopes \ {n} : scope'[x] = scope[x],
               log' \in Seq(Frames), Len(log') = k, \A i \in 1..k : log'[i].of = log[i].of,
               \/ k = Position(n) - 1 /\ scope'[n] \notin InSavepoint
               \/ k = Position(n) /\ scope'[n] \in InSavepoint
        PROVE  SavepointsNest'
    <2>1. /\ Position(n) \in 2..Len(log) /\ log[Position(n)].of = n
          /\ DOMAIN log' = 1..k /\ DOMAIN log = 1..Len(log)
      BY <1>4, PositionOf, LogFacts
    <2>2. log' # <<>> /\ log'[1].of = Root
      BY <1>4, <2>1 DEF SavepointsNest
    <2>3. \A i \in 2..Len(log') : log'[i].of \in Nested /\ Parent[log'[i].of] = log'[i - 1].of
      <3>1. \A i \in 2..k : /\ i \in 2..Len(log) /\ i \in 1..k /\ i - 1 \in 1..k
                             /\ log'[i].of = log[i].of /\ log'[i - 1].of = log[i - 1].of
        BY <1>4, LogFacts
      <3>2. \A i \in 2..Len(log) : log[i].of \in Nested /\ Parent[log[i].of] = log[i - 1].of
        BY DEF SavepointsNest
      <3> QED BY <1>4, <3>1, <3>2
    <2>4. \A i, j \in DOMAIN log' : i < j => log'[i].of \in Above[log'[j].of]
      <3>1. \A i \in 1..k : i \in DOMAIN log /\ log'[i].of = log[i].of
        BY <1>4, <2>1, LogFacts
      <3>2. \A i, j \in DOMAIN log : i < j => log[i].of \in Above[log[j].of]
        BY DEF SavepointsNest
      <3> QED BY <2>1, <3>1, <3>2
    <2>5. ASSUME NEW m \in Nested, scope'[m] \in InSavepoint PROVE Held(m)'
      <3>1. CASE m = n
        BY <1>4, <2>1, <2>5, <3>1 DEF Held
      <3>2. CASE m # n
        <4>1. scope[m] \in InSavepoint /\ Held(m)
          BY <1>4, <2>5, <3>2, TreeFacts DEF SavepointsNest
        <4>2. Position(m) \in 2..(Position(n) - 1) /\ log[Position(m)].of = m
          BY <1>4, <3>2, <4>1, NobodyAbove, PositionOf DEF InSavepoint
        <4> QED BY <1>4, <2>1, <4>2 DEF Held
      <3> QED BY <3>1, <3>2
    <2>6. ASSUME Committing', NEW i \in 2..Len(log') PROVE scope'[log'[i].of] \in InSavepoint
      <3>1. /\ scope[log[i].of] \in InSavepoint /\ log[i].of \in Scopes
            /\ log'[i].of = log[i].of
        BY <1>4, <2>6, CommittingBefore, LogFacts DEF SavepointsNest
      <3>2. log[i].of = n => i = Position(n)
        BY <1>4, PositionOf, LogFacts
      <3> QED BY <1>4, <2>1, <3>1, <3>2
    <2> QED BY <1>4, <2>2, <2>3, <2>4, <2>5, <2>6 DEF SavepointsNest
  <1>5. ASSUME NEW n \in Nested, Release(n) \/ ReleaseAfterRollback(n), Held(n),
               log' = Released(n), scope'[n] \in {"succeeding", "failing"},
               \A x \in Scopes \ {n} : scope'[x] = scope[x]
        PROVE  SavepointsNest'
    <2>1. scope[n] \in HoldsQueue \ Open
      BY <1>5, ServerGuards DEF HoldsQueue, Open
    <2>2. scope'[n] \notin InSavepoint
      BY <1>5 DEF InSavepoint, HoldsQueue
    <2> DEFINE k == Position(n) - 1
    <2>3. /\ k \in 1..Len(log) /\ log' \in Seq(Frames) /\ Len(log') = k
          /\ \A i \in 1..k : log'[i].of = log[i].of
      BY <1>5, ReleasedFrames
    <2>4. k = Position(n) - 1
      OBVIOUS
    <2> HIDE DEF k
    <2> QED BY <1>4, <1>5, <2>1, <2>2, <2>3, <2>4
  <1>6. ASSUME NEW n \in Nested, RollbackTo(n), Held(n), log' = RolledBack(n),
               scope'[n] \in {"releasing", "rereleasing"},
               \A x \in Scopes \ {n} : scope'[x] = scope[x]
        PROVE  SavepointsNest'
    <2>1. scope[n] \in HoldsQueue \ Open
      BY <1>6, ServerGuards DEF HoldsQueue, Open
    <2>2. scope'[n] \in InSavepoint
      BY <1>6 DEF InSavepoint, HoldsQueue
    <2> DEFINE k == Position(n)
    <2>3. /\ k \in 1..Len(log) /\ log' \in Seq(Frames) /\ Len(log') = k
          /\ \A i \in 1..k : log'[i].of = log[i].of
      BY <1>6, RolledBackFrames, PositionOf, LogFacts
    <2>4. k = Position(n)
      OBVIOUS
    <2> HIDE DEF k
    <2> QED BY <1>4, <1>6, <2>1, <2>2, <2>3, <2>4
  <1>7. ASSUME EndRoot, log' = <<Frame(Root)>> PROVE SavepointsNest'
    <2>1. scope[Root] \notin Open
      BY <1>7, ServerGuards DEF Open
    <2>2. \A n \in Nested : scope[n] \notin HoldsQueue
      BY <2>1, TreeFacts DEF IInv, WorkIsInOpenScopes
    <2>3. \A n \in Nested : scope'[n] \notin InSavepoint
      BY <2>2, <1>7, TreeFacts DEF EndRoot, InSavepoint, IInv, TypeOK
    <2>4. Frame(Root) \in Frames /\ Frame(Root).of = Root
      BY TreeFacts DEF Frame, Frames
    <2>5. /\ log' \in Seq(Frames) /\ log' # <<>> /\ Len(log') = 1 /\ DOMAIN log' = {1}
          /\ log'[1].of = Root
      BY <1>7, <2>4
    <2> QED BY <2>3, <2>5 DEF SavepointsNest
  <1>8. ASSUME NEW n \in Nested, Release(n), scope' = [scope EXCEPT ![n] = "succeeding"]
        PROVE  scope'[n] = "succeeding" /\ \A x \in Scopes \ {n} : scope'[x] = scope[x]
    BY <1>8, TreeFacts DEF IInv, TypeOK
  <1>9. ASSUME NEW n \in Nested, RollbackTo(n)
        PROVE  /\ scope'[n] \in {"releasing", "rereleasing"}
               /\ \A x \in Scopes \ {n} : scope'[x] = scope[x]
    BY <1>9, TreeFacts DEF RollbackTo, IInv, TypeOK
  <1>10. ASSUME NEW n \in Nested, ReleaseAfterRollback(n)
         PROVE  scope'[n] = "failing" /\ \A x \in Scopes \ {n} : scope'[x] = scope[x]
    BY <1>10, TreeFacts DEF ReleaseAfterRollback, FailNested, IInv, TypeOK
  <1> QED BY <1>1, <1>2, <1>3, <1>5, <1>6, <1>7, <1>8, <1>9, <1>10, LogMoves

-----------------------------------------------------------------------------
LEMMA CleanupMarkStays ==
  ASSUME IInv, [Next]_vars
  PROVE  \A s \in Scopes : cleanupFailed[s] => cleanupFailed'[s]
  <1>t. cleanupFailed \in [Scopes -> BOOLEAN] /\ Nested \subseteq Scopes
    BY TreeFacts DEF IInv, TypeOK
  <1>1. ASSUME NEW n \in Nested, CallNested(n) \/ Observe(n) \/ NestedStep(n)
        PROVE  \/ cleanupFailed' = cleanupFailed
               \/ cleanupFailed' = [cleanupFailed EXCEPT ![n] = TRUE]
    BY <1>1 DEF CallNested, Observe, NestedStep, AdmitNested, StartNested, CheckNested,
                OpenSavepoint, Release, RollbackTo, ReleaseAfterRollback, SettleNested
  <1>2. ASSUME NEW o \in Ops, CallOp(o) \/ OpStep(o) PROVE cleanupFailed' = cleanupFailed
    BY <1>2 DEF CallOp, OpStep, AdmitOp, StartOp, FinishOp
  <1>3. ASSUME NEW s \in Scopes, CloseScope(s) \/ Decide(s) PROVE cleanupFailed' = cleanupFailed
    BY <1>3 DEF CloseScope, Decide
  <1>4. EndRoot \/ UNCHANGED vars => cleanupFailed' = cleanupFailed
    BY DEF EndRoot, vars
  <1>5. \/ cleanupFailed' = cleanupFailed
        \/ \E n \in Nested : cleanupFailed' = [cleanupFailed EXCEPT ![n] = TRUE]
    BY <1>1, <1>2, <1>3, <1>4 DEF Next
  <1> QED BY <1>t, <1>5

\* The open savepoints are the innermost one and those around it.
LEMMA HeldAroundInnermost ==
  ASSUME SavepointsNest, NEW n \in Nested, Held(n)
  PROVE  n \in Chain(Innermost) /\ Innermost \in Scopes
  <1>1. Len(log) \in Position(n)..Len(log)
    BY PositionOf, LogFacts
  <1> QED BY <1>1, FramesAbove, LogFacts DEF Chain, Innermost

\* While the innermost scope and those around it are at work no savepoint goes;
\* one comes only by SAVEPOINT.
LEMMA InnermostStays ==
  ASSUME IInv, SavepointsNest, [Next]_vars,
         \A a \in Chain(Innermost) : scope[a] \in Open,
         \A m \in Nested : ~(OpenSavepoint(m) /\ scope' = [scope EXCEPT ![m] = "body"])
  PROVE  Innermost' = Innermost
  <1>1. ASSUME NEW n \in Nested, Held(n),
               Release(n) \/ RollbackTo(n) \/ ReleaseAfterRollback(n)
        PROVE  FALSE
    BY <1>1, HeldAroundInnermost, ServerGuards DEF Open
  <1>2. ~EndRoot
    <2>1. Root \in Chain(Innermost)
      BY LogFacts, TreeFacts DEF Innermost
    <2> QED BY <2>1, ServerGuards DEF Open
  <1>3. ASSUME NEW o \in Ops, log' = Effect(o) PROVE Innermost' = Innermost
    <2>1. Len(log') = Len(log) /\ log'[Len(log)].of = log[Len(log)].of
      BY <1>3, EffectFrames, LogFacts
    <2> QED BY <2>1 DEF Innermost
  <1>4. log' = log => Innermost' = Innermost
    BY DEF Innermost
  <1> QED BY <1>1, <1>2, <1>3, <1>4, LogMoves

LEMMA InnermostStep ==
  ASSUME IInv, OneJobAtATime, SavepointsNest, WorkIsInnermost, [Next]_vars
  PROVE  WorkIsInnermost'
  <1>1. ASSUME NEW o \in Ops, op'[o] = "running" PROVE Innermost' = ScopeOf[o]
    <2>t. ScopeOf[o] \in Scopes
      BY TreeFacts
    <2>1. CASE op[o] = "running"
      <3>1. Innermost = ScopeOf[o] /\ \A a \in Chain(Innermost) : scope[a] \in Open
        BY <2>1 DEF WorkIsInnermost, IInv, WorkIsInOpenScopes
      <3>2. ASSUME NEW m \in Nested, OpenSavepoint(m) PROVE FALSE
        <4>1. scope[m] = "opening"
          BY <3>2, ServerGuards
        <4>2. Parent[m] = ScopeOf[o]
          BY <3>1, <4>1 DEF WorkIsInnermost
        <4> QED BY <2>1, <4>1, <4>2 DEF OneJobAtATime, HoldsQueue
      <3> QED BY <3>1, <3>2, InnermostStays
    <2>2. CASE op[o] # "running"
      <3>1. StartOp(o) /\ Committable(ScopeOf[o]) /\ log' = log
        BY <1>1, <2>2, QueueMoves
      <3>2. op[o] = "queued" /\ ~Busy(ScopeOf[o])
        BY <3>1 DEF StartOp, AtHead
      <3>3. \A a \in Chain(ScopeOf[o]) : scope[a] \in Open
        BY <3>2 DEF IInv, WorkIsInOpenScopes
      <3>4. Innermost = ScopeOf[o]
        BY <2>t, <3>1, <3>2, <3>3, StartsInnermost
      <3> QED BY <3>1, <3>4 DEF Innermost
    <2> QED BY <2>1, <2>2
  <1>2. ASSUME NEW n \in Nested, scope'[n] \in {"starting", "opening"}
        PROVE  Innermost' = Parent[n]
    <2>t. n \in Scopes /\ n # Root /\ Parent[n] \in Scopes /\ Chain(Parent[n]) = Above[n]
      BY TreeFacts DEF Chain
    <2>1. CASE scope[n] \in {"starting", "opening"}
      <3>1. Innermost = Parent[n]
        BY <2>1 DEF WorkIsInnermost
      <3>2. \A a \in Chain(Innermost) : scope[a] \in Open
        BY <2>t, <2>1, <3>1 DEF IInv, WorkIsInOpenScopes, HoldsQueue
      <3>3. ASSUME NEW m \in Nested, OpenSavepoint(m), scope' = [scope EXCEPT ![m] = "body"]
            PROVE  FALSE
        <4>1. scope[m] = "opening"
          BY <3>3, ServerGuards
        <4>2. m = n
          BY <2>1, <3>1, <4>1 DEF OneJobAtATime, WorkIsInnermost, HoldsQueue
        <4> QED BY <1>2, <2>t, <3>3, <4>2 DEF IInv, TypeOK
      <3> QED BY <3>1, <3>2, <3>3, InnermostStays
    <2>2. CASE scope[n] \notin {"starting", "opening"}
      <3>1. StartNested(n) /\ Committable(Parent[n])
        BY <1>2, <2>t, <2>2, ScopeMoves DEF CheckNested
      <3>2. scope[n] = "queued" /\ ~Busy(Parent[n]) /\ log' = log
        BY <3>1 DEF StartNested, AtHead
      <3>3. \A a \in Chain(Parent[n]) : scope[a] \in Open
        BY <2>t, <3>2 DEF IInv, WorkIsInOpenScopes
      <3>4. Innermost = Parent[n]
        BY <2>t, <3>1, <3>2, <3>3, StartsInnermost
      <3> QED BY <3>2, <3>4 DEF Innermost
    <2> QED BY <2>1, <2>2
  <1>3. ASSUME NEW n \in Nested, scope'[n] = "releasing", ~cleanupFailed'[n]
        PROVE  log'[Len(log')] = Frame(n)
    <2>t. n \in Scopes /\ n # Root /\ ~cleanupFailed[n]
      BY <1>3, TreeFacts, CleanupMarkStays
    <2>1. CASE scope[n] = "releasing"
      <3>1. log[Len(log)] = Frame(n) /\ Innermost = n
        BY <2>1, <2>t DEF WorkIsInnermost, Innermost, Frame
      <3>2. \A a \in Above[n] : scope[a] \in Open
        BY <2>1, <2>t DEF IInv, WorkIsInOpenScopes, HoldsQueue
      <3>3. ~\E o \in Ops : FinishOp(o)
        <4>1. SUFFICES ASSUME NEW o \in Ops, FinishOp(o) PROVE FALSE
          OBVIOUS
        <4>2. op[o] = "running"
          BY <4>1, ServerGuards
        <4>3. ScopeOf[o] = n
          BY <3>1, <4>2 DEF WorkIsInnermost
        <4>4. scope[n] \in Open
          BY <4>2, <4>3 DEF IInv, WorkIsInOpenScopes, Chain
        <4> QED BY <2>1, <4>4 DEF Open
      <3>4. ~\E m \in Nested : OpenSavepoint(m)
        <4>1. SUFFICES ASSUME NEW m \in Nested, OpenSavepoint(m) PROVE FALSE
          OBVIOUS
        <4>2. scope[m] = "opening"
          BY <4>1, ServerGuards
        <4>3. n \in Above[m] /\ m \in Scopes
          BY <3>1, <4>2, TreeFacts DEF WorkIsInnermost
        <4>4. scope[n] \in Open
          BY <4>2, <4>3 DEF IInv, WorkIsInOpenScopes, HoldsQueue
        <4> QED BY <2>1, <4>4 DEF Open
      <3>5. ASSUME NEW m \in Nested, Held(m),
                   Release(m) \/ RollbackTo(m) \/ ReleaseAfterRollback(m)
            PROVE  FALSE
        <4>1. m = n
          BY <3>1, <3>2, <3>5, HeldAroundInnermost, ServerGuards DEF Chain, Open
        <4>2. scope'[n] = "failing"
          BY <2>1, <3>5, <4>1, ServerGuards, <2>t
             DEF ReleaseAfterRollback, FailNested, IInv, TypeOK
        <4> QED BY <1>3, <4>2
      <3>6. ~EndRoot
        BY <2>t, <3>2, TreeFacts, ServerGuards DEF Open
      <3>7. log' = log
        BY <3>3, <3>4, <3>5, <3>6, LogMoves
      <3> QED BY <3>1, <3>7
    <2>2. CASE scope[n] # "releasing"
      <3>1. Held(n) /\ log' = RolledBack(n)
        BY <1>3, <2>t, <2>2, ScopeMoves
      <3> QED BY <3>1, RolledBackFrames
    <2> QED BY <2>1, <2>2
  <1> QED BY <1>1, <1>2, <1>3 DEF WorkIsInnermost

-----------------------------------------------------------------------------
(***************************************************************************)
(* Where the work of a statement is.                                       *)
(***************************************************************************)

\* The scopes around a scope form a line.
LEMMA ChainFacts ==
  ASSUME NEW s \in Scopes, NEW a \in Chain(s)
  PROVE  /\ a \in Scopes /\ Above[a] \subseteq Chain(s)
         /\ \A b \in Chain(s) : a = b \/ a \in Above[b] \/ b \in Above[a]
         /\ \A b \in Above[a] : a \notin Above[b]
  <1>1. a \in Scopes /\ Above[a] \subseteq Chain(s)
    BY TreeAssumption DEF Chain
  <1>2. ASSUME NEW b \in Chain(s) PROVE a = b \/ a \in Above[b] \/ b \in Above[a]
    BY TreeAssumption DEF Chain
  <1>3. ASSUME NEW b \in Above[a] PROVE a \notin Above[b]
    <2>1. Above[b] \subseteq Above[a] /\ a \notin Above[a]
      BY <1>1, TreeAssumption
    <2> QED BY <2>1
  <1> QED BY <1>1, <1>2, <1>3

\* What has succeeded, failed or been rolled back stays so.
LEMMA OutcomesStay ==
  ASSUME IInv, [Next]_vars
  PROVE  /\ \A o \in Ops : op[o] \in {"ok", "failed"} => op'[o] = op[o]
         /\ \A n \in Nested : scope[n] \in {"succeeding", "done"} =>
              scope'[n] \in {"succeeding", "done"}
         /\ \A n \in Nested : scope[n] \in RolledUp => scope'[n] \in RolledUp
         /\ Ended => Ended'
  <1>1. ASSUME NEW o \in Ops, op[o] \in {"ok", "failed"} PROVE op'[o] = op[o]
    BY <1>1, OpMoves DEF CallOp, AdmitOp, StartOp, FinishOp
  <1>2. ASSUME NEW n \in Nested, scope[n] \in {"succeeding", "done"} \cup RolledUp,
               scope'[n] # scope[n]
        PROVE  \/ scope[n] = "succeeding" /\ scope'[n] = "done"
               \/ scope[n] \in {"releasing", "rereleasing"} /\ scope'[n] = "failing"
               \/ scope[n] = "failing" /\ scope'[n] = "failed"
    BY <1>2, TreeFacts, ScopeMoves
       DEF RolledUp, CallNested, AdmitNested, StartNested, CheckNested, OpenSavepoint,
           Release, RollbackTo, ReleaseAfterRollback, CloseScope, Decide
  <1>3. Ended => scope'[Root] = scope[Root]
    BY TreeFacts, ScopeMoves DEF Ended, CloseScope, Decide, EndRoot
  <1> QED BY <1>1, <1>2, <1>3 DEF RolledUp, Ended

\* The work of statement o may be in the frame of scope f.
Belongs(f, o) == /\ op[o] \in {"ok", "failed"}
                 /\ f \in Chain(ScopeOf[o])
                 /\ \A a \in Chain(ScopeOf[o]) : f \in Above[a] =>
                       scope[a] \in {"succeeding", "done"}

\* The same after the step.
BelongsAfter(f, o) == /\ op'[o] \in {"ok", "failed"}
                      /\ f \in Chain(ScopeOf[o])
                      /\ \A a \in Chain(ScopeOf[o]) : f \in Above[a] =>
                            scope'[a] \in {"succeeding", "done"}

LEMMA BelongsStays ==
  ASSUME IInv, [Next]_vars, NEW o \in Ops, NEW f \in Scopes, Belongs(f, o)
  PROVE  BelongsAfter(f, o)
  <1>1. op'[o] \in {"ok", "failed"} /\ f \in Chain(ScopeOf[o])
    BY OutcomesStay DEF Belongs
  <1>2. ASSUME NEW a \in Chain(ScopeOf[o]), f \in Above[a]
        PROVE  scope'[a] \in {"succeeding", "done"}
    <2>1. a \in Nested
      BY <1>2, TreeFacts, TreeAssumption DEF Nested
    <2> QED BY <1>2, <2>1, OutcomesStay DEF Belongs
  <1> QED BY <1>1, <1>2 DEF BelongsAfter

\* A statement's own scope.
LEMMA BelongsAtHome ==
  ASSUME NEW o \in Ops, op'[o] \in {"ok", "failed"}
  PROVE  BelongsAfter(ScopeOf[o], o)
  BY TreeFacts, ChainFacts DEF BelongsAfter, Chain

\* A scope released into its parent.
LEMMA BelongsToParent ==
  ASSUME NEW o \in Ops, NEW n \in Nested, BelongsAfter(n, o), scope'[n] \in {"succeeding", "done"}
  PROVE  BelongsAfter(Parent[n], o)
  <1>1. ScopeOf[o] \in Scopes /\ n \in Chain(ScopeOf[o]) /\ Parent[n] \in Above[n]
    BY TreeFacts DEF BelongsAfter
  <1>2. Parent[n] \in Chain(ScopeOf[o])
    BY <1>1, ChainFacts
  <1>3. ASSUME NEW a \in Chain(ScopeOf[o]), Parent[n] \in Above[a]
        PROVE  scope'[a] \in {"succeeding", "done"}
    <2>1. a = n \/ a \in Above[n] \/ n \in Above[a]
      BY <1>1, ChainFacts
    <2>2. a \notin Above[n]
      BY <1>1, <1>2, <1>3, ChainFacts, TreeFacts
    <2> QED BY <2>1, <2>2 DEF BelongsAfter
  <1> QED BY <1>2, <1>3 DEF BelongsAfter

\* What a step before the end of the transaction may do to the log.
LEMMA LogMovesBeforeEnd ==
  ASSUME IInv, SavepointsNest, WorkIsInnermost, [Next]_vars, Committing', ~Ended'
  PROVE  \/ log' = log
         \/ \E o \in Ops : FinishOp(o) /\ log' = Effect(o)
         \/ \E n \in Nested : log' = Append(log, Frame(n))
         \/ \E n \in Nested : /\ Held(n) /\ log' = Released(n) /\ Position(n) = Len(log)
                              /\ (scope'[n] = "succeeding" \/ log[Len(log)].work = {})
         \/ \E n \in Nested : /\ Held(n) /\ log' = RolledBack(n) /\ Position(n) = Len(log)
                              /\ scope'[n] \in RolledUp
  <1>1. ASSUME NEW n \in Nested, Release(n), Held(n), log' = Released(n),
               scope' = [scope EXCEPT ![n] = "succeeding"]
        PROVE  Position(n) = Len(log) /\ scope'[n] = "succeeding"
    BY <1>1, ServerGuards, NobodyAbove, CommittingBefore, TreeFacts DEF IInv, TypeOK, Open
  <1>2. ASSUME NEW n \in Nested, RollbackTo(n), Held(n)
        PROVE  Position(n) = Len(log) /\ scope'[n] \in RolledUp
    <2>1. Position(n) = Len(log)
      BY <1>2, ServerGuards, NobodyAbove, CommittingBefore DEF Open
    <2>2. scope'[n] \in RolledUp
      BY <1>2, TreeFacts DEF RollbackTo, RolledUp, IInv, TypeOK
    <2> QED BY <2>1, <2>2
  <1>3. ASSUME NEW n \in Nested, ReleaseAfterRollback(n)
        PROVE  /\ Held(n) /\ log' = Released(n) /\ Position(n) = Len(log)
               /\ log[Len(log)].work = {}
    BY <1>3, ReleaseDropsNothing
  <1>4. ~EndRoot
    BY TreeFacts DEF EndRoot, Ended, IInv, TypeOK
  <1> QED BY <1>1, <1>2, <1>3, <1>4, LogMoves

LEMMA BelongsStep ==
  ASSUME IInv, SavepointsNest, WorkIsInnermost, WorkIsWhereItBelongs, [Next]_vars,
         Committing', ~Ended'
  PROVE  WorkIsWhereItBelongs'
  <1>t. /\ Len(log) \in Nat /\ Len(log) \in DOMAIN log /\ DOMAIN log = 1..Len(log)
        /\ \A i \in DOMAIN log : log[i].of \in Scopes /\ log[i].work \subseteq Ops
    BY LogFacts
  <1>0. \A i \in DOMAIN log : \A o \in log[i].work : BelongsAfter(log[i].of, o)
    <2>1. \A i \in DOMAIN log : \A o \in log[i].work : Belongs(log[i].of, o)
      BY DEF WorkIsWhereItBelongs, Belongs
    <2> QED BY <1>t, <2>1, BelongsStays
  <1>1. SUFFICES ASSUME NEW i \in DOMAIN log', NEW o \in log'[i].work
                 PROVE  BelongsAfter(log'[i].of, o)
    BY <1>1 DEF WorkIsWhereItBelongs, BelongsAfter
  <1>2. CASE log' = log
    BY <1>0, <1>1, <1>2
  <1>3. ASSUME NEW q \in Ops, FinishOp(q), log' = Effect(q)
        PROVE  BelongsAfter(log'[i].of, o)
    <2>1. /\ i \in DOMAIN log /\ log'[i].of = log[i].of
          /\ log'[i].work = IF i = Len(log) THEN log[i].work \cup {q} ELSE log[i].work
      <3>1. log' \in Seq(Frames) /\ Len(log') = Len(log)
        BY <1>3, EffectFrames
      <3>2. DOMAIN log' = 1..Len(log')
        BY <3>1
      <3> QED BY <1>t, <1>3, <3>1, <3>2, EffectFrames
    <2>2. CASE o \in log[i].work
      BY <1>0, <2>1, <2>2
    <2>3. CASE o \notin log[i].work
      <3>1. o = q /\ i = Len(log)
        BY <1>1, <2>1, <2>3
      <3>2. log'[i].of = ScopeOf[q]
        BY <1>3, <2>1, <3>1, ServerGuards DEF WorkIsInnermost, Innermost
      <3>3. op'[q] \in {"ok", "failed"}
        BY <1>3 DEF FinishOp, IInv, TypeOK
      <3> QED BY <3>1, <3>2, <3>3, BelongsAtHome
    <2> QED BY <2>2, <2>3
  <1>4. ASSUME NEW n \in Nested, log' = Append(log, Frame(n))
        PROVE  BelongsAfter(log'[i].of, o)
    <2>1. /\ \A j \in DOMAIN log : log'[j] = log[j]
          /\ log'[Len(log) + 1].work = {}
          /\ log' \in Seq(Frames) /\ Len(log') = Len(log) + 1
      BY <1>4, OpenedFrames
    <2>2. DOMAIN log' = 1..(Len(log) + 1)
      BY <2>1
    <2>3. i \in DOMAIN log
      <3>1. i # Len(log) + 1
        BY <1>1, <2>1
      <3> QED BY <1>t, <1>1, <2>2, <3>1
    <2> QED BY <1>0, <1>1, <2>1, <2>3
  <1>5. ASSUME NEW n \in Nested, Held(n), log' = Released(n), Position(n) = Len(log),
               scope'[n] = "succeeding" \/ log[Len(log)].work = {}
        PROVE  BelongsAfter(log'[i].of, o)
    <2> DEFINE k == Position(n) - 1
    <2>1. /\ log' \in Seq(Frames) /\ Len(log') = k /\ k \in 1..Len(log)
          /\ \A j \in 1..k :
               /\ log'[j].of = log[j].of
               /\ log'[j].work =
                    IF j = k THEN log[k].work \cup UNION {log[m].work : m \in Position(n)..Len(log)}
                    ELSE log[j].work
      BY <1>5, ReleasedFrames
    <2>2. UNION {log[m].work : m \in Position(n)..Len(log)} = log[Len(log)].work
      <3>1. Position(n)..Len(log) = {Len(log)}
        BY <1>t, <1>5
      <3> QED BY <3>1
    <2>3. k + 1 = Len(log) /\ Len(log) \in 2..Len(log) /\ Len(log) - 1 = k
      BY <1>t, <1>5, PositionOf
    <2>4. log[Len(log)].of = n /\ log[k].of = Parent[n]
      <3>1. log[Len(log)].of = n
        BY <1>5, PositionOf
      <3>2. Parent[log[Len(log)].of] = log[Len(log) - 1].of
        BY <2>3 DEF SavepointsNest
      <3> QED BY <2>3, <3>1, <3>2
    <2> HIDE DEF k
    <2>5. i \in 1..k /\ i \in DOMAIN log
      <3>1. DOMAIN log' = 1..k
        BY <2>1
      <3> QED BY <1>t, <1>1, <2>1, <3>1
    <2>6. CASE o \in log[i].work
      BY <1>0, <2>1, <2>5, <2>6
    <2>7. CASE o \notin log[i].work
      <3>1. i = k /\ o \in log[Len(log)].work
        BY <1>1, <2>1, <2>2, <2>5, <2>7
      <3>2. BelongsAfter(n, o) /\ o \in Ops
        BY <1>0, <1>t, <2>4, <3>1
      <3>3. scope'[n] = "succeeding"
        BY <1>5, <3>1
      <3>4. BelongsAfter(Parent[n], o)
        BY <3>2, <3>3, BelongsToParent
      <3> QED BY <2>1, <2>4, <2>5, <3>1, <3>4
    <2> QED BY <2>6, <2>7
  <1>6. ASSUME NEW n \in Nested, Held(n), log' = RolledBack(n)
        PROVE  BelongsAfter(log'[i].of, o)
    <2>1. /\ log' \in Seq(Frames) /\ Len(log') = Position(n) /\ Position(n) \in 2..Len(log)
          /\ \A j \in 1..(Position(n) - 1) : log'[j] = log[j]
          /\ log'[Position(n)].work = {}
      BY <1>6, RolledBackFrames, PositionOf
    <2>2. DOMAIN log' = 1..Position(n)
      BY <2>1
    <2>3. i # Position(n)
      BY <1>1, <2>1
    <2>4. i \in 1..(Position(n) - 1) /\ i \in DOMAIN log
      BY <1>t, <1>1, <2>1, <2>2, <2>3
    <2> QED BY <1>0, <1>1, <2>1, <2>4
  <1> QED BY <1>2, <1>3, <1>4, <1>5, <1>6, LogMovesBeforeEnd

LEMMA IsThereStep ==
  ASSUME IInv, SavepointsNest, WorkIsInnermost, WorkIsWhereItBelongs, WorkIsThere,
         [Next]_vars, Committing', ~Ended'
  PROVE  WorkIsThere'
  <1>t. /\ Len(log) \in Nat /\ Len(log) \in DOMAIN log /\ DOMAIN log = 1..Len(log)
        /\ \A i \in DOMAIN log : log[i].of \in Scopes /\ log[i].work \subseteq Ops
    BY LogFacts
  <1> DEFINE There(o) == \E i \in DOMAIN log' : o \in log'[i].work
             Undone(o) == \E a \in Chain(ScopeOf[o]) \ {Root} : scope'[a] \in RolledUp
  <1>1. SUFFICES ASSUME NEW o \in Ops, op'[o] = "ok" PROVE There(o) \/ Undone(o)
    BY <1>1 DEF WorkIsThere, Surviving
  <1>2. CASE op[o] # "ok"
    <2>1. FinishOp(o)
      BY <1>1, <1>2, OpMoves
    <2>2. log' = Effect(o)
      BY <1>1, <2>1 DEF FinishOp, IInv, TypeOK
    <2>3. log' \in Seq(Frames) /\ Len(log') = Len(log) /\ o \in log'[Len(log)].work
      BY <1>t, <2>2, EffectFrames
    <2>4. Len(log) \in DOMAIN log'
      <3>1. DOMAIN log' = 1..Len(log')
        BY <2>3
      <3> QED BY <1>t, <2>3, <3>1
    <2> QED BY <2>3, <2>4
  <1>3. CASE \E a \in Chain(ScopeOf[o]) \ {Root} : scope[a] \in RolledUp
    <2>1. Chain(ScopeOf[o]) \ {Root} \subseteq Nested
      BY TreeFacts DEF Nested
    <2> QED BY <1>3, <2>1, OutcomesStay
  <1>4. ASSUME NEW i \in DOMAIN log, o \in log[i].work PROVE There(o) \/ Undone(o)
    <2>1. CASE log' = log
      BY <1>4, <2>1
    <2>2. ASSUME NEW q \in Ops, log' = Effect(q) PROVE There(o)
      <3>1. log' \in Seq(Frames) /\ Len(log') = Len(log) /\ o \in log'[i].work
        BY <1>4, <2>2, EffectFrames
      <3>2. DOMAIN log' = 1..Len(log')
        BY <3>1
      <3> QED BY <1>t, <3>1, <3>2
    <2>3. ASSUME NEW n \in Nested, log' = Append(log, Frame(n)) PROVE There(o)
      <3>1. log' \in Seq(Frames) /\ Len(log') = Len(log) + 1 /\ o \in log'[i].work
        BY <1>4, <2>3, OpenedFrames
      <3>2. DOMAIN log' = 1..(Len(log) + 1)
        BY <3>1
      <3>3. i \in DOMAIN log'
        BY <1>t, <3>2
      <3> QED BY <3>1, <3>3
    <2>4. ASSUME NEW n \in Nested, Held(n), log' = Released(n) PROVE There(o)
      <3> DEFINE k == Position(n) - 1
      <3>1. /\ log' \in Seq(Frames) /\ Len(log') = k /\ k \in 1..Len(log)
            /\ \A j \in 1..k :
                 log'[j].work =
                   IF j = k THEN log[k].work \cup UNION {log[m].work : m \in Position(n)..Len(log)}
                   ELSE log[j].work
        BY <2>4, ReleasedFrames
      <3>2. Position(n) \in 2..Len(log) /\ k = Position(n) - 1
        BY <2>4, PositionOf
      <3> HIDE DEF k
      <3>3. DOMAIN log' = 1..k
        BY <3>1
      <3>4. CASE i \in 1..k
        BY <1>4, <3>1, <3>3, <3>4
      <3>5. CASE i \notin 1..k
        <4>1. i \in Position(n)..Len(log) /\ k \in 1..k
          BY <1>t, <3>1, <3>2, <3>5
        <4>2. o \in log'[k].work
          BY <1>4, <3>1, <4>1
        <4> QED BY <3>3, <4>1, <4>2
      <3> QED BY <3>4, <3>5
    <2>5. ASSUME NEW n \in Nested, Held(n), log' = RolledBack(n), Position(n) = Len(log),
                 scope'[n] \in RolledUp
          PROVE  There(o) \/ Undone(o)
      <3>1. /\ log' \in Seq(Frames) /\ Len(log') = Position(n) /\ Position(n) \in 2..Len(log)
            /\ \A j \in 1..(Position(n) - 1) : log'[j] = log[j]
            /\ log[Position(n)].of = n
        BY <2>5, RolledBackFrames, PositionOf
      <3>2. DOMAIN log' = 1..Position(n)
        BY <3>1
      <3>3. CASE i = Position(n)
        <4>1. n \in Chain(ScopeOf[o])
          BY <1>4, <3>1, <3>3 DEF WorkIsWhereItBelongs
        <4> QED BY <2>5, <4>1, TreeFacts
      <3>4. CASE i # Position(n)
        <4>1. i \in 1..(Position(n) - 1) /\ i \in DOMAIN log'
          BY <1>t, <2>5, <3>1, <3>2, <3>4
        <4> QED BY <1>4, <3>1, <4>1
      <3> QED BY <3>3, <3>4
    <2> QED BY <2>1, <2>2, <2>3, <2>4, <2>5, LogMovesBeforeEnd
  <1> QED BY <1>2, <1>3, <1>4 DEF WorkIsThere, Surviving

LEMMA LogIsExactStep ==
  ASSUME IInv, SavepointsNest, WorkIsInnermost, LogIsExact, [Next]_vars
  PROVE  LogIsExact'
  <1>1. SUFFICES ASSUME Committing', ~Ended'
                 PROVE  WorkIsWhereItBelongs' /\ WorkIsThere'
    BY <1>1 DEF LogIsExact
  <1>2. WorkIsWhereItBelongs /\ WorkIsThere
    BY <1>1, CommittingBefore, OutcomesStay DEF LogIsExact
  <1> QED BY <1>1, <1>2, BelongsStep, IsThereStep

-----------------------------------------------------------------------------
(***************************************************************************)
(* The outcome.                                                            *)
(***************************************************************************)

\* At COMMIT the log holds the transaction's own frame alone, and exactly what
\* the committed callbacks did.
LEMMA CommitIsExact ==
  ASSUME IInv, SavepointsNest, SuccessIsClean, LogIsExact, scope[Root] = "committing"
  PROVE  Surviving = Kept
  <1>1. WorkIsWhereItBelongs /\ WorkIsThere /\ Committing
    BY DEF LogIsExact, Committing, Ended
  <1>2. Len(log) = 1
    <2>1. SUFFICES ASSUME Len(log) # 1 PROVE FALSE
      OBVIOUS
    <2>2. 2 \in 2..Len(log)
      BY <2>1, LogFacts
    <2>3. log[2].of \in Nested /\ scope[log[2].of] \in InSavepoint
      BY <1>1, <2>2 DEF SavepointsNest
    <2>4. scope[Root] \in Open
      BY <2>3, TreeFacts DEF IInv, WorkIsInOpenScopes, InSavepoint
    <2> QED BY <2>4 DEF Open
  <1>3. DOMAIN log = {1} /\ log[1].of = Root /\ log[1].work \subseteq Ops
    BY <1>2, LogFacts DEF SavepointsNest
  <1>4. ASSUME NEW n \in Nested, scope[n] = "succeeding" PROVE FALSE
    BY <1>4, TreeFacts DEF SuccessIsClean, Open
  <1>5. ASSUME NEW o \in log[1].work PROVE o \in Kept
    <2>1. ASSUME NEW a \in Chain(ScopeOf[o]) \ {Root} PROVE a \in Nested /\ scope[a] = "done"
      <3>1. a \in Nested
        BY <1>3, <2>1, TreeFacts DEF Nested
      <3>2. scope[a] \in {"succeeding", "done"}
        BY <1>1, <1>3, <2>1, <3>1, TreeFacts DEF WorkIsWhereItBelongs
      <3> QED BY <1>4, <3>1, <3>2
    <2>2. scope[ScopeOf[o]] \in {"committing", "done"}
      BY <1>3, <2>1, TreeFacts
    <2>3. op[o] \in {"ok", "failed"} /\ op[o] # "failed"
      BY <1>1, <1>3, <2>2, TreeFacts DEF WorkIsWhereItBelongs, SuccessIsClean
    <2> QED BY <1>3, <2>1, <2>3 DEF Kept
  <1>6. ASSUME NEW o \in Kept PROVE o \in Surviving
    BY <1>1 DEF Kept, WorkIsThere, RolledUp
  <1> QED BY <1>3, <1>5, <1>6 DEF Surviving

\* Once the transaction is past waitForActiveOperations it is settled what counts.
LEMMA KeptStays ==
  ASSUME IInv, SuccessIsClean, [Next]_vars, scope[Root] \notin Open
  PROVE  Kept' = Kept
  <1>1. ASSUME NEW o \in Ops PROVE op'[o] = "ok" <=> op[o] = "ok"
    <2>1. op[o] # "running"
      BY TreeFacts DEF IInv, WorkIsInOpenScopes
    <2> QED BY <2>1, OpMoves, OutcomesStay, ServerGuards
  <1>2. ASSUME NEW n \in Nested PROVE scope'[n] = "done" <=> scope[n] = "done"
    <2>1. scope[n] # "succeeding"
      BY TreeFacts DEF SuccessIsClean
    <2>2. n \in Scopes /\ n # Root
      BY TreeFacts
    <2>3. scope'[n] = "done" /\ scope'[n] # scope[n] => scope[n] = "succeeding"
      BY <2>2, ScopeMoves
    <2>4. scope[n] = "done" /\ scope'[n] # scope[n] => FALSE
      BY <2>2, ScopeMoves
         DEF CallNested, AdmitNested, StartNested, CheckNested, OpenSavepoint, Release,
             RollbackTo, ReleaseAfterRollback, CloseScope, Decide
    <2> QED BY <2>1, <2>3, <2>4
  <1>3. \A o \in Ops : Chain(ScopeOf[o]) \ {Root} \subseteq Nested
    BY TreeFacts DEF Nested
  <1> QED BY <1>1, <1>2, <1>3 DEF Kept, Chain

LEMMA RootEndsStep ==
  ASSUME IInv, SavepointsNest, SuccessIsClean, LogIsExact, RootEnds, [Next]_vars
  PROVE  RootEnds'
  <1>t. Root \in Scopes /\ Root \notin Nested
    BY TreeFacts
  <1>1. scope'[Root] \in Open \cup {"committing", "aborting", "done", "failed"}
    BY <1>t, ScopeMoves DEF RootEnds, Open
  <1>2. CASE EndRoot
    <2>1. /\ scope[Root] \notin Open /\ ~Ended /\ Ended' /\ committed = {}
          /\ scope'[Root] = "done" => scope[Root] = "committing"
      BY <1>t, <1>2 DEF EndRoot, Open, Ended, RootEnds, IInv, TypeOK
    <2>2. scope[Root] = "committing" => Surviving = Kept
      BY CommitIsExact
    <2>3. Kept' = Kept
      BY <2>1, KeptStays
    <2>4. AllOrNothing'
      <3>1. committed' \in {{}, Kept} /\ (scope'[Root] = "done" => committed' = Kept)
        BY <1>t, <1>2, <2>1, <2>2 DEF EndRoot, IInv, TypeOK
      <3> QED BY <2>3, <3>1 DEF AllOrNothing
    <2> QED BY <1>1, <2>1, <2>4 DEF RootEnds
  <1>3. CASE ~EndRoot
    <2>1. committed' = committed
      BY <1>3, MarksStay
    <2>2. scope'[Root] \in {"done", "failed"} => scope'[Root] = scope[Root]
      BY <1>t, <1>3, ScopeMoves
    <2>3. CASE Ended
      <3>1. scope[Root] \notin Open /\ Ended'
        BY <2>3, OutcomesStay DEF Open, Ended
      <3>2. Kept' = Kept
        BY <3>1, KeptStays
      <3> QED BY <1>1, <2>1, <2>2, <3>1, <3>2 DEF RootEnds, AllOrNothing
    <2>4. CASE ~Ended
      <3>1. ~Ended' /\ committed' = {}
        BY <2>1, <2>2, <2>4 DEF Ended, RootEnds
      <3>2. scope'[Root] # "done"
        BY <3>1 DEF Ended
      <3> QED BY <1>1, <3>1, <3>2 DEF RootEnds, AllOrNothing
    <2> QED BY <2>3, <2>4
  <1> QED BY <1>2, <1>3

-----------------------------------------------------------------------------
LEMMA InitLogInv == Init => LogInv
  <1> SUFFICES ASSUME Init PROVE LogInv
    OBVIOUS
  <1>1. /\ \A o \in Ops : op[o] = "idle"
        /\ \A n \in Nested : scope[n] = "idle"
        /\ scope[Root] = "body" /\ ~Ended /\ ~rollbackOnly[Root]
        /\ \A s \in Scopes : scope[s] \in {"idle", "body"}
    BY TreeFacts DEF Init, Ended
  <1>2. /\ log = <<Frame(Root)>> /\ Frame(Root) \in Frames
        /\ Frame(Root).of = Root /\ Frame(Root).work = {}
    BY TreeFacts DEF Init, Frame, Frames
  <1>3. /\ log \in Seq(Frames) /\ log # <<>> /\ Len(log) = 1 /\ DOMAIN log = {1}
        /\ log[1].of = Root /\ log[1].work = {}
    BY <1>2
  <1>4. OneJobAtATime /\ FailuresMark /\ SuccessIsClean
    BY <1>1, TreeFacts DEF OneJobAtATime, FailuresMark, SuccessIsClean, HoldsQueue, Unhandled
  <1>5. SavepointsNest
    BY <1>1, <1>3 DEF SavepointsNest, InSavepoint, HoldsQueue
  <1>6. WorkIsInnermost
    BY <1>1 DEF WorkIsInnermost
  <1>7. LogIsExact
    BY <1>1, <1>3 DEF LogIsExact, WorkIsWhereItBelongs, WorkIsThere
  <1>8. RootEnds
    <2>1. committed = {}
      BY DEF Init
    <2> QED BY <1>1, <2>1 DEF RootEnds, AllOrNothing, Open
  <1> QED BY <1>4, <1>5, <1>6, <1>7, <1>8 DEF LogInv

LEMMA LogStep == IInv /\ LogInv /\ [Next]_vars => LogInv'
  <1> SUFFICES ASSUME IInv, LogInv, [Next]_vars PROVE LogInv'
    OBVIOUS
  <1> USE DEF LogInv
  <1>1. OneJobAtATime' /\ FailuresMark' /\ SuccessIsClean'
    BY OneJobStep, FailuresMarkStep, SuccessStep
  <1>2. SavepointsNest' /\ WorkIsInnermost'
    BY SavepointsStep, InnermostStep
  <1>3. LogIsExact' /\ RootEnds'
    BY LogIsExactStep, RootEndsStep
  <1> QED BY <1>1, <1>2, <1>3

\* What the server holds fits the scopes that are at work, at every moment: the
\* open savepoints are those of scopes nested in each other, and until the
\* transaction is barred from committing its work is in the frames it belongs to
\* (runSavepoint in src/src/drivers/shared/transactions.ts).
THEOREM LogInvHolds == Spec => []LogInv
  <1>1. Init => LogInv
    BY InitLogInv
  <1>2. IInv /\ LogInv /\ [Next]_vars => LogInv'
    BY LogStep
  <1> QED BY <1>1, <1>2, InvariantHolds, PTL DEF Spec

\* All or nothing, for every tree of callbacks and every set of statements:
\* COMMIT makes durable exactly what the committed callbacks did, whatever was
\* caught, abandoned, left unawaited or failed to clean up after itself.
THEOREM AllOrNothingHolds == Spec => []AllOrNothing
  <1>1. LogInv => AllOrNothing
    BY DEF LogInv, RootEnds
  <1> QED BY <1>1, LogInvHolds, PTL

\* closeTransactionScope and assertTransactionCommittable: a scope goes on to
\* COMMIT or RELEASE only if every statement issued on it succeeded and every
\* nested transaction succeeded or had its failure seen.
THEOREM NoSilentFailureHolds == Spec => NoSilentFailure
  <1> DEFINE Clean(s) ==
        /\ \A o \in Ops : ScopeOf[o] = s => op[o] \in {"idle", "refused", "ok"}
        /\ \A n \in Nested : Parent[n] = s =>
             \/ scope[n] \in {"idle", "refused", "done"}
             \/ scope[n] \in {"failed", "rejected"} /\ observed[n]
      Seen == \A s \in Scopes : scope[s] # "committing" /\ scope'[s] = "committing" => Clean(s)
  <1>1. IInv /\ LogInv /\ [Next]_vars => Seen
    <2>1. SUFFICES ASSUME IInv, LogInv, [Next]_vars, NEW s \in Scopes,
                          scope[s] # "committing", scope'[s] = "committing"
                   PROVE  Clean(s)
      OBVIOUS
    <2>2. Decide(s) /\ Committable(s)
      BY <2>1, ScopeMoves
    <2> QED BY <2>1, <2>2, CommittingIsClean DEF LogInv
  <1>2. [][Seen]_vars <=> NoSilentFailure
    BY DEF NoSilentFailure
  <1> QED BY <1>1, <1>2, InvariantHolds, LogInvHolds, PTL DEF Spec

\* Each scope's queue and the savepoint flag: a statement reaches the server while
\* the savepoint of its own scope is the innermost one.
THEOREM InItsOwnScopeHolds == Spec => InItsOwnScope
  <1> DEFINE Placed ==
        \A o \in Ops : op[o] = "running" /\ op'[o] = "ok" => Innermost = ScopeOf[o]
  <1>1. LogInv => Placed
    BY DEF LogInv, WorkIsInnermost
  <1>2. [][Placed]_vars <=> InItsOwnScope
    BY DEF InItsOwnScope
  <1> QED BY <1>1, <1>2, LogInvHolds, PTL DEF Spec
=============================================================================
