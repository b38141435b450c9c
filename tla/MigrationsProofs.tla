-------------------------- MODULE MigrationsProofs --------------------------
(***************************************************************************)
(* Proofs about the migration commands, for every number of processes,     *)
(* every script and every journal.                                         *)
(*                                                                         *)
(* The helpers of the model are recursive functions; what they return is   *)
(* proved by induction on a bound, which Induction takes from the          *)
(* well-foundedness of <.  HasWork says that a command at work has an      *)
(* entry in hand, which types need.  Then, each with the workloads for     *)
(* which the code makes it true:                                           *)
(*                                                                         *)
(*  - FilesInv: what a command has read of the journal, and what generate  *)
(*    is about to add to it, have their files;                             *)
(*  - EffectsInv: each name stands for the same changes wherever it is     *)
(*    written (BodiesInv), a rollback has the scripts for what it undoes   *)
(*    (DownsInv) and a reset replays what it clears (ResetInv), so that    *)
(*    rows and changes come and go together;                               *)
(*  - OrderInv: the journal only grows (JournalInv, ReadInv), what apply   *)
(*    has left is all that is not applied, in order (LeftInv), and what    *)
(*    down has left includes all that came after (UndoInv).                *)
(***************************************************************************)
EXTENDS Migrations, WellFoundedInduction, TLAPS

(***************************************************************************)
(* Sequences.  Induction on a bound, from the well-foundedness of <.       *)
(***************************************************************************)

LEMMA Least ==
  ASSUME NEW T, T \subseteq Nat, T # {}
  PROVE  \E n \in T : \A m \in T : ~(m < n)
  <1> DEFINE R == {ss \in Nat \X Nat : ss[1] < ss[2]}
  <1>1. IsWellFoundedOn(R, Nat)
    BY NatLessThanWellFounded, Zenon DEF OpToRel
  <1> HIDE DEF R
  <1>2. \E x \in T : \A y \in T : ~(<<y, x>> \in R)
    BY <1>1, WFMin, Zenon
  <1> QED BY <1>2 DEF R

LEMMA Induction ==
  ASSUME NEW S, NEW N \in Nat, 0 \in S, \A n \in 0..N : n \in S /\ n # N => n + 1 \in S
  PROVE  0..N \subseteq S
  <1> DEFINE T == {n \in 0..N : n \notin S}
  <1>1. SUFFICES ASSUME T # {} PROVE FALSE
    BY <1>1
  <1>2. T \subseteq Nat
    OBVIOUS
  <1>3. PICK n \in T : \A m \in T : ~(m < n)
    BY <1>1, <1>2, Least
  <1>4. n \in Nat /\ n # 0 /\ n - 1 \in 0..N /\ n - 1 # N /\ n - 1 < n /\ (n - 1) + 1 = n
    BY <1>3
  <1>5. n - 1 \in S
    BY <1>3, <1>4
  <1> QED BY <1>3, <1>4, <1>5

\* The recursion in Among, up to n.
KeptTo(n, f, s, S) ==
  f = [i \in 0..n |-> IF i = 0 THEN <<>>
                      ELSE IF s[i] \in S THEN Append(f[i - 1], s[i]) ELSE f[i - 1]]

LEMMA KeptExists ==
  ASSUME NEW s, NEW S, NEW N \in Nat
  PROVE  \E f : KeptTo(N, f, s, S)
  <1> DEFINE G == {n \in 0..N : \E f : KeptTo(n, f, s, S)}
  <1>1. 0 \in G
    <2> DEFINE f == [i \in 0..0 |-> <<>>]
    <2>1. KeptTo(0, f, s, S)
      BY DEF KeptTo
    <2> HIDE DEF f
    <2>2. \E g : KeptTo(0, g, s, S)
      BY <2>1
    <2> QED BY <2>2
  <1>2. ASSUME NEW n \in 0..N, n \in G, n # N PROVE n + 1 \in G
    <2>1. PICK f : KeptTo(n, f, s, S)
      BY <1>2
    <2>2. \A i \in 0..n : f[i] = IF i = 0 THEN <<>>
            ELSE IF s[i] \in S THEN Append(f[i - 1], s[i]) ELSE f[i - 1]
      BY <2>1 DEF KeptTo
    <2> DEFINE g == [i \in 0..(n + 1) |-> IF i # n + 1 THEN f[i]
                       ELSE IF s[i] \in S THEN Append(f[n], s[i]) ELSE f[n]]
    <2>3. /\ g = [i \in 0..(n + 1) |-> g[i]]
          /\ \A i \in 0..n : g[i] = f[i]
          /\ g[n + 1] = IF s[n + 1] \in S THEN Append(f[n], s[n + 1]) ELSE f[n]
      OBVIOUS
    <2> HIDE DEF g
    <2>4. ASSUME NEW i \in 0..(n+1)
          PROVE  g[i] = IF i = 0 THEN <<>>
                        ELSE IF s[i] \in S THEN Append(g[i - 1], s[i]) ELSE g[i - 1]
      <3>1. CASE i = n + 1
        <4>1. n + 1 # 0 /\ (n + 1) - 1 = n /\ n \in 0..n
          OBVIOUS
        <4> QED BY <2>3, <3>1, <4>1
      <3>2. CASE i # n + 1
        <4>1. i \in 0..n /\ (i # 0 => i - 1 \in 0..n)
          BY <3>2
        <4> QED BY <2>2, <2>3, <4>1
      <3> QED BY <3>1, <3>2
    <2>5. KeptTo(n + 1, g, s, S)
      BY <2>3, <2>4 DEF KeptTo
    <2>6. \E h : KeptTo(n + 1, h, s, S)
      BY <2>5
    <2> QED BY <2>6, <1>2
  <1>3. N \in G
    <2> HIDE DEF G
    <2>1. 0..N \subseteq G
      BY <1>1, <1>2, Induction
    <2> QED BY <2>1
  <1> QED BY <1>3

\* Among keeps the elements in S.
LEMMA AmongFacts ==
  ASSUME NEW D, NEW s \in Seq(D), NEW S
  PROVE  /\ Among(s, S) \in Seq(D)
         /\ Range(Among(s, S)) = Range(s) \cap S
  <1>1. Len(s) \in Nat /\ DOMAIN s = 1..Len(s) /\ \A i \in 1..Len(s) : s[i] \in D
    OBVIOUS
  <1> DEFINE f == CHOOSE f : f = [i \in 0..Len(s) |->
                    IF i = 0 THEN <<>>
                    ELSE IF s[i] \in S THEN Append(f[i - 1], s[i]) ELSE f[i - 1]]
  <1>2. KeptTo(Len(s), f, s, S)
    <2>1. \E g : KeptTo(Len(s), g, s, S)
      BY <1>1, KeptExists
    <2> QED BY <2>1 DEF KeptTo
  <1>3. Among(s, S) = f[Len(s)]
    BY DEF Among
  <1> HIDE DEF f
  <1>4. \A i \in 0..Len(s) : f[i] = IF i = 0 THEN <<>>
          ELSE IF s[i] \in S THEN Append(f[i - 1], s[i]) ELSE f[i - 1]
    BY <1>2 DEF KeptTo
  <1> DEFINE Good(n) == /\ f[n] \in Seq(D)
                        /\ Range(f[n]) = {s[k] : k \in 1..n} \cap S
             G == {n \in 0..Len(s) : Good(n)}
  <1>5. 0 \in G
    <2>1. f[0] = <<>> /\ 1..0 = {} /\ 0 \in 0..Len(s)
      BY <1>1, <1>4
    <2>2. DOMAIN <<>> = {} /\ <<>> \in Seq(D)
      OBVIOUS
    <2>3. Range(<<>>) = {}
      BY <2>2 DEF Range
    <2> QED BY <2>1, <2>2, <2>3
  <1>6. ASSUME NEW n \in 0..Len(s), n \in G, n # Len(s) PROVE n + 1 \in G
    <2>1. n + 1 \in 1..Len(s) /\ n + 1 \in 0..Len(s) /\ s[n + 1] \in D /\ (n + 1) - 1 = n
      <3> HIDE DEF G
      <3>1. n \in Nat /\ n <= Len(s) /\ n # Len(s)
        <4>1. n \in 0..Len(s) /\ Len(s) \in Nat
          BY <1>1
        <4> QED BY <1>6, <4>1
      <3>2. n + 1 \in 1..Len(s) /\ n + 1 \in 0..Len(s) /\ (n + 1) - 1 = n
        <4>1. Len(s) \in Nat
          BY <1>1
        <4> QED BY <3>1, <4>1
      <3> QED BY <1>1, <3>2
    <2>2. f[n] \in Seq(D) /\ Range(f[n]) = {s[k] : k \in 1..n} \cap S
      BY <1>6
    <2>3. f[n + 1] = IF s[n + 1] \in S THEN Append(f[n], s[n + 1]) ELSE f[n]
      BY <1>4, <2>1
    <2>4. {s[k] : k \in 1..(n + 1)} = {s[k] : k \in 1..n} \cup {s[n + 1]}
      <3>1. 1..(n + 1) = (1..n) \cup {n + 1}
        BY <2>1
      <3> QED BY <3>1
    <2>5. /\ Append(f[n], s[n + 1]) \in Seq(D)
          /\ Range(Append(f[n], s[n + 1])) = Range(f[n]) \cup {s[n + 1]}
      <3>1. /\ Append(f[n], s[n + 1]) \in Seq(D)
            /\ Len(f[n]) \in Nat /\ DOMAIN f[n] = 1..Len(f[n])
            /\ DOMAIN Append(f[n], s[n + 1]) = 1..(Len(f[n]) + 1)
            /\ \A i \in 1..Len(f[n]) : Append(f[n], s[n + 1])[i] = f[n][i]
            /\ Append(f[n], s[n + 1])[Len(f[n]) + 1] = s[n + 1]
        BY <2>1, <2>2
      <3>2. 1..(Len(f[n]) + 1) = (1..Len(f[n])) \cup {Len(f[n]) + 1}
        BY <3>1
      <3> QED BY <3>1, <3>2 DEF Range
    <2>6. Good(n + 1)
      BY <2>2, <2>3, <2>4, <2>5
    <2> QED BY <2>1, <2>6
  <1>7. Good(Len(s))
    <2> HIDE DEF G
    <2>1. 0..Len(s) \subseteq G
      BY <1>1, <1>5, <1>6, Induction
    <2>2. Len(s) \in G
      BY <1>1, <2>1
    <2> QED BY <2>2 DEF G
  <1> QED BY <1>1, <1>3, <1>7 DEF Range

LEMMA RangeOfAppend ==
  ASSUME NEW D, NEW s \in Seq(D), NEW x \in D
  PROVE  Range(Append(s, x)) = Range(s) \cup {x}
  <1>1. /\ Len(s) \in Nat /\ DOMAIN s = 1..Len(s)
        /\ DOMAIN Append(s, x) = 1..(Len(s) + 1)
        /\ \A i \in 1..Len(s) : Append(s, x)[i] = s[i]
        /\ Append(s, x)[Len(s) + 1] = x
    OBVIOUS
  <1>2. 1..(Len(s) + 1) = (1..Len(s)) \cup {Len(s) + 1}
    BY <1>1
  <1> QED BY <1>1, <1>2 DEF Range

LEMMA HeadFacts ==
  ASSUME NEW D, NEW s \in Seq(D), s # <<>>
  PROVE  Head(s) \in D /\ Head(s) \in Range(s)
  <1>1. 1 \in DOMAIN s /\ Head(s) = s[1] /\ s[1] \in D
    OBVIOUS
  <1> QED BY <1>1 DEF Range

LEMMA TailFacts ==
  ASSUME NEW D, NEW s \in Seq(D), s # <<>>
  PROVE  Tail(s) \in Seq(D) /\ Range(Tail(s)) \subseteq Range(s)
  <1>1. /\ Tail(s) \in Seq(D) /\ Len(s) \in Nat /\ DOMAIN s = 1..Len(s)
        /\ DOMAIN Tail(s) = 1..(Len(s) - 1)
        /\ \A i \in 1..(Len(s) - 1) : Tail(s)[i] = s[i + 1]
    OBVIOUS
  <1>2. ASSUME NEW i \in 1..(Len(s) - 1) PROVE i + 1 \in 1..Len(s)
    <2>1. Len(s) \in Nat
      BY <1>1
    <2> QED BY <2>1
  <1> QED BY <1>1, <1>2 DEF Range

LEMMA RangeType ==
  ASSUME NEW D, NEW s \in Seq(D)
  PROVE  Range(s) \subseteq D
  BY DEF Range
-----------------------------------------------------------------------------
(***************************************************************************)
(* Types.                                                                  *)
(***************************************************************************)

LEMMA InitType == Init => TypeOK
  <1> SUFFICES ASSUME Init PROVE TypeOK
    OBVIOUS
  <1>1. work \in Workloads /\ journal = work.journal /\ journal \in Seq(Entries)
    BY WorkloadsAssumption DEF Init
  <1>2. \A i \in DOMAIN journal : journal[i] \in Entries
    BY <1>1
  <1>3. Range(journal) \subseteq Entries
    BY <1>2 DEF Range
  <1>4. files \in SUBSET Entries /\ downs \in SUBSET Paths /\ snapshot \in SUBSET Changes
    BY <1>1, <1>3 DEF Init, Path, Paths, Entries, BodiesOf
  <1>5. tracked \in SUBSET Rows
    <2>1. \A i \in 1..work.applied : i \in DOMAIN journal
      BY <1>1, WorkloadsAssumption
    <2>2. Range(SubSeq(journal, 1, work.applied)) \subseteq Entries
      BY <1>1, <1>2, <2>1, WorkloadsAssumption DEF Range
    <2> QED BY <1>1, <2>2 DEF Init, RowOf, Rows, Entries
  <1>6. schema \in SUBSET Changes /\ twice \in SUBSET Changes
    BY <1>5 DEF Init, BodiesOf, Rows
  <1>7. holder \in Procs \cup {Nobody} /\ crashes \in Nat
    BY DEF Init
  <1>8. proc \in [Procs -> ProcStates]
    BY DEF Init, Fresh, ProcStates
  <1> QED BY <1>1, <1>4, <1>5, <1>6, <1>7, <1>8 DEF TypeOK

LEMMA RunsFacts ==
  ASSUME TypeOK, NEW p \in Procs, NEW pc, NEW commands, Runs(p, pc, commands)
  PROVE  /\ proc[p] \in ProcStates /\ proc[p].pc = pc /\ Command(p).do \in commands
         /\ Command(p) \in Commands
         /\ proc[p].at \in DOMAIN work.scripts[p]
  <1>1. proc[p] \in ProcStates /\ proc[p].at \in Nat \ {0}
    BY DEF TypeOK, ProcStates
  <1>2. work.scripts[p] \in Seq(Commands)
    BY WorkloadsAssumption DEF TypeOK
  <1>3. proc[p].at \in DOMAIN work.scripts[p]
    BY <1>1, <1>2 DEF Runs
  <1> QED BY <1>1, <1>2, <1>3 DEF Runs, Command

\* A process gets a new state.
LEMMA Becomes ==
  ASSUME TypeOK, NEW p \in Procs, NEW v \in ProcStates, proc' = [proc EXCEPT ![p] = v]
  PROVE  /\ proc' \in [Procs -> ProcStates]
         /\ proc'[p] = v
         /\ \A q \in Procs \ {p} : proc'[q] = proc[q]
  BY DEF TypeOK

LEMMA EndingTypes ==
  ASSUME TypeOK, NEW p \in Procs
  PROVE  /\ Return(p) => proc' = [proc EXCEPT ![p] = Fresh(proc[p].at + 1)]
         /\ Fail(p) => proc' = [proc EXCEPT ![p] = [proc[p] EXCEPT !.pc = "failed", !.ok = FALSE]]
         /\ FailLocked(p) =>
              proc' = [proc EXCEPT ![p] = [proc[p] EXCEPT !.pc = "unlock", !.ok = FALSE]]
         /\ ReturnLocked(p) => proc' = [proc EXCEPT ![p] = [proc[p] EXCEPT !.pc = "unlock"]]
         /\ \A pc : Go(p, pc) => proc' = [proc EXCEPT ![p] = [proc[p] EXCEPT !.pc = pc]]
         /\ Fresh(proc[p].at) \in ProcStates /\ Fresh(proc[p].at + 1) \in ProcStates
  <1>1. proc[p] \in ProcStates
    BY DEF TypeOK
  <1>2. proc[p].at \in Nat \ {0} /\ proc[p].at + 1 \in Nat \ {0}
    BY <1>1 DEF ProcStates
  <1>3. Fresh(proc[p].at) \in ProcStates /\ Fresh(proc[p].at + 1) \in ProcStates
    BY <1>2 DEF Fresh, ProcStates
  <1>4. FailLocked(p) =>
          proc' = [proc EXCEPT ![p] = [proc[p] EXCEPT !.pc = "unlock", !.ok = FALSE]]
    BY <1>1 DEF FailLocked, TypeOK, ProcStates
  <1>5. Fail(p) => proc' = [proc EXCEPT ![p] = [proc[p] EXCEPT !.pc = "failed", !.ok = FALSE]]
    BY <1>1 DEF Fail, TypeOK, ProcStates
  <1> QED BY <1>3, <1>4, <1>5 DEF Return, ReturnLocked, Go

\* A transaction's outcome.
Outcomes == [schema : SUBSET Changes, tracked : SUBSET Rows, twice : SUBSET Changes, ok : BOOLEAN]

LEMMA MigrateType ==
  ASSUME NEW db \in Outcomes, NEW e \in Entries
  PROVE  Migrate(db, e) \in Outcomes
  <1>1. RowOf(e) \in Rows
    BY DEF RowOf, Rows, Entries
  <1> QED BY <1>1 DEF Migrate, Outcomes, Entries

\* Replayed goes through the entries one by one.
ReplayedTo(n, f, db, entries) ==
  f = [i \in 0..n |->
        IF i = 0 THEN db
        ELSE IF ~f[i - 1].ok \/ FilesAt(entries[i]) = {}
        THEN [f[i - 1] EXCEPT !.ok = FALSE]
        ELSE Migrate(f[i - 1], CHOOSE file \in FilesAt(entries[i]) : TRUE)]

LEMMA ReplayedExists ==
  ASSUME NEW db, NEW entries, NEW N \in Nat
  PROVE  \E f : ReplayedTo(N, f, db, entries)
  <1> DEFINE G == {n \in 0..N : \E f : ReplayedTo(n, f, db, entries)}
             After(x, e) == IF ~x.ok \/ FilesAt(e) = {} THEN [x EXCEPT !.ok = FALSE]
                            ELSE Migrate(x, CHOOSE file \in FilesAt(e) : TRUE)
  <1>1. 0 \in G
    <2> DEFINE f == [i \in 0..0 |-> db]
    <2>1. ReplayedTo(0, f, db, entries)
      BY DEF ReplayedTo
    <2> HIDE DEF f
    <2>2. \E g : ReplayedTo(0, g, db, entries)
      BY <2>1
    <2> QED BY <2>2
  <1>0. \A n, f : ReplayedTo(n, f, db, entries) <=>
          f = [i \in 0..n |-> IF i = 0 THEN db ELSE After(f[i - 1], entries[i])]
    BY DEF ReplayedTo
  <1> HIDE DEF After
  <1>2. ASSUME NEW n \in 0..N, n \in G, n # N PROVE n + 1 \in G
    <2>1. PICK f : ReplayedTo(n, f, db, entries)
      BY <1>2
    <2>2. \A i \in 0..n : f[i] = IF i = 0 THEN db ELSE After(f[i - 1], entries[i])
      <3>1. f = [i \in 0..n |-> IF i = 0 THEN db ELSE After(f[i - 1], entries[i])]
        BY <1>0, <2>1
      <3> QED BY <3>1
    <2> DEFINE g == [i \in 0..(n + 1) |-> IF i # n + 1 THEN f[i] ELSE After(f[n], entries[i])]
    <2>3. /\ g = [i \in 0..(n + 1) |-> g[i]]
          /\ \A i \in 0..n : g[i] = f[i]
          /\ g[n + 1] = After(f[n], entries[n + 1])
      OBVIOUS
    <2> HIDE DEF g
    <2>4. ASSUME NEW i \in 0..(n+1)
          PROVE  g[i] = IF i = 0 THEN db ELSE After(g[i - 1], entries[i])
      <3>1. CASE i = n + 1
        <4>1. n + 1 # 0 /\ (n + 1) - 1 = n /\ n \in 0..n
          OBVIOUS
        <4> QED BY <2>3, <3>1, <4>1
      <3>2. CASE i # n + 1
        <4>1. i \in 0..n /\ (i # 0 => i - 1 \in 0..n)
          BY <3>2
        <4> QED BY <2>2, <2>3, <4>1
      <3> QED BY <3>1, <3>2
    <2>5. ReplayedTo(n + 1, g, db, entries)
      <3>1. g = [i \in 0..(n + 1) |-> IF i = 0 THEN db ELSE After(g[i - 1], entries[i])]
        BY <2>3, <2>4
      <3> QED BY <1>0, <3>1
    <2>6. \E h : ReplayedTo(n + 1, h, db, entries)
      BY <2>5
    <2> QED BY <2>6, <1>2
  <1>3. N \in G
    <2> HIDE DEF G
    <2>1. 0..N \subseteq G
      BY <1>1, <1>2, Induction
    <2> QED BY <2>1
  <1> QED BY <1>3

\* The outcome so far, entry by entry.
Replays(f, db, entries) ==
  /\ f[0] = db /\ Replayed(db, entries) = f[Len(entries)]
  /\ \A i \in 1..Len(entries) :
       f[i] = IF ~f[i - 1].ok \/ FilesAt(entries[i]) = {}
              THEN [f[i - 1] EXCEPT !.ok = FALSE]
              ELSE Migrate(f[i - 1], CHOOSE file \in FilesAt(entries[i]) : TRUE)

LEMMA ReplayedFacts ==
  ASSUME NEW db, NEW D, NEW entries \in Seq(D)
  PROVE  \E f : Replays(f, db, entries)
  <1>1. Len(entries) \in Nat
    OBVIOUS
  <1> DEFINE f == CHOOSE f : f =
                    [i \in 0..Len(entries) |->
                       IF i = 0 THEN db
                       ELSE IF ~f[i - 1].ok \/ FilesAt(entries[i]) = {}
                       THEN [f[i - 1] EXCEPT !.ok = FALSE]
                       ELSE Migrate(f[i - 1], CHOOSE file \in FilesAt(entries[i]) : TRUE)]
  <1>2. ReplayedTo(Len(entries), f, db, entries)
    <2>1. \E g : ReplayedTo(Len(entries), g, db, entries)
      BY <1>1, ReplayedExists
    <2> QED BY <2>1 DEF ReplayedTo
  <1>3. Replayed(db, entries) = f[Len(entries)]
    BY DEF Replayed
  <1> HIDE DEF f
  <1>4. \A i \in 0..Len(entries) :
          f[i] = IF i = 0 THEN db
                 ELSE IF ~f[i - 1].ok \/ FilesAt(entries[i]) = {}
                 THEN [f[i - 1] EXCEPT !.ok = FALSE]
                 ELSE Migrate(f[i - 1], CHOOSE file \in FilesAt(entries[i]) : TRUE)
    BY <1>2 DEF ReplayedTo
  <1>5. 0 \in 0..Len(entries) /\ \A i \in 1..Len(entries) : i \in 0..Len(entries) /\ i # 0
    BY <1>1
  <1>6. f[0] = db
    BY <1>4, <1>5
  <1>7. \A i \in 1..Len(entries) :
          f[i] = IF ~f[i - 1].ok \/ FilesAt(entries[i]) = {}
                 THEN [f[i - 1] EXCEPT !.ok = FALSE]
                 ELSE Migrate(f[i - 1], CHOOSE file \in FilesAt(entries[i]) : TRUE)
    BY <1>4, <1>5
  <1>8. Replays(f, db, entries)
    BY <1>3, <1>6, <1>7 DEF Replays
  <1> QED BY <1>8

LEMMA ReplayedType ==
  ASSUME NEW db \in Outcomes, NEW entries \in Seq(Entries), files \in SUBSET Entries
  PROVE  Replayed(db, entries) \in Outcomes
  <1>1. PICK f : Replays(f, db, entries)
    BY ReplayedFacts
  <1>r. /\ f[0] = db /\ Replayed(db, entries) = f[Len(entries)]
        /\ \A i \in 1..Len(entries) :
             f[i] = IF ~f[i - 1].ok \/ FilesAt(entries[i]) = {}
                    THEN [f[i - 1] EXCEPT !.ok = FALSE]
                    ELSE Migrate(f[i - 1], CHOOSE file \in FilesAt(entries[i]) : TRUE)
    BY <1>1 DEF Replays
  <1> DEFINE G == {n \in 0..Len(entries) : f[n] \in Outcomes}
  <1>2. Len(entries) \in Nat
    OBVIOUS
  <1>3. 0 \in G
    BY <1>r, <1>2
  <1>4. ASSUME NEW n \in 0..Len(entries), n \in G, n # Len(entries) PROVE n + 1 \in G
    <2>1. n + 1 \in 1..Len(entries) /\ n + 1 \in 0..Len(entries) /\ (n + 1) - 1 = n
      BY <1>2, <1>4
    <2>2. f[n] \in Outcomes
      BY <1>4
    <2> DEFINE e == entries[n + 1]
               file == CHOOSE file \in FilesAt(e) : TRUE
    <2>3. FilesAt(e) # {} => file \in Entries
      BY DEF FilesAt
    <2>4. FilesAt(e) # {} => Migrate(f[n], file) \in Outcomes
      BY <2>2, <2>3, MigrateType
    <2>5. [f[n] EXCEPT !.ok = FALSE] \in Outcomes
      BY <2>2 DEF Outcomes
    <2>6. f[n + 1] = IF ~f[n].ok \/ FilesAt(e) = {} THEN [f[n] EXCEPT !.ok = FALSE]
                     ELSE Migrate(f[n], file)
      BY <1>r, <2>1
    <2> HIDE DEF e, file
    <2> QED BY <2>1, <2>4, <2>5, <2>6
  <1>5. 0..Len(entries) \subseteq G
    <2> HIDE DEF G
    <2> QED BY <1>2, <1>3, <1>4, Induction
  <1> QED BY <1>r, <1>2, <1>5

\* Where each command stands when it takes a step.
LEMMA StepRuns ==
  ASSUME TypeOK, NEW p \in Procs, Step(p)
  PROVE  /\ proc[p] \in ProcStates /\ Command(p) \in Commands
         /\ proc[p].at \in DOMAIN work.scripts[p]
  <1>1. \E pc, commands : Runs(p, pc, commands)
    <2>1. (ReadJournal(p) \/ Lock(p) \/ Unlock(p)) => \E pc, commands : Runs(p, pc, commands)
      BY Zenon DEF ReadJournal, Lock, Unlock
    <2>2. (ReadTracked(p) \/ ReadFile(p) \/ RunUp(p)) => \E pc, commands : Runs(p, pc, commands)
      BY Zenon DEF ReadTracked, ReadFile, RunUp
    <2>3. (PlanDown(p) \/ RunDown(p)) => \E pc, commands : Runs(p, pc, commands)
      BY Zenon DEF PlanDown, RunDown
    <2>4. (ListTables(p) \/ ClearTracking(p) \/ Rerun(p)) => \E pc, commands : Runs(p, pc, commands)
      BY Zenon DEF ListTables, ClearTracking, Rerun
    <2>5. (ReadApplied(p) \/ Retrack(p) \/ Archive(p)) => \E pc, commands : Runs(p, pc, commands)
      BY Zenon DEF ReadApplied, Retrack, Archive
    <2>6. (Diff(p) \/ WriteFile(p) \/ WriteDown(p) \/ WriteJournal(p) \/ WriteSnapshot(p))
            => \E pc, commands : Runs(p, pc, commands)
      BY Zenon DEF Diff, WriteFile, WriteDown, WriteJournal, WriteSnapshot
    <2> QED BY <2>1, <2>2, <2>3, <2>4, <2>5, <2>6 DEF Step
  <1> QED BY <1>1, RunsFacts

\* What there is to do in the states that take the first of `todo`.
HasWork ==
  \A p \in Procs :
    /\ proc[p].pc \in {"up", "down"} => proc[p].todo # <<>>
    /\ proc[p].pc \in {"file", "journal"} /\ Command(p).do = "generate" => proc[p].todo # <<>>

\* What each step makes of its process.
Becoming(p, v) == v \in ProcStates /\ proc' = [proc EXCEPT ![p] = v]

Pending(p) == Among(proc[p].journal, Range(proc[p].journal) \ Applied(proc[p].journal, tracked))
InRange(p) == Among(journal, {e \in Range(journal) :
                                e.idx \in Command(p).from .. Command(p).to})
ToUndo(p)  == LastApplied(proc[p].journal, tracked, Command(p).steps)
NewEntry(p) == [idx |-> IF journal = <<>> THEN 0 ELSE journal[Len(journal)].idx + 1,
                name |-> Command(p).name, body |-> Command(p).want \ snapshot]

\* Only the program counter moves on.
Onward(p) ==
  \E pc, ok :
    /\ Becoming(p, [proc[p] EXCEPT !.pc = pc, !.ok = ok])
    /\ pc \in {"locked", "unlock", "clear", "rerun", "retrack", "file", "down", "journal",
               "snapshot", "archive", "failed"}
    /\ pc = "locked" => Lock(p)
    /\ pc = "down" => WriteFile(p) /\ Command(p).do = "generate"
    /\ pc \in {"file", "journal"} => WriteDown(p) \/ Command(p).do = "squash"

Reads(p) ==
  \/ ReadJournal(p) /\ \/ /\ Command(p).do = "squash"
                          /\ Becoming(p, [proc[p] EXCEPT !.pc = "lock", !.journal = journal,
                                                         !.todo = InRange(p)])
                       \/ /\ Command(p).do = "reset"
                          /\ Becoming(p, [proc[p] EXCEPT !.pc = "lock", !.journal = journal])
                       \/ Becoming(p, [proc[p] EXCEPT !.pc = "tracked", !.journal = journal])
  \/ ReadTracked(p) /\ Becoming(p, [proc[p] EXCEPT !.pc = "next", !.todo = Pending(p)])
  \/ ReadFile(p) /\ proc[p].todo # <<>> /\ \E f \in FilesAt(Head(proc[p].todo)) :
       Becoming(p, [proc[p] EXCEPT !.pc = "up", !.content = f.body])
  \/ RunUp(p) /\ Becoming(p, [proc[p] EXCEPT !.pc = "next", !.todo = Tail(@)])
  \/ PlanDown(p) /\ Becoming(p, [proc[p] EXCEPT !.pc = "lock", !.todo = ToUndo(p)])
  \/ ListTables(p) /\ Becoming(p, [proc[p] EXCEPT !.pc = "clear", !.listed = schema])
  \/ ClearTracking(p) /\ Becoming(p, [proc[p] EXCEPT !.pc = "rerun", !.seen = tracked])
  \/ ReadApplied(p) /\ Becoming(p, [proc[p] EXCEPT !.pc = "retrack", !.seen = tracked])
  \/ Archive(p) /\ Becoming(p, [proc[p] EXCEPT !.todo = Tail(@)])
  \/ Diff(p) /\ Becoming(p, [proc[p] EXCEPT !.pc = "file", !.journal = journal,
                                            !.todo = <<NewEntry(p)>>])
             /\ NewEntry(p).body # {}

LEMMA LastAppliedFacts ==
  ASSUME NEW D, NEW entries \in Seq(D), NEW rows, NEW steps \in Nat
  PROVE  /\ LastApplied(entries, rows, steps) \in Seq(D)
         /\ Range(LastApplied(entries, rows, steps)) \subseteq Applied(entries, rows)
  <1> DEFINE applied == Among(entries, Applied(entries, rows))
             first == IF Len(applied) > steps THEN Len(applied) - steps + 1 ELSE 1
  <1>1. /\ applied \in Seq(D) /\ Range(applied) \subseteq Applied(entries, rows)
    BY AmongFacts
  <1>2. LastApplied(entries, rows, steps) = SubSeq(applied, first, Len(applied))
    BY DEF LastApplied
  <1> HIDE DEF applied
  <1>3. Len(applied) \in Nat /\ DOMAIN applied = 1..Len(applied)
    BY <1>1
  <1>4. first \in 1..(Len(applied) + 1)
    BY <1>3
  <1> HIDE DEF first
  <1>5. \A i \in first..Len(applied) : applied[i] \in D
    BY <1>1, <1>3, <1>4
  <1>6. /\ SubSeq(applied, first, Len(applied)) \in Seq(D)
        /\ Range(SubSeq(applied, first, Len(applied))) \subseteq Range(applied)
    BY <1>3, <1>4, <1>5 DEF Range
  <1> QED BY <1>1, <1>2, <1>6

LEMMA StepMoves ==
  ASSUME TypeOK, HasWork, NEW p \in Procs, Step(p)
  PROVE  Becoming(p, Fresh(proc[p].at + 1)) \/ Onward(p) \/ Reads(p)
  <1>1. /\ proc[p] \in ProcStates /\ Command(p) \in Commands
        /\ journal \in Seq(Entries) /\ tracked \in SUBSET Rows /\ files \in SUBSET Entries
        /\ proc[p].journal \in Seq(Entries) /\ proc[p].todo \in Seq(Entries)
        /\ schema \in SUBSET Changes /\ snapshot \in SUBSET Changes
        /\ proc[p].ok \in BOOLEAN /\ proc \in [Procs -> ProcStates]
    BY StepRuns DEF TypeOK, ProcStates
  <1>2. ASSUME NEW pc \in {"locked", "unlock", "clear", "rerun", "retrack", "file", "down",
                           "journal", "snapshot", "archive", "failed"},
               NEW ok \in BOOLEAN,
               proc' = [proc EXCEPT ![p] = [proc[p] EXCEPT !.pc = pc, !.ok = ok]],
               pc = "locked" => Lock(p), pc = "down" => WriteFile(p) /\ Command(p).do = "generate",
               pc \in {"file", "journal"} => WriteDown(p) \/ Command(p).do = "squash"
        PROVE  Onward(p)
    <2>1. [proc[p] EXCEPT !.pc = pc, !.ok = ok] \in ProcStates
      BY <1>1 DEF ProcStates
    <2> QED BY <1>2, <2>1 DEF Onward, Becoming
  <1>3. Return(p) => Becoming(p, Fresh(proc[p].at + 1))
    BY EndingTypes DEF Becoming
  <1>4. Fail(p) => Onward(p)
    BY <1>2, EndingTypes
  <1>5. FailLocked(p) => Onward(p)
    BY <1>2, EndingTypes
  <1>6. ASSUME NEW pc \in {"locked", "unlock", "clear", "rerun", "retrack", "file", "down",
                           "journal", "snapshot", "archive"}, Go(p, pc),
               pc = "locked" => Lock(p), pc = "down" => WriteFile(p) /\ Command(p).do = "generate",
               pc \in {"file", "journal"} => WriteDown(p) \/ Command(p).do = "squash"
        PROVE  Onward(p)
    <2>1. [proc[p] EXCEPT !.pc = pc] = [proc[p] EXCEPT !.pc = pc, !.ok = proc[p].ok]
      BY <1>1 DEF ProcStates
    <2>2. proc' = [proc EXCEPT ![p] = [proc[p] EXCEPT !.pc = pc]]
      BY <1>6 DEF Go
    <2>3. proc' = [proc EXCEPT ![p] = [proc[p] EXCEPT !.pc = pc, !.ok = proc[p].ok]]
      BY <2>1, <2>2
    <2>4. proc[p].ok \in BOOLEAN
      BY <1>1
    <2> QED BY <1>2, <1>6, <2>3, <2>4
  <1>7. CASE ReadJournal(p)
    <2>1. InRange(p) \in Seq(Entries)
      BY <1>1, AmongFacts DEF InRange
    <2>2. /\ [proc[p] EXCEPT !.pc = "lock", !.journal = journal, !.todo = InRange(p)] \in ProcStates
          /\ [proc[p] EXCEPT !.pc = "lock", !.journal = journal] \in ProcStates
          /\ [proc[p] EXCEPT !.pc = "tracked", !.journal = journal] \in ProcStates
      BY <1>1, <2>1 DEF ProcStates
    <2>3. \/ Fail(p)
          \/ /\ Command(p).do = "squash"
             /\ proc' = [proc EXCEPT ![p].pc = "lock", ![p].journal = journal,
                                     ![p].todo = InRange(p)]
          \/ proc' = [proc EXCEPT ![p].journal = journal,
                        ![p].pc = IF Command(p).do = "reset" THEN "lock" ELSE "tracked"]
      BY <1>7 DEF ReadJournal, InRange
    <2>4. \/ Fail(p)
          \/ /\ Command(p).do = "squash"
             /\ proc' = [proc EXCEPT ![p] = [proc[p] EXCEPT !.pc = "lock", !.journal = journal,
                                                            !.todo = InRange(p)]]
          \/ /\ Command(p).do = "reset"
             /\ proc' = [proc EXCEPT ![p] = [proc[p] EXCEPT !.pc = "lock", !.journal = journal]]
          \/ proc' = [proc EXCEPT ![p] = [proc[p] EXCEPT !.pc = "tracked", !.journal = journal]]
      BY <1>1, <2>3 DEF ProcStates
    <2> QED BY <1>4, <1>7, <2>2, <2>4 DEF Reads, Becoming
  <1>8. CASE Lock(p)
    BY <1>6, <1>8 DEF Lock
  <1>9. CASE Unlock(p)
    BY <1>3, <1>4, <1>9 DEF Unlock
  <1>10. CASE ReadTracked(p)
    <2>1. Pending(p) \in Seq(Entries)
      BY <1>1, AmongFacts DEF Pending
    <2>2. [proc[p] EXCEPT !.pc = "next", !.todo = Pending(p)] \in ProcStates
      BY <1>1, <2>1 DEF ProcStates
    <2>3. Fail(p) \/ proc' = [proc EXCEPT ![p].pc = "next", ![p].todo = Pending(p)]
      BY <1>10 DEF ReadTracked, Pending
    <2>4. Fail(p) \/ proc' = [proc EXCEPT ![p] = [proc[p] EXCEPT !.pc = "next",
                                                                !.todo = Pending(p)]]
      BY <1>1, <2>3 DEF ProcStates
    <2> QED BY <1>4, <1>10, <2>2, <2>4 DEF Reads, Becoming
  <1>11. CASE ReadFile(p)
    <2>1. ASSUME NEW f \in FilesAt(Head(proc[p].todo)), proc[p].todo # <<>>,
                 proc' = [proc EXCEPT ![p].pc = "up", ![p].content = f.body]
          PROVE  Reads(p)
      <3>1. f.body \in SUBSET Changes
        BY <1>1 DEF FilesAt, Entries
      <3>2. [proc[p] EXCEPT !.pc = "up", !.content = f.body] \in ProcStates
        BY <1>1, <3>1 DEF ProcStates
      <3>3. proc' = [proc EXCEPT ![p] = [proc[p] EXCEPT !.pc = "up", !.content = f.body]]
        BY <1>1, <2>1 DEF ProcStates
      <3> QED BY <1>11, <2>1, <3>2, <3>3 DEF Reads, Becoming
    <2> QED BY <1>3, <1>4, <1>11, <2>1 DEF ReadFile
  <1>12. CASE RunUp(p)
    <2>1. proc[p].todo # <<>>
      BY <1>12 DEF RunUp, Runs, HasWork
    <2>2. Tail(proc[p].todo) \in Seq(Entries)
      BY <1>1, <2>1
    <2>3. [proc[p] EXCEPT !.pc = "next", !.todo = Tail(@)] \in ProcStates
      BY <1>1, <2>2 DEF ProcStates
    <2>4. Fail(p) \/ proc' = [proc EXCEPT ![p].pc = "next", ![p].todo = Tail(@)]
      BY <1>12 DEF RunUp
    <2>5. Fail(p) \/ proc' = [proc EXCEPT ![p] = [proc[p] EXCEPT !.pc = "next", !.todo = Tail(@)]]
      BY <1>1, <2>4 DEF ProcStates
    <2> QED BY <1>4, <1>12, <2>3, <2>5 DEF Reads, Becoming
  <1>13. CASE PlanDown(p)
    <2>1. ToUndo(p) \in Seq(Entries)
      BY <1>1, LastAppliedFacts DEF ToUndo, Commands
    <2>2. [proc[p] EXCEPT !.pc = "lock", !.todo = ToUndo(p)] \in ProcStates
      BY <1>1, <2>1 DEF ProcStates
    <2>3. Return(p) \/ Fail(p) \/ proc' = [proc EXCEPT ![p].pc = "lock", ![p].todo = ToUndo(p)]
      BY <1>13 DEF PlanDown, ToUndo
    <2>4. Return(p) \/ Fail(p)
            \/ proc' = [proc EXCEPT ![p] = [proc[p] EXCEPT !.pc = "lock", !.todo = ToUndo(p)]]
      BY <1>1, <2>3 DEF ProcStates
    <2> QED BY <1>3, <1>4, <1>13, <2>2, <2>4 DEF Reads, Becoming
  <1>14. CASE RunDown(p) \/ Rerun(p)
    BY <1>5, <1>6, <1>14 DEF RunDown, Rerun, ReturnLocked
  <1>15. CASE ListTables(p) \/ ClearTracking(p) \/ ReadApplied(p)
    <2>1. /\ [proc[p] EXCEPT !.pc = "clear", !.listed = schema] \in ProcStates
          /\ [proc[p] EXCEPT !.pc = "rerun", !.seen = tracked] \in ProcStates
          /\ [proc[p] EXCEPT !.pc = "retrack", !.seen = tracked] \in ProcStates
      BY <1>1 DEF ProcStates
    <2>2. \/ ListTables(p) /\ proc' = [proc EXCEPT ![p].pc = "clear", ![p].listed = schema]
          \/ ClearTracking(p) /\ proc' = [proc EXCEPT ![p].pc = "rerun", ![p].seen = tracked]
          \/ ReadApplied(p) /\ proc' = [proc EXCEPT ![p].pc = "retrack", ![p].seen = tracked]
      BY <1>15 DEF ListTables, ClearTracking, ReadApplied
    <2>3. \/ /\ ListTables(p)
             /\ proc' = [proc EXCEPT ![p] = [proc[p] EXCEPT !.pc = "clear", !.listed = schema]]
          \/ /\ ClearTracking(p)
             /\ proc' = [proc EXCEPT ![p] = [proc[p] EXCEPT !.pc = "rerun", !.seen = tracked]]
          \/ /\ ReadApplied(p)
             /\ proc' = [proc EXCEPT ![p] = [proc[p] EXCEPT !.pc = "retrack", !.seen = tracked]]
      BY <1>1, <2>2 DEF ProcStates
    <2> QED BY <2>1, <2>3 DEF Reads, Becoming
  <1>16. CASE Retrack(p)
    <2>1. Command(p).do = "squash"
      BY <1>16 DEF Retrack, Runs
    <2> QED BY <1>5, <1>6, <1>16, <2>1 DEF Retrack
  <1>17. CASE Archive(p)
    <2>1. CASE ReturnLocked(p)
      BY <1>6, <2>1 DEF ReturnLocked
    <2>2. CASE proc[p].todo # <<>> /\ proc' = [proc EXCEPT ![p].todo = Tail(@)]
      <3>1. Tail(proc[p].todo) \in Seq(Entries)
        BY <1>1, <2>2
      <3>2. [proc[p] EXCEPT !.todo = Tail(@)] \in ProcStates
        BY <1>1, <3>1 DEF ProcStates
      <3>3. proc' = [proc EXCEPT ![p] = [proc[p] EXCEPT !.todo = Tail(@)]]
        BY <1>1, <2>2 DEF ProcStates
      <3> QED BY <1>17, <3>2, <3>3 DEF Reads, Becoming
    <2> QED BY <1>17, <2>1, <2>2 DEF Archive
  <1>18. CASE Diff(p)
    <2>1. NewEntry(p) \in Entries
      <3>1. journal # <<>> => journal[Len(journal)] \in Entries
        BY <1>1
      <3>2. journal # <<>> => journal[Len(journal)].idx + 1 \in Nat
        BY <3>1 DEF Entries
      <3> QED BY <1>1, <3>2 DEF NewEntry, Entries, Commands
    <2>2. <<NewEntry(p)>> \in Seq(Entries)
      BY <2>1
    <2>5. [proc[p] EXCEPT !.pc = "file", !.journal = journal, !.todo = <<NewEntry(p)>>]
            \in ProcStates
      BY <1>1, <2>2 DEF ProcStates
    <2>3. \/ Return(p)
          \/ /\ proc' = [proc EXCEPT ![p].pc = "file", ![p].journal = journal,
                                     ![p].todo = <<NewEntry(p)>>]
             /\ NewEntry(p).body # {}
      BY <1>18 DEF Diff, NewEntry
    <2>4. \/ Return(p)
          \/ /\ proc' = [proc EXCEPT ![p] = [proc[p] EXCEPT !.pc = "file", !.journal = journal,
                                                            !.todo = <<NewEntry(p)>>]]
             /\ NewEntry(p).body # {}
      BY <1>1, <2>3 DEF ProcStates
    <2> QED BY <1>3, <1>18, <2>4, <2>5 DEF Reads, Becoming
  <1>19. CASE WriteFile(p)
    <2>1. Go(p, IF Command(p).do = "generate" THEN "down" ELSE "journal")
      BY <1>19 DEF WriteFile
    <2>2. CASE Command(p).do = "generate"
      BY <1>6, <1>19, <2>1, <2>2
    <2>3. CASE Command(p).do # "generate"
      <3>1. Command(p).do = "squash"
        BY <1>19, <2>3 DEF WriteFile, Runs
      <3> QED BY <1>6, <2>1, <2>3, <3>1
    <2> QED BY <2>2, <2>3
  <1>20. CASE WriteDown(p)
    BY <1>6, <1>20 DEF WriteDown
  <1>21. CASE WriteJournal(p) \/ WriteSnapshot(p)
    BY <1>3, <1>6, <1>21 DEF WriteJournal, WriteSnapshot
  <1> QED BY <1>7, <1>8, <1>9, <1>10, <1>11, <1>12, <1>13, <1>14, <1>15, <1>16, <1>17, <1>18,
             <1>19, <1>20, <1>21 DEF Step

\* The process of a step gets a state of its type.
LEMMA MovesType ==
  ASSUME TypeOK, HasWork, NEW p \in Procs, Step(p)
  PROVE  /\ proc' \in [Procs -> ProcStates]
         /\ \A q \in Procs \ {p} : proc'[q] = proc[q]
  <1>1. \E v : Becoming(p, v)
    BY StepMoves, Zenon DEF Onward, Reads
  <1> QED BY <1>1, Becomes DEF Becoming

LEMMA StepHasWork ==
  ASSUME TypeOK, HasWork, NEW p \in Procs, Step(p)
  PROVE  HasWork'
  <1>1. proc[p] \in ProcStates /\ proc \in [Procs -> ProcStates] /\ work' = work
    BY DEF TypeOK, Step
  <1>2. ASSUME NEW q \in Procs, q # p
        PROVE  /\ (proc[q].pc \in {"up", "down"} => proc[q].todo # <<>>)'
               /\ (proc[q].pc \in {"file", "journal"} /\ Command(q).do = "generate"
                     => proc[q].todo # <<>>)'
    <2>1. proc'[q] = proc[q]
      BY <1>2, MovesType
    <2> QED BY <1>1, <2>1 DEF HasWork, Command
  <1>3. /\ (proc[p].pc \in {"up", "down"} => proc[p].todo # <<>>)'
        /\ (proc[p].pc \in {"file", "journal"} /\ Command(p).do = "generate"
              => proc[p].todo # <<>>)'
    <2>1. ASSUME NEW v, Becoming(p, v) PROVE proc'[p] = v
      BY <1>1, <2>1 DEF Becoming
    <2>2. CASE Becoming(p, Fresh(proc[p].at + 1))
      <3>1. proc'[p].pc = "start"
        BY <2>1, <2>2 DEF Fresh
      <3> QED BY <3>1
    <2>3. CASE Onward(p)
      <3>1. PICK pc, ok :
              /\ Becoming(p, [proc[p] EXCEPT !.pc = pc, !.ok = ok])
              /\ pc # "up"
              /\ pc = "down" => WriteFile(p) /\ Command(p).do = "generate"
              /\ pc \in {"file", "journal"} => WriteDown(p) \/ Command(p).do = "squash"
        BY <2>3 DEF Onward
      <3>2. proc'[p].pc = pc /\ proc'[p].todo = proc[p].todo /\ Command(p)' = Command(p)
        BY <1>1, <2>1, <3>1 DEF ProcStates, Command
      <3>3. (pc = "down" \/ (pc \in {"file", "journal"} /\ Command(p).do = "generate"))
              => proc[p].todo # <<>>
        BY <3>1 DEF WriteFile, WriteDown, Runs, HasWork
      <3> QED BY <3>1, <3>2, <3>3
    <2>4. CASE Reads(p)
      <3>1. \/ proc'[p].pc \in {"lock", "tracked", "next", "clear", "rerun", "retrack"}
            \/ proc'[p].pc = "up" /\ proc'[p].todo = proc[p].todo /\ proc[p].todo # <<>>
            \/ proc'[p].pc = proc[p].pc /\ Archive(p)
            \/ proc'[p].pc = "file" /\ proc'[p].todo = <<NewEntry(p)>>
        BY <1>1, <2>1, <2>4 DEF Reads, ProcStates
      <3>2. Archive(p) => proc[p].pc = "archive"
        BY DEF Archive, Runs
      <3> QED BY <3>1, <3>2
    <2> QED BY <2>2, <2>3, <2>4, StepMoves
  <1> QED BY <1>2, <1>3 DEF HasWork

LEMMA CrashMoves ==
  ASSUME TypeOK, HasWork, NEW p \in Procs, Crash(p)
  PROVE  /\ proc' \in [Procs -> ProcStates] /\ proc'[p] = Fresh(proc[p].at)
         /\ \A q \in Procs \ {p} : proc'[q] = proc[q]
         /\ TypeOK' /\ HasWork'
  <1>1. proc' = [proc EXCEPT ![p] = Fresh(proc[p].at)]
    BY DEF Crash, TypeOK
  <1>2. /\ proc' \in [Procs -> ProcStates] /\ proc'[p] = Fresh(proc[p].at)
        /\ \A q \in Procs \ {p} : proc'[q] = proc[q]
    BY <1>1, Becomes, EndingTypes
  <1>3. TypeOK'
    <2>1. /\ UNCHANGED <<work, journal, files, downs, snapshot, tracked, schema, twice>>
          /\ crashes' \in Nat /\ holder' \in Procs \cup {Nobody}
      BY DEF Crash, directory, database, TypeOK
    <2> QED BY <1>2, <2>1 DEF TypeOK
  <1>4. HasWork'
    <2>1. \A q \in Procs : proc'[q].pc = "start" \/ proc'[q] = proc[q]
      BY <1>2 DEF Fresh
    <2>2. work' = work
      BY DEF Crash
    <2> QED BY <2>1, <2>2 DEF HasWork, Command
  <1> QED BY <1>2, <1>3, <1>4

\* What an action writes: the directory, the database, or neither.
LEMMA WritesType ==
  ASSUME TypeOK, HasWork, NEW p \in Procs, Step(p)
  PROVE  /\ journal' \in Seq(Entries) /\ files' \in SUBSET Entries /\ downs' \in SUBSET Paths
         /\ snapshot' \in SUBSET Changes /\ schema' \in SUBSET Changes
         /\ twice' \in SUBSET Changes /\ tracked' \in SUBSET Rows
         /\ holder' \in Procs \cup {Nobody}
  <1>1. /\ proc[p] \in ProcStates /\ Command(p) \in Commands
        /\ journal \in Seq(Entries) /\ tracked \in SUBSET Rows /\ files \in SUBSET Entries
        /\ proc[p].journal \in Seq(Entries) /\ proc[p].todo \in Seq(Entries)
        /\ proc[p].content \in SUBSET Changes
        /\ schema \in SUBSET Changes /\ snapshot \in SUBSET Changes /\ twice \in SUBSET Changes
        /\ downs \in SUBSET Paths /\ holder \in Procs \cup {Nobody}
    BY StepRuns DEF TypeOK, ProcStates
  <1>2. CASE \/ ReadJournal(p) \/ Unlock(p) \/ Lock(p) \/ ReadTracked(p) \/ ReadFile(p)
             \/ PlanDown(p) \/ ListTables(p) \/ ClearTracking(p) \/ ReadApplied(p) \/ Diff(p)
    BY <1>1, <1>2 DEF ReadJournal, Unlock, Lock, ReadTracked, ReadFile, PlanDown, ListTables,
                      ClearTracking, ReadApplied, Diff, directory, database
  <1>3. Now \in Outcomes
    BY <1>1 DEF Now, Outcomes
  <1>4. ASSUME NEW db \in Outcomes, Commit(db)
        PROVE  schema' \in SUBSET Changes /\ twice' \in SUBSET Changes /\ tracked' \in SUBSET Rows
    BY <1>4 DEF Commit, Outcomes
  <1>5. CASE RunUp(p)
    <2>1. proc[p].todo # <<>>
      BY <1>5 DEF RunUp, Runs, HasWork
    <2>2. Head(proc[p].todo) \in Entries
      BY <1>1, <2>1
    <2>3. [Head(proc[p].todo) EXCEPT !.body = proc[p].content] \in Entries
      BY <1>1, <2>2 DEF Entries
    <2>4. Migrate(Now, [Head(proc[p].todo) EXCEPT !.body = proc[p].content]) \in Outcomes
      BY <1>3, <2>3, MigrateType
    <2>5. /\ \/ Commit(Migrate(Now, [Head(proc[p].todo) EXCEPT !.body = proc[p].content]))
             \/ UNCHANGED database
          /\ UNCHANGED <<directory, holder>>
      BY <1>5 DEF RunUp
    <2> QED BY <1>1, <1>4, <2>4, <2>5 DEF directory, database
  <1>6. CASE Rerun(p)
    <2> DEFINE cleared == [Now EXCEPT !.schema = @ \ proc[p].listed, !.tracked = @ \ proc[p].seen]
    <2>1. cleared \in Outcomes
      BY <1>1, <1>3 DEF Outcomes, Now
    <2>2. Replayed(cleared, proc[p].journal) \in Outcomes
      <3> HIDE DEF cleared
      <3> QED BY <1>1, <2>1, ReplayedType
    <2>3. /\ Commit(Replayed(cleared, proc[p].journal)) \/ UNCHANGED database
          /\ UNCHANGED <<directory, holder>>
      BY <1>6 DEF Rerun
    <2> QED BY <1>1, <1>4, <2>2, <2>3 DEF directory, database
  <1>7. CASE RunDown(p)
    <2>1. /\ schema' \subseteq schema /\ tracked' \subseteq tracked
          /\ UNCHANGED <<directory, twice, holder>>
      BY <1>7 DEF RunDown
    <2> QED BY <1>1, <2>1 DEF directory
  <1>8. Command(p).do = "squash" => Squashed(p) \in Entries
    <2>1. Range(proc[p].todo) \subseteq Entries
      BY <1>1 DEF Range
    <2> QED BY <1>1, <2>1 DEF Squashed, BodiesOf, Entries, Commands
  <1>9. CASE Retrack(p)
    <2>1. Command(p).do = "squash"
      BY <1>9 DEF Retrack, Runs
    <2>2. RowOf(Squashed(p)) \in Rows
      BY <1>8, <2>1 DEF RowOf, Rows, Entries
    <2>3. tracked' \subseteq tracked \cup {RowOf(Squashed(p))}
      BY <1>9 DEF Retrack
    <2> QED BY <1>1, <1>9, <2>2, <2>3 DEF Retrack, directory
  <1>10. CASE Archive(p)
    BY <1>1, <1>10 DEF Archive, database
  <1>11. ASSUME Runs(p, "file", {"generate", "squash"}) \/ Runs(p, "down", {"generate"})
                  \/ Runs(p, "journal", {"generate", "squash"})
         PROVE  Stored(p) \in Entries
    <2>1. Command(p).do = "generate" => proc[p].todo # <<>>
      BY <1>11 DEF Runs, HasWork
    <2>2. Command(p).do = "generate" => Head(proc[p].todo) \in Entries
      BY <1>1, <2>1
    <2>3. Command(p).do \in {"generate", "squash"}
      BY <1>11 DEF Runs
    <2> QED BY <1>8, <2>2, <2>3 DEF Stored
  <1>12. CASE WriteFile(p)
    <2>1. /\ files' \subseteq files \cup {Stored(p)} /\ Runs(p, "file", {"generate", "squash"})
          /\ UNCHANGED <<journal, downs, snapshot, database, holder>>
      BY <1>12 DEF WriteFile
    <2> QED BY <1>1, <1>11, <2>1 DEF database
  <1>13. CASE WriteDown(p)
    <2>1. /\ downs' = downs \cup {Path(Stored(p))} /\ Runs(p, "down", {"generate"})
          /\ UNCHANGED <<journal, files, snapshot, database, holder>>
      BY <1>13 DEF WriteDown
    <2>2. Path(Stored(p)) \in Paths
      BY <1>11, <2>1 DEF Path, Paths, Entries
    <2> QED BY <1>1, <2>1, <2>2 DEF database
  <1>14. CASE WriteJournal(p)
    <2>1. /\ IF Command(p).do = "squash" THEN journal' = SquashedJournal(p)
             ELSE journal' = Append(proc[p].journal, Stored(p))
          /\ UNCHANGED <<files, downs, snapshot, database, holder>>
          /\ Stored(p) \in Entries
      BY <1>11, <1>14 DEF WriteJournal
    <2>2. Append(proc[p].journal, Stored(p)) \in Seq(Entries)
      BY <1>1, <2>1
    <2>3. Command(p).do = "squash" => SquashedJournal(p) \in Seq(Entries)
      <3> SUFFICES ASSUME Command(p).do = "squash" PROVE SquashedJournal(p) \in Seq(Entries)
        OBVIOUS
      <3> DEFINE entries == Range(proc[p].journal)
                 before == Among(proc[p].journal, {e \in entries : e.idx < Command(p).from})
                 after  == Among(proc[p].journal, {e \in entries : e.idx > Command(p).to})
                 later  == [i \in DOMAIN after |-> [after[i] EXCEPT !.idx = Command(p).from + i]]
      <3>1. before \in Seq(Entries) /\ after \in Seq(Entries)
        BY <1>1, AmongFacts
      <3>2. SquashedJournal(p) = before \o <<Squashed(p)>> \o later
        BY DEF SquashedJournal
      <3> HIDE DEF before, after
      <3>3. later \in Seq(Entries)
        <4>1. Len(after) \in Nat /\ DOMAIN after = 1..Len(after)
          BY <3>1
        <4>2. ASSUME NEW i \in 1..Len(after)
              PROVE  [after[i] EXCEPT !.idx = Command(p).from + i] \in Entries
          <5>1. after[i] \in Entries
            BY <3>1, <4>1
          <5>2. Command(p).from \in Nat /\ i \in Nat
            BY <1>1, <4>1 DEF Commands
          <5>3. Command(p).from + i \in Nat
            BY <5>2
          <5> QED BY <5>1, <5>3 DEF Entries
        <4>3. later \in [1..Len(after) -> Entries]
          BY <4>1, <4>2
        <4> HIDE DEF later
        <4> QED BY <4>1, <4>3
      <3> HIDE DEF later
      <3>4. <<Squashed(p)>> \in Seq(Entries)
        BY <1>8
      <3> QED BY <3>1, <3>2, <3>3, <3>4
    <2> QED BY <1>1, <2>1, <2>2, <2>3 DEF database
  <1>15. CASE WriteSnapshot(p)
    BY <1>1, <1>15 DEF WriteSnapshot, database, Commands
  <1> QED BY <1>2, <1>5, <1>6, <1>7, <1>9, <1>10, <1>12, <1>13, <1>14, <1>15 DEF Step

LEMMA TypeStep == TypeOK /\ HasWork /\ [Next]_vars => (TypeOK /\ HasWork)'
  <1> SUFFICES ASSUME TypeOK, HasWork, [Next]_vars PROVE (TypeOK /\ HasWork)'
    OBVIOUS
  <1>1. CASE UNCHANGED vars
    BY <1>1 DEF vars, directory, database, TypeOK, HasWork, Command
  <1>2. ASSUME NEW p \in Procs, Step(p) PROVE (TypeOK /\ HasWork)'
    <2>1. work' = work /\ crashes' = crashes
      BY <1>2 DEF Step
    <2> QED BY <1>2, <2>1, MovesType, WritesType, StepHasWork DEF TypeOK
  <1> QED BY <1>1, <1>2, CrashMoves DEF Next

LEMMA InitHasWork == Init => HasWork
  BY DEF Init, HasWork, Fresh

\* Every variable keeps to its type.
THEOREM TypeHolds == Spec => [](TypeOK /\ HasWork)
  <1>1. Init => TypeOK /\ HasWork
    BY InitType, InitHasWork
  <1> QED BY <1>1, TypeStep, PTL DEF Spec
-----------------------------------------------------------------------------
(***************************************************************************)
(* What a workload asks for.                                               *)
(***************************************************************************)

CommandsOf(w) == UNION {Range(w.scripts[p]) : p \in Procs}
Does(w, do)   == \E c \in CommandsOf(w) : c.do = do
-----------------------------------------------------------------------------
(***************************************************************************)
(* The files of a journal, where nothing is squashed.  The journal, what   *)
(* the commands have read of it, and the entry that generate is about to   *)
(* add to it have their files.                                             *)
(***************************************************************************)

FilesInv ==
  /\ ~Does(work, "squash")
  /\ EntriesHaveFiles
  /\ \A p \in Procs : \A e \in Range(proc[p].journal) : FilesAt(e) # {}
  /\ \A p \in Procs : proc[p].pc \in {"down", "journal"} /\ Command(p).do = "generate"
                        => FilesAt(Head(proc[p].todo)) # {}

LEMMA CommandGiven ==
  ASSUME TypeOK, NEW p \in Procs, Step(p)
  PROVE  Command(p) \in CommandsOf(work) /\ work' = work
  <1>1. proc[p].at \in DOMAIN work.scripts[p]
    BY StepRuns
  <1>2. Command(p) \in Range(work.scripts[p])
    BY <1>1 DEF Command, Range
  <1> QED BY <1>2 DEF CommandsOf, Step

\* What each step writes.
LEMMA StepWrites ==
  ASSUME TypeOK, HasWork, ~Does(work, "squash"), NEW p \in Procs, Step(p)
  PROVE  /\ Command(p).do # "squash"
         /\ \/ journal' = journal
            \/ /\ WriteJournal(p) /\ Runs(p, "journal", {"generate"})
               /\ Becoming(p, [proc[p] EXCEPT !.pc = "snapshot"])
               /\ journal' = Append(proc[p].journal, Head(proc[p].todo))
         /\ \/ files' = files
            \/ /\ WriteFile(p) /\ Runs(p, "file", {"generate"})
               /\ Becoming(p, [proc[p] EXCEPT !.pc = "down"])
               /\ files' = (files \ FilesAt(Head(proc[p].todo))) \cup {Head(proc[p].todo)}
         /\ \/ downs' = downs
            \/ /\ WriteDown(p) /\ Runs(p, "down", {"generate"})
               /\ Becoming(p, [proc[p] EXCEPT !.pc = "journal"])
               /\ downs' = downs \cup {Path(Head(proc[p].todo))}
         /\ \/ snapshot' = snapshot
            \/ Command(p).do = "generate" /\ snapshot' = Command(p).want
         /\ \/ UNCHANGED database
            \/ RunUp(p) /\ Becoming(p, [proc[p] EXCEPT !.pc = "next", !.todo = Tail(@)])
            \/ RunDown(p) \/ Rerun(p)
  <1>1. Command(p) \in CommandsOf(work)
    BY CommandGiven
  <1>2. Command(p).do # "squash"
    BY <1>1 DEF Does
  <1>3. /\ ~ReadApplied(p) /\ ~Retrack(p) /\ ~Archive(p)
    BY <1>2 DEF ReadApplied, Retrack, Archive, Runs
  <1>4. CASE \/ ReadJournal(p) \/ Unlock(p) \/ Lock(p) \/ ReadTracked(p) \/ ReadFile(p)
             \/ PlanDown(p) \/ ListTables(p) \/ ClearTracking(p) \/ Diff(p)
    BY <1>2, <1>4 DEF ReadJournal, Unlock, Lock, ReadTracked, ReadFile, PlanDown, ListTables,
                      ClearTracking, Diff, directory
  <1>5. CASE RunDown(p) \/ Rerun(p)
    BY <1>2, <1>5 DEF RunDown, Rerun, directory
  <1>6. proc[p] \in ProcStates /\ proc \in [Procs -> ProcStates]
    BY DEF TypeOK
  <1>7. CASE RunUp(p)
    <2>1. UNCHANGED directory
      BY <1>7 DEF RunUp
    <2>2. CASE UNCHANGED database
      BY <1>2, <2>1, <2>2 DEF directory
    <2>3. CASE proc' = [proc EXCEPT ![p].pc = "next", ![p].todo = Tail(@)]
      <3>1. proc' = [proc EXCEPT ![p] = [proc[p] EXCEPT !.pc = "next", !.todo = Tail(@)]]
        BY <1>6, <2>3 DEF ProcStates
      <3>2. proc[p].todo # <<>> /\ proc[p].todo \in Seq(Entries)
        BY <1>6, <1>7 DEF RunUp, Runs, HasWork, ProcStates
      <3>3. Tail(proc[p].todo) \in Seq(Entries)
        BY <3>2
      <3>4. [proc[p] EXCEPT !.pc = "next", !.todo = Tail(@)] \in ProcStates
        BY <1>6, <3>3 DEF ProcStates
      <3> QED BY <1>2, <1>7, <2>1, <3>1, <3>4 DEF directory, Becoming
    <2> QED BY <1>7, <2>2, <2>3 DEF RunUp
  <1>8. ASSUME NEW pc \in {"down", "journal", "snapshot"}, Go(p, pc)
        PROVE  Becoming(p, [proc[p] EXCEPT !.pc = pc])
    <2>1. [proc[p] EXCEPT !.pc = pc] \in ProcStates
      BY <1>6, <1>8 DEF ProcStates
    <2> QED BY <1>8, <2>1 DEF Go, Becoming
  <1>9. ASSUME NEW pc, Runs(p, pc, {"generate", "squash"}) PROVE Runs(p, pc, {"generate"})
    BY <1>2, <1>9 DEF Runs
  <1>10. Stored(p) = Head(proc[p].todo)
    BY <1>2 DEF Stored
  <1>11. CASE WriteFile(p)
    <2>1. Runs(p, "file", {"generate"}) /\ Command(p).do = "generate"
      BY <1>9, <1>11 DEF WriteFile, Runs
    <2>2. Becoming(p, [proc[p] EXCEPT !.pc = "down"])
      BY <1>8, <1>11, <2>1 DEF WriteFile
    <2> QED BY <1>2, <1>10, <1>11, <2>1, <2>2 DEF WriteFile
  <1>12. CASE WriteDown(p)
    <2>1. Becoming(p, [proc[p] EXCEPT !.pc = "journal"])
      BY <1>8, <1>12 DEF WriteDown
    <2> QED BY <1>2, <1>10, <1>12, <2>1 DEF WriteDown
  <1>13. CASE WriteJournal(p)
    <2>1. Runs(p, "journal", {"generate"})
      BY <1>9, <1>13 DEF WriteJournal
    <2>2. Becoming(p, [proc[p] EXCEPT !.pc = "snapshot"])
      BY <1>2, <1>8, <1>13 DEF WriteJournal
    <2> QED BY <1>2, <1>10, <1>13, <2>1, <2>2 DEF WriteJournal
  <1>14. CASE WriteSnapshot(p)
    BY <1>2, <1>14 DEF WriteSnapshot, Runs
  <1> QED BY <1>3, <1>4, <1>5, <1>7, <1>11, <1>12, <1>13, <1>14 DEF Step

\* What a process has in hand after a step.
LEMMA StepHolds ==
  ASSUME TypeOK, HasWork, ~Does(work, "squash"), NEW p \in Procs, Step(p)
  PROVE  \/ Becoming(p, Fresh(proc[p].at + 1))
         \/ proc'[p].at = proc[p].at /\ Onward(p)
         \/ proc'[p].at = proc[p].at /\ Reads(p) /\ ~Archive(p) /\ ~ReadApplied(p)
  <1>1. ~Archive(p) /\ ~ReadApplied(p)
    BY StepWrites DEF Archive, ReadApplied, Runs
  <1>2. Onward(p) => proc'[p].at = proc[p].at
    <2> SUFFICES ASSUME Onward(p) PROVE proc'[p].at = proc[p].at
      OBVIOUS
    <2>1. PICK pc, ok : Becoming(p, [proc[p] EXCEPT !.pc = pc, !.ok = ok])
      BY DEF Onward
    <2> QED BY <2>1 DEF Becoming, TypeOK, ProcStates
  <1>3. Reads(p) => proc'[p].at = proc[p].at
    <2> SUFFICES ASSUME Reads(p) PROVE proc'[p].at = proc[p].at
      OBVIOUS
    <2>1. proc[p] \in ProcStates /\ \A v : Becoming(p, v) => proc'[p] = v
      BY DEF Becoming, TypeOK
    <2>2. \E v : Becoming(p, v) /\ v.at = proc[p].at
      BY <2>1 DEF Reads, ProcStates
    <2> QED BY <2>1, <2>2
  <1> QED BY <1>1, <1>2, <1>3, StepMoves

LEMMA InitFiles == Init /\ ~Does(work, "squash") => FilesInv
  <1> SUFFICES ASSUME Init, ~Does(work, "squash") PROVE FilesInv
    OBVIOUS
  <1>1. EntriesHaveFiles
    BY DEF Init, EntriesHaveFiles, FilesAt
  <1>2. \A p \in Procs : proc[p].journal = <<>> /\ proc[p].pc = "start"
    BY DEF Init, Fresh
  <1>3. Range(<<>>) = {}
    BY DEF Range
  <1> QED BY <1>1, <1>2, <1>3 DEF FilesInv

\* Writing a file leaves no path without one.
LEMMA FilesKept ==
  ASSUME NEW e, files' = (files \ FilesAt(e)) \cup {e} \/ files' = files,
         NEW d, FilesAt(d) # {}
  PROVE  {f \in files' : Path(f) = Path(d)} # {}
  <1>1. PICK f \in files : Path(f) = Path(d)
    BY DEF FilesAt
  <1>2. CASE f \in files'
    BY <1>1, <1>2
  <1>3. CASE f \notin files'
    <2>1. e \in files' /\ Path(f) = Path(e)
      BY <1>1, <1>3 DEF FilesAt
    <2> QED BY <1>1, <2>1
  <1> QED BY <1>2, <1>3

LEMMA FilesStep ==
  ASSUME TypeOK, HasWork, FilesInv, NEW p \in Procs, Step(p)
  PROVE  FilesInv'
  <1>1. ~Does(work, "squash")
    BY DEF FilesInv
  <1> DEFINE filed(d) == \E f \in files' : Path(f) = Path(d)
  <1>2. ASSUME NEW d, FilesAt(d) # {} PROVE filed(d)
    <2>1. {f \in files' : Path(f) = Path(d)} # {}
      BY <1>1, <1>2, StepWrites, FilesKept
    <2> QED BY <2>1
  <1>3. /\ work' = work /\ proc[p] \in ProcStates /\ proc \in [Procs -> ProcStates]
        /\ \A q \in Procs \ {p} : proc'[q] = proc[q]
        /\ journal \in Seq(Entries) /\ proc[p].journal \in Seq(Entries)
    BY MovesType DEF TypeOK, Step, ProcStates
  <1>4. ASSUME NEW e \in Range(journal) PROVE FilesAt(e) # {}
    BY DEF FilesInv, EntriesHaveFiles
  <1>5. ASSUME NEW q \in Procs, NEW e \in Range(proc[q].journal) PROVE FilesAt(e) # {}
    BY DEF FilesInv
  <1>6. ASSUME NEW v, Becoming(p, v) PROVE proc'[p] = v
    BY <1>3, <1>6 DEF Becoming
  <1>7. proc'[p].journal \in {<<>>, journal, proc[p].journal}
    <2>1. Becoming(p, Fresh(proc[p].at + 1)) => proc'[p].journal = <<>>
      BY <1>6 DEF Fresh
    <2>2. Onward(p) => proc'[p].journal = proc[p].journal
      BY <1>3, <1>6 DEF Onward, ProcStates
    <2>3. Reads(p) => proc'[p].journal \in {journal, proc[p].journal}
      BY <1>3, <1>6 DEF Reads, ProcStates
    <2> QED BY <1>1, <2>1, <2>2, <2>3, StepHolds
  <1>8. ASSUME NEW q \in Procs, NEW e \in Range(proc'[q].journal) PROVE filed(e)
    <2>1. CASE q = p
      <3>1. Range(<<>>) = {}
        BY DEF Range
      <3> QED BY <1>2, <1>4, <1>5, <1>7, <1>8, <2>1, <3>1
    <2>2. CASE q # p
      BY <1>2, <1>3, <1>5, <1>8, <2>2
    <2> QED BY <2>1, <2>2
  <1>9. ASSUME NEW q \in Procs, proc'[q].pc \in {"down", "journal"}, Command(q)'.do = "generate"
        PROVE  filed(Head(proc'[q].todo))
    <2>1. CASE q # p
      <3>1. proc'[q] = proc[q] /\ Command(q)' = Command(q)
        BY <1>3, <2>1 DEF Command
      <3> QED BY <1>2, <1>9, <3>1 DEF FilesInv
    <2>2. CASE q = p
      <3>1. Onward(p) /\ proc'[p].at = proc[p].at
        <4>1. Becoming(p, Fresh(proc[p].at + 1)) => proc'[p].pc = "start"
          BY <1>6 DEF Fresh
        <4>2. Reads(p) /\ ~Archive(p) => proc'[p].pc \notin {"down", "journal"}
          BY <1>3, <1>6 DEF Reads, ProcStates
        <4> QED BY <1>1, <1>9, <2>2, <4>1, <4>2, StepHolds
      <3>2. PICK pc, ok :
              /\ Becoming(p, [proc[p] EXCEPT !.pc = pc, !.ok = ok])
              /\ pc = "down" => WriteFile(p) /\ Command(p).do = "generate"
              /\ pc \in {"file", "journal"} => WriteDown(p) \/ Command(p).do = "squash"
        BY <3>1 DEF Onward
      <3>3. proc'[p].pc = pc /\ proc'[p].todo = proc[p].todo /\ Command(p)' = Command(p)
        BY <1>3, <1>6, <3>2 DEF ProcStates, Command
      <3>4. CASE WriteFile(p) /\ Command(p).do = "generate"
        <4>1. Head(proc[p].todo) \in files'
          BY <3>4 DEF WriteFile, Stored
        <4> QED BY <2>2, <3>3, <4>1
      <3>5. CASE WriteDown(p)
        <4>1. FilesAt(Head(proc[p].todo)) # {}
          BY <3>5 DEF WriteDown, Runs, FilesInv
        <4> QED BY <1>2, <2>2, <3>3, <4>1
      <3> QED BY <1>9, <2>2, <3>2, <3>3, <3>4, <3>5
    <2> QED BY <2>1, <2>2
  <1>10. ASSUME NEW e \in Range(journal') PROVE filed(e)
    <2>1. CASE journal' = journal
      BY <1>2, <1>4, <1>10, <2>1
    <2>2. CASE /\ Runs(p, "journal", {"generate"})
               /\ journal' = Append(proc[p].journal, Head(proc[p].todo))
      <3>1. proc[p].todo # <<>> /\ proc[p].todo \in Seq(Entries)
        BY <1>3, <2>2 DEF Runs, HasWork, ProcStates
      <3>2. Range(journal') = Range(proc[p].journal) \cup {Head(proc[p].todo)}
        BY <1>3, <2>2, <3>1, RangeOfAppend
      <3>3. FilesAt(Head(proc[p].todo)) # {}
        BY <2>2 DEF Runs, FilesInv
      <3> QED BY <1>2, <1>5, <1>10, <3>2, <3>3
    <2> QED BY <1>1, <2>1, <2>2, StepWrites
  <1> QED BY <1>1, <1>3, <1>8, <1>9, <1>10 DEF FilesInv, EntriesHaveFiles, FilesAt, Does, CommandsOf

LEMMA FilesCrash ==
  ASSUME TypeOK, HasWork, FilesInv, NEW p \in Procs, Crash(p)
  PROVE  FilesInv'
  <1>1. UNCHANGED <<work, journal, files>>
    BY DEF Crash, directory
  <1>2. /\ proc'[p].journal = <<>> /\ proc'[p].pc = "start"
        /\ \A q \in Procs \ {p} : proc'[q] = proc[q]
    <2>1. proc'[p] = Fresh(proc[p].at) /\ \A q \in Procs \ {p} : proc'[q] = proc[q]
      BY CrashMoves
    <2> QED BY <2>1 DEF Fresh
  <1>3. Range(<<>>) = {}
    BY DEF Range
  <1>4. \A q \in Procs : proc'[q].pc # "start" => proc'[q] = proc[q] /\ Command(q)' = Command(q)
    BY <1>1, <1>2 DEF Command
  <1> QED BY <1>1, <1>2, <1>3, <1>4 DEF FilesInv, EntriesHaveFiles, FilesAt, Does, CommandsOf

\* Where nothing is squashed, the journal names no missing file, whenever a
\* process dies (generate writes the file before the journal, and no file goes).
THEOREM EntriesHaveFilesHolds ==
  Spec /\ ~Does(work, "squash") => []EntriesHaveFiles
  <1> DEFINE Inv == TypeOK /\ HasWork /\ FilesInv
  <1>1. Init /\ ~Does(work, "squash") => Inv
    BY InitType, InitHasWork, InitFiles
  <1>2. Inv /\ [Next]_vars => Inv'
    <2> SUFFICES ASSUME Inv, [Next]_vars PROVE FilesInv'
      BY TypeStep
    <2>1. CASE UNCHANGED vars
      BY <2>1 DEF vars, directory, FilesInv, EntriesHaveFiles, FilesAt, Command, Does, CommandsOf
    <2> QED BY <2>1, FilesStep, FilesCrash DEF Next
  <1>3. Inv => EntriesHaveFiles
    BY DEF FilesInv
  <1> QED BY <1>1, <1>2, <1>3, PTL DEF Spec
-----------------------------------------------------------------------------
(***************************************************************************)
(* The tracking table and the schema, where the changes of each migration  *)
(* are its own: B gives them.                                              *)
(***************************************************************************)

\* What the snapshot can be.
Snapshots(w) == {BodiesOf(Range(w.journal))}
                  \cup {c.want : c \in {c \in CommandsOf(w) : c.do = "generate"}}

Owns(w, B) ==
  /\ B \in [MigrationNames -> SUBSET Changes]
  /\ \A m, n \in MigrationNames : m # n => B[m] \cap B[n] = {}
  /\ \A e \in Range(w.journal) : e.body = B[e.name]
  /\ \A c \in CommandsOf(w), s \in Snapshots(w) :
       c.do = "generate" => c.want \ s \in {{}, B[c.name]}

\* The migrations in the directory, in the database and in hand.
BodiesInv(B) ==
  /\ \A e \in Range(journal) \cup files : e.body = B[e.name]
  /\ snapshot \in Snapshots(work)
  /\ \A row \in tracked : row.body = B[row.name]
  /\ \A p \in Procs :
       /\ \A e \in Range(proc[p].journal) \cup Range(proc[p].todo) : e.body = B[e.name]
       /\ proc[p].pc = "up" => proc[p].content = B[Head(proc[p].todo).name]

\* A migration is in the journal when its down script is written.
DownsInv ==
  /\ \A e \in Range(journal) : Path(e) \in downs
  /\ \A p \in Procs :
       /\ \A e \in Range(proc[p].journal) : Path(e) \in downs
       /\ proc[p].at \in DOMAIN work.scripts[p] /\ Command(p).do # "generate"
            => Range(proc[p].todo) \subseteq Range(proc[p].journal)
       /\ proc[p].pc = "journal" => Path(Head(proc[p].todo)) \in downs
       /\ proc[p].pc = "start" => proc[p].todo = <<>>

\* Where something resets, the journal stays what it was.
ResetInv ==
  Does(work, "reset") =>
    /\ journal = work.journal
    /\ \A p \in Procs :
         /\ proc[p].journal \in {<<>>, work.journal}
         /\ proc[p].pc = "start" \/ proc[p].journal = work.journal
    /\ Names(tracked) \subseteq Names(Range(work.journal))

EffectsInv ==
  /\ ~Does(work, "squash")
  /\ Does(work, "reset") => ~Does(work, "generate")
  /\ \E B : Owns(work, B) /\ BodiesInv(B)
  /\ DownsInv /\ ResetInv
  /\ EffectsAreTracked

\* The journal that a process has read.
LEMMA HandJournal ==
  ASSUME TypeOK, HasWork, ~Does(work, "squash"), NEW p \in Procs, Step(p)
  PROVE  \/ proc'[p] = Fresh(proc[p].at + 1)
         \/ /\ proc'[p].at = proc[p].at
            /\ proc'[p].journal = IF proc[p].pc = "start" THEN journal ELSE proc[p].journal
  <1>1. proc[p] \in ProcStates /\ proc \in [Procs -> ProcStates]
    BY DEF TypeOK
  <1>2. ASSUME NEW v, Becoming(p, v) PROVE proc'[p] = v
    BY <1>1, <1>2 DEF Becoming
  <1>3. CASE Becoming(p, Fresh(proc[p].at + 1))
    BY <1>2, <1>3 DEF Fresh
  <1>4. CASE proc'[p].at = proc[p].at /\ Onward(p)
    <2>1. proc'[p].journal = proc[p].journal
      BY <1>1, <1>2, <1>4 DEF Onward, ProcStates
    <2>2. proc[p].pc = "start" => ReadJournal(p) \/ Diff(p)
      BY DEF Step, Lock, Unlock, ReadTracked, ReadFile, RunUp, PlanDown, RunDown, ListTables,
             ClearTracking, Rerun, ReadApplied, Retrack, Archive, WriteFile, WriteDown,
             WriteJournal, WriteSnapshot, Runs
    <2>3. ReadJournal(p) => proc' = [proc EXCEPT ![p].journal = journal,
                     ![p].pc = IF Command(p).do = "reset" THEN "lock" ELSE "tracked"]
      BY StepWrites DEF ReadJournal
    <2>4. ReadJournal(p) => proc'[p].journal = journal
      BY <1>1, <2>3 DEF ProcStates
    <2>5. Diff(p) => Return(p) \/ proc' = [proc EXCEPT ![p].pc = "file", ![p].journal = journal,
                                                  ![p].todo = <<NewEntry(p)>>]
      BY DEF Diff, NewEntry
    <2>6. Diff(p) => proc'[p] = Fresh(proc[p].at + 1) \/ proc'[p].journal = journal
      BY <1>1, <2>5 DEF ProcStates, Return
    <2> QED BY <1>4, <2>1, <2>2, <2>4, <2>6
  <1>5. CASE proc'[p].at = proc[p].at /\ Reads(p)
    <2>1. proc'[p].journal = IF proc[p].pc = "start" THEN journal ELSE proc[p].journal
      BY <1>1, <1>2, <1>5 DEF Reads, ProcStates, ReadJournal, Diff, ReadTracked, ReadFile, RunUp,
         PlanDown, ListTables, ClearTracking, ReadApplied, Archive, Runs
    <2> QED BY <1>5, <2>1
  <1> QED BY <1>3, <1>4, <1>5, StepHolds

\* The row of a migration, the rows of a journal, and its changes.
Row(B, name)  == [name |-> name, body |-> B[name]]
RowsOf(B, s)  == {Row(B, e.name) : e \in Range(s)}
OwnedBy(B, s) == UNION {B[e.name] : e \in Range(s)}

\* A migration that is replayed is its file's.
LEMMA MigrateOwn ==
  ASSUME NEW B, NEW db \in Outcomes, NEW e \in Entries, e.body = B[e.name], Migrate(db, e).ok
  PROVE  /\ Migrate(db, e).tracked = db.tracked \cup {[name |-> e.name, body |-> B[e.name]]}
         /\ Migrate(db, e).schema = db.schema \cup B[e.name]
         /\ Migrate(db, e).twice = db.twice \cup (B[e.name] \cap db.schema)
         /\ B[e.name] \cap db.schema \subseteq work.loose /\ e.name \notin Names(db.tracked)
  <1>1. Migrate(db, e) = [db EXCEPT !.schema = @ \cup e.body, !.tracked = @ \cup {RowOf(e)},
                                    !.twice = @ \cup (e.body \cap db.schema)]
        /\ e.name \notin Names(db.tracked) /\ e.body \cap db.schema \subseteq work.loose
    BY DEF Migrate, Outcomes
  <1> QED BY <1>1 DEF Outcomes, RowOf

LEMMA ReplayedOwn ==
  ASSUME NEW B, NEW db \in Outcomes, NEW entries \in Seq(Entries), files \in SUBSET Entries,
         \A f \in files : f.body = B[f.name], Replayed(db, entries).ok
  PROVE  /\ Replayed(db, entries).tracked = db.tracked \cup RowsOf(B, entries)
         /\ Replayed(db, entries).schema = db.schema \cup OwnedBy(B, entries)
         /\ work.loose = {} => Replayed(db, entries).twice = db.twice
  <1>1. PICK f : Replays(f, db, entries)
    BY ReplayedFacts
  <1>2. /\ f[0] = db /\ Replayed(db, entries) = f[Len(entries)]
        /\ \A i \in 1..Len(entries) :
             f[i] = IF ~f[i - 1].ok \/ FilesAt(entries[i]) = {}
                    THEN [f[i - 1] EXCEPT !.ok = FALSE]
                    ELSE Migrate(f[i - 1], CHOOSE file \in FilesAt(entries[i]) : TRUE)
    BY <1>1 DEF Replays
  <1>3. Len(entries) \in Nat /\ DOMAIN entries = 1..Len(entries)
    OBVIOUS
  <1> DEFINE Rowed(n) == {[name |-> entries[i].name, body |-> B[entries[i].name]] : i \in 1..n}
             Done(n) == UNION {B[entries[i].name] : i \in 1..n}
             Good(n) == /\ f[n] \in Outcomes
                        /\ f[n].ok => /\ f[n].tracked = db.tracked \cup Rowed(n)
                                      /\ f[n].schema = db.schema \cup Done(n)
                                      /\ work.loose = {} => f[n].twice = db.twice
             G == {n \in 0..Len(entries) : Good(n)}
  <1>4. 0 \in G
    <2>1. 1..0 = {} /\ 0 \in 0..Len(entries)
      BY <1>3
    <2>2. Rowed(0) = {} /\ Done(0) = {}
      BY <2>1
    <2> HIDE DEF Rowed, Done
    <2> QED BY <1>2, <2>1, <2>2
  <1>5. ASSUME NEW n \in 0..Len(entries), n \in G, n # Len(entries) PROVE n + 1 \in G
    <2>1. n + 1 \in 1..Len(entries) /\ n + 1 \in 0..Len(entries) /\ (n + 1) - 1 = n
      <3> HIDE DEF G
      <3>1. Len(entries) \in Nat
        BY <1>3
      <3> QED BY <1>5, <3>1
    <2>2. Good(n)
      BY <1>5
    <2> DEFINE e == entries[n + 1]
               file == CHOOSE file \in FilesAt(e) : TRUE
    <2>3. 1..(n + 1) = (1..n) \cup {n + 1}
      BY <2>1
    <2>4. /\ Rowed(n + 1) = Rowed(n) \cup {[name |-> e.name, body |-> B[e.name]]}
          /\ Done(n + 1) = Done(n) \cup B[e.name]
      BY <2>3
    <2>5. f[n + 1] = IF ~f[n].ok \/ FilesAt(e) = {} THEN [f[n] EXCEPT !.ok = FALSE]
                     ELSE Migrate(f[n], file)
      BY <1>2, <2>1
    <2>6. FilesAt(e) # {} => file \in files /\ file.name = e.name
      BY DEF FilesAt, Path
    <2> HIDE DEF Rowed, Done, e, file, G
    <2>7. CASE ~f[n].ok \/ FilesAt(e) = {}
      <3>1. f[n + 1] \in Outcomes /\ ~f[n + 1].ok
        BY <2>2, <2>5, <2>7 DEF Outcomes
      <3> QED BY <2>1, <3>1 DEF G
    <2>8. CASE f[n].ok /\ FilesAt(e) # {}
      <3>1. f[n + 1] = Migrate(f[n], file) /\ file \in Entries /\ file.body = B[e.name]
            /\ file.name = e.name
        BY <2>5, <2>6, <2>8
      <3>2. f[n + 1] \in Outcomes
        BY <2>2, <3>1, MigrateType
      <3>3. ASSUME f[n + 1].ok
            PROVE  /\ f[n + 1].tracked = f[n].tracked \cup {[name |-> e.name, body |-> B[e.name]]}
                   /\ f[n + 1].schema = f[n].schema \cup B[e.name]
                   /\ f[n + 1].twice = f[n].twice \cup (B[e.name] \cap f[n].schema)
                   /\ B[e.name] \cap f[n].schema \subseteq work.loose
        <4>1. f[n] \in Outcomes
          BY <2>2
        <4>2. file \in Entries /\ file.body = B[file.name] /\ Migrate(f[n], file).ok
          BY <3>1, <3>3
        <4>3. ASSUME NEW x \in Outcomes, NEW y \in Entries, y.body = B[y.name], Migrate(x, y).ok
              PROVE  /\ Migrate(x, y).tracked
                         = x.tracked \cup {[name |-> y.name, body |-> B[y.name]]}
                     /\ Migrate(x, y).schema = x.schema \cup B[y.name]
                     /\ Migrate(x, y).twice = x.twice \cup (B[y.name] \cap x.schema)
                     /\ B[y.name] \cap x.schema \subseteq work.loose
          BY <4>3, MigrateOwn
        <4> QED BY <3>1, <4>1, <4>2, <4>3
      <3>4. Good(n + 1)
        BY <2>2, <2>4, <2>8, <3>2, <3>3
      <3> QED BY <2>1, <3>4 DEF G
    <2> QED BY <2>7, <2>8
  <1>6. Good(Len(entries))
    <2> HIDE DEF G
    <2>1. 0..Len(entries) \subseteq G
      BY <1>3, <1>4, <1>5, Induction
    <2>2. Len(entries) \in G
      BY <1>3, <2>1
    <2> QED BY <2>2 DEF G
  <1>7. Range(entries) = {entries[i] : i \in 1..Len(entries)}
    BY <1>3 DEF Range
  <1>8. Rowed(Len(entries)) = RowsOf(B, entries) /\ Done(Len(entries)) = OwnedBy(B, entries)
    BY <1>7 DEF RowsOf, OwnedBy, Row
  <1> HIDE DEF Rowed, Done
  <1> QED BY <1>2, <1>6, <1>8

LEMMA RunUpEffect ==
  ASSUME TypeOK, HasWork, NEW B, BodiesInv(B), NEW p \in Procs, RunUp(p)
  PROVE  \/ UNCHANGED database
         \/ \E e \in Range(proc[p].todo) :
              /\ tracked' = tracked \cup {Row(B, e.name)} /\ schema' = schema \cup B[e.name]
              /\ twice' = twice \cup (B[e.name] \cap schema) /\ e.name \notin Names(tracked)
              /\ e = Head(proc[p].todo)
  <1> DEFINE head == Head(proc[p].todo)
             e == [head EXCEPT !.body = proc[p].content]
  <1>1. /\ proc[p].todo \in Seq(Entries) /\ proc[p].todo # <<>>
        /\ proc[p].content \in SUBSET Changes /\ proc[p].content = B[head.name]
    BY DEF TypeOK, ProcStates, RunUp, Runs, HasWork, BodiesInv
  <1>2. head \in Entries /\ head \in Range(proc[p].todo)
    BY <1>1, HeadFacts
  <1>3. e \in Entries /\ e.name = head.name /\ e.body = B[head.name]
    BY <1>1, <1>2 DEF Entries
  <1>4. UNCHANGED database \/ (Migrate(Now, e).ok /\ Commit(Migrate(Now, e)))
    BY DEF RunUp
  <1>5. /\ Now \in Outcomes
        /\ Now.schema = schema /\ Now.tracked = tracked /\ Now.twice = twice
    BY DEF Now, Outcomes, TypeOK
  <1> HIDE DEF e, head
  <1>6. ASSUME Migrate(Now, e).ok, Commit(Migrate(Now, e))
        PROVE  /\ tracked' = tracked \cup {Row(B, e.name)} /\ schema' = schema \cup B[e.name]
               /\ twice' = twice \cup (B[e.name] \cap schema) /\ e.name \notin Names(tracked)
    <2>1. e.body = B[e.name]
      BY <1>3
    <2>2. /\ Migrate(Now, e).tracked = Now.tracked \cup {Row(B, e.name)}
          /\ Migrate(Now, e).schema = Now.schema \cup B[e.name]
          /\ Migrate(Now, e).twice = Now.twice \cup (B[e.name] \cap Now.schema)
          /\ e.name \notin Names(Now.tracked)
      <3>1. ASSUME NEW x \in Outcomes, NEW y \in Entries, y.body = B[y.name], Migrate(x, y).ok
            PROVE  /\ Migrate(x, y).tracked = x.tracked \cup {Row(B, y.name)}
                   /\ Migrate(x, y).schema = x.schema \cup B[y.name]
                   /\ Migrate(x, y).twice = x.twice \cup (B[y.name] \cap x.schema)
                   /\ y.name \notin Names(x.tracked)
        BY <3>1, MigrateOwn DEF Row
      <3> QED BY <1>3, <1>5, <1>6, <2>1, <3>1
    <2> QED BY <1>5, <1>6, <2>2 DEF Commit
  <1> QED BY <1>2, <1>3, <1>4, <1>6 DEF head

LEMMA RerunEffect ==
  ASSUME TypeOK, NEW B, BodiesInv(B), NEW p \in Procs, Rerun(p)
  PROVE  \/ UNCHANGED database
         \/ /\ tracked' = (tracked \ proc[p].seen) \cup RowsOf(B, proc[p].journal)
            /\ schema' = (schema \ proc[p].listed) \cup OwnedBy(B, proc[p].journal)
            /\ work.loose = {} => twice' = twice
  <1> DEFINE cleared == [Now EXCEPT !.schema = @ \ proc[p].listed, !.tracked = @ \ proc[p].seen]
  <1>1. /\ cleared \in Outcomes /\ cleared.schema = schema \ proc[p].listed
        /\ cleared.tracked = tracked \ proc[p].seen /\ cleared.twice = twice
    BY DEF Now, Outcomes, TypeOK
  <1>2. UNCHANGED database \/ (/\ Replayed(cleared, proc[p].journal).ok
                               /\ Commit(Replayed(cleared, proc[p].journal)))
    BY DEF Rerun
  <1>3. /\ proc[p].journal \in Seq(Entries) /\ files \in SUBSET Entries
        /\ \A f \in files : f.body = B[f.name]
    BY DEF TypeOK, ProcStates, BodiesInv
  <1> HIDE DEF cleared
  <1>4. ASSUME Replayed(cleared, proc[p].journal).ok
        PROVE  /\ Replayed(cleared, proc[p].journal).tracked
                    = cleared.tracked \cup RowsOf(B, proc[p].journal)
               /\ Replayed(cleared, proc[p].journal).schema
                    = cleared.schema \cup OwnedBy(B, proc[p].journal)
               /\ work.loose = {} => Replayed(cleared, proc[p].journal).twice = cleared.twice
    BY <1>1, <1>3, <1>4, ReplayedOwn
  <1> QED BY <1>1, <1>2, <1>4 DEF Commit

LEMMA RunDownEffect ==
  ASSUME NEW p \in Procs, RunDown(p),
         \A e \in Range(proc[p].todo) : Path(e) \in downs
  PROVE  \/ UNCHANGED database
         \/ /\ tracked' = {row \in tracked : row.name \notin Names(Range(proc[p].todo))}
            /\ schema' = schema \ BodiesOf(Range(proc[p].todo))
            /\ twice' = twice
  <1>1. {e \in Range(proc[p].todo) : Path(e) \in downs} = Range(proc[p].todo)
    OBVIOUS
  <1> QED BY <1>1 DEF RunDown, database

\* What a process takes in hand, and what it read in a file.
LEMMA HandTodo ==
  ASSUME TypeOK, HasWork, ~Does(work, "squash"), NEW p \in Procs, Step(p)
  PROVE  \/ proc'[p] = Fresh(proc[p].at + 1)
         \/ /\ proc'[p].at = proc[p].at
            /\ \/ /\ proc'[p].todo = proc[p].todo
                  /\ \/ proc'[p].pc \notin {"up", "start"}
                     \/ /\ proc'[p].pc = "up" /\ proc[p].todo # <<>>
                        /\ \E f \in FilesAt(Head(proc[p].todo)) : proc'[p].content = f.body
               \/ /\ Range(proc'[p].todo) \subseteq Range(proc[p].todo)
                  /\ RunUp(p) /\ proc'[p].pc = "next"
               \/ /\ Range(proc'[p].todo) \subseteq Range(proc[p].journal)
                  /\ proc[p].pc = "tracked" /\ proc'[p].pc \in {"next", "lock"}
               \/ /\ proc'[p].todo = <<NewEntry(p)>> /\ NewEntry(p).body # {}
                  /\ Diff(p) /\ proc'[p].pc = "file"
  <1>1. proc[p] \in ProcStates /\ proc \in [Procs -> ProcStates] /\ Command(p) \in Commands
    BY StepRuns DEF TypeOK
  <1>2. ASSUME NEW v, Becoming(p, v) PROVE proc'[p] = v
    BY <1>1, <1>2 DEF Becoming
  <1>3. CASE Becoming(p, Fresh(proc[p].at + 1))
    BY <1>2, <1>3
  <1>4. CASE proc'[p].at = proc[p].at /\ Onward(p)
    <2>1. proc'[p].todo = proc[p].todo /\ proc'[p].pc \notin {"up", "start"}
      BY <1>1, <1>2, <1>4 DEF Onward, ProcStates
    <2> QED BY <1>4, <2>1
  <1>5. CASE proc'[p].at = proc[p].at /\ Reads(p) /\ ~Archive(p) /\ ~ReadApplied(p)
    <2>1. proc[p].todo \in Seq(Entries) /\ proc[p].journal \in Seq(Entries)
      BY <1>1 DEF ProcStates
    <2>2. CASE ReadJournal(p)
      <3>1. proc' = [proc EXCEPT ![p].journal = journal,
                     ![p].pc = IF Command(p).do = "reset" THEN "lock" ELSE "tracked"]
        BY <2>2, StepWrites DEF ReadJournal
      <3>2. proc'[p].todo = proc[p].todo /\ proc'[p].pc \in {"lock", "tracked"}
        BY <1>1, <3>1 DEF ProcStates
      <3> QED BY <1>5, <3>2
    <2>3. CASE ReadTracked(p) /\ Becoming(p, [proc[p] EXCEPT !.pc = "next", !.todo = Pending(p)])
      <3>1. proc'[p].todo = Pending(p) /\ proc'[p].pc = "next" /\ proc[p].pc = "tracked"
        BY <1>1, <1>2, <2>3 DEF ProcStates, ReadTracked, Runs
      <3>2. Range(Pending(p)) \subseteq Range(proc[p].journal)
        BY <2>1, AmongFacts DEF Pending
      <3> QED BY <1>5, <3>1, <3>2
    <2>4. CASE /\ ReadFile(p) /\ proc[p].todo # <<>>
               /\ \E f \in FilesAt(Head(proc[p].todo)) :
                    Becoming(p, [proc[p] EXCEPT !.pc = "up", !.content = f.body])
      <3>1. /\ proc'[p].todo = proc[p].todo /\ proc'[p].pc = "up"
            /\ \E f \in FilesAt(Head(proc[p].todo)) : proc'[p].content = f.body
        BY <1>1, <1>2, <2>4 DEF ProcStates
      <3> QED BY <1>5, <2>4, <3>1
    <2>5. CASE RunUp(p) /\ Becoming(p, [proc[p] EXCEPT !.pc = "next", !.todo = Tail(@)])
      <3>1. proc'[p].todo = Tail(proc[p].todo) /\ proc'[p].pc = "next"
        BY <1>1, <1>2, <2>5 DEF ProcStates
      <3>2. proc[p].todo # <<>>
        BY <2>5 DEF RunUp, Runs, HasWork
      <3>3. Range(Tail(proc[p].todo)) \subseteq Range(proc[p].todo)
        BY <2>1, <3>2, TailFacts
      <3> QED BY <1>5, <2>5, <3>1, <3>3
    <2>6. CASE PlanDown(p) /\ Becoming(p, [proc[p] EXCEPT !.pc = "lock", !.todo = ToUndo(p)])
      <3>1. proc'[p].todo = ToUndo(p) /\ proc'[p].pc = "lock" /\ proc[p].pc = "tracked"
        BY <1>1, <1>2, <2>6 DEF ProcStates, PlanDown, Runs
      <3>2. Range(ToUndo(p)) \subseteq Applied(proc[p].journal, tracked)
        BY <1>1, <2>1, LastAppliedFacts DEF ToUndo, Commands
      <3> QED BY <1>5, <3>1, <3>2 DEF Applied
    <2>7. CASE \/ ListTables(p) /\ Becoming(p, [proc[p] EXCEPT !.pc = "clear", !.listed = schema])
               \/ ClearTracking(p) /\ Becoming(p, [proc[p] EXCEPT !.pc = "rerun", !.seen = tracked])
      <3>1. proc'[p].todo = proc[p].todo /\ proc'[p].pc \notin {"up", "start"}
        BY <1>1, <1>2, <2>7 DEF ProcStates
      <3> QED BY <1>5, <3>1
    <2>8. CASE /\ Diff(p) /\ NewEntry(p).body # {}
               /\ Becoming(p, [proc[p] EXCEPT !.pc = "file", !.journal = journal,
                                              !.todo = <<NewEntry(p)>>])
      <3>1. proc'[p].todo = <<NewEntry(p)>> /\ proc'[p].pc = "file"
        BY <1>1, <1>2, <2>8 DEF ProcStates
      <3> QED BY <1>5, <2>8, <3>1
    <2> QED BY <1>5, <2>2, <2>3, <2>4, <2>5, <2>6, <2>7, <2>8 DEF Reads
  <1> QED BY <1>3, <1>4, <1>5, StepHolds

LEMMA EmptyRange == Range(<<>>) = {}
  BY DEF Range

LEMMA OneRange ==
  ASSUME NEW x
  PROVE  Range(<<x>>) = {x}
  BY DEF Range

LEMMA BodiesStep ==
  ASSUME TypeOK, HasWork, ~Does(work, "squash"), NEW B, Owns(work, B), BodiesInv(B),
         NEW p \in Procs, Step(p)
  PROVE  BodiesInv(B)'
  <1>1. /\ work' = work /\ proc[p] \in ProcStates /\ proc \in [Procs -> ProcStates]
        /\ \A q \in Procs \ {p} : proc'[q] = proc[q]
        /\ proc[p].journal \in Seq(Entries) /\ proc[p].todo \in Seq(Entries)
    BY MovesType DEF TypeOK, Step, ProcStates
  <1>2. \A e \in Range(proc[p].journal) \cup Range(proc[p].todo) : e.body = B[e.name]
    BY DEF BodiesInv
  <1>3. proc[p].todo # <<>> => /\ Head(proc[p].todo) \in Range(proc[p].todo)
                               /\ Head(proc[p].todo) \in Entries
    BY <1>1, HeadFacts
  <1>4. ASSUME NEW e \in Range(journal') \cup files' PROVE e.body = B[e.name]
    <2>1. CASE e \in Range(journal) \cup files
      BY <2>1 DEF BodiesInv
    <2>2. CASE e \notin Range(journal) \cup files
      <3>1. ASSUME Runs(p, "journal", {"generate"}) \/ Runs(p, "file", {"generate"})
            PROVE  proc[p].todo # <<>>
        BY <3>1 DEF Runs, HasWork
      <3>2. journal' = Append(proc[p].journal, Head(proc[p].todo)) /\ proc[p].todo # <<>>
              => Range(journal') = Range(proc[p].journal) \cup {Head(proc[p].todo)}
        BY <1>1, <1>3, RangeOfAppend
      <3>3. e \in Range(proc[p].journal) \/ (e = Head(proc[p].todo) /\ proc[p].todo # <<>>)
        BY <1>4, <2>2, <3>1, <3>2, StepWrites
      <3> QED BY <1>2, <1>3, <3>3
    <2> QED BY <2>1, <2>2
  <1>5. Command(p) \in CommandsOf(work)
    BY CommandGiven
  <1>6. snapshot' \in Snapshots(work)
    <2>1. CASE Command(p).do = "generate" /\ snapshot' = Command(p).want
      BY <1>5, <2>1 DEF Snapshots
    <2>2. CASE snapshot' = snapshot
      BY <2>2 DEF BodiesInv
    <2> QED BY <2>1, <2>2, StepWrites
  <1>7. ASSUME NEW row \in tracked' PROVE row.body = B[row.name]
    <2>1. \A r \in tracked : r.body = B[r.name]
      BY DEF BodiesInv
    <2>2. CASE UNCHANGED database
      BY <1>7, <2>1, <2>2 DEF database
    <2>3. CASE RunUp(p)
      <3>1. tracked' = tracked \/ \E name : tracked' = tracked \cup {Row(B, name)}
        BY <2>3, RunUpEffect DEF database
      <3> QED BY <1>7, <2>1, <3>1 DEF Row
    <2>4. CASE RunDown(p)
      BY <1>7, <2>1, <2>4 DEF RunDown
    <2>5. CASE Rerun(p)
      <3>1. tracked' = tracked
              \/ tracked' = (tracked \ proc[p].seen) \cup RowsOf(B, proc[p].journal)
        BY <2>5, RerunEffect DEF database
      <3> QED BY <1>7, <2>1, <3>1 DEF Row, RowsOf
    <2> QED BY <2>2, <2>3, <2>4, <2>5, StepWrites
  <1>8. ASSUME NEW e \in Range(proc'[p].journal) PROVE e.body = B[e.name]
    <2>1. proc'[p].journal \in {<<>>, journal, proc[p].journal}
      <3>1. Fresh(proc[p].at + 1).journal = <<>>
        BY DEF Fresh
      <3> QED BY <3>1, HandJournal
    <2> QED BY <1>2, <1>8, <2>1, EmptyRange DEF BodiesInv
  <1>9. Diff(p) /\ NewEntry(p).body # {} => NewEntry(p).body = B[NewEntry(p).name]
    <2>1. Diff(p) => Command(p).do = "generate"
      BY DEF Diff, Runs
    <2>2. snapshot \in Snapshots(work)
      BY DEF BodiesInv
    <2> QED BY <1>5, <2>1, <2>2 DEF Owns, NewEntry
  <1>10. ASSUME NEW e \in Range(proc'[p].todo) PROVE e.body = B[e.name]
    <2>1. proc'[p] = Fresh(proc[p].at + 1) => proc'[p].todo = <<>>
      BY DEF Fresh
    <2>2. \/ e \in Range(proc[p].journal) \cup Range(proc[p].todo)
          \/ Diff(p) /\ NewEntry(p).body # {} /\ e = NewEntry(p)
      <3>1. \/ proc'[p].todo = <<>> \/ proc'[p].todo = proc[p].todo
            \/ Range(proc'[p].todo) \subseteq Range(proc[p].todo)
            \/ Range(proc'[p].todo) \subseteq Range(proc[p].journal)
            \/ proc'[p].todo = <<NewEntry(p)>> /\ NewEntry(p).body # {} /\ Diff(p)
        BY <2>1, HandTodo
      <3>2. Range(<<NewEntry(p)>>) = {NewEntry(p)}
        BY OneRange
      <3> QED BY <1>10, <3>1, <3>2, EmptyRange
    <2> QED BY <1>2, <1>9, <2>2
  <1>11. proc'[p].pc = "up" => proc'[p].content = B[Head(proc'[p].todo).name]
    <2> SUFFICES ASSUME proc'[p].pc = "up" PROVE proc'[p].content = B[Head(proc'[p].todo).name]
      OBVIOUS
    <2>1. proc'[p] # Fresh(proc[p].at + 1)
      BY DEF Fresh
    <2>2. /\ proc'[p].todo = proc[p].todo
          /\ \E f \in FilesAt(Head(proc[p].todo)) : proc'[p].content = f.body
      BY <2>1, HandTodo
    <2>3. ASSUME NEW f \in FilesAt(Head(proc[p].todo))
          PROVE  f.body = B[Head(proc[p].todo).name]
      BY DEF FilesAt, Path, BodiesInv
    <2> QED BY <2>2, <2>3
  <1>12. ASSUME NEW q \in Procs
         PROVE  /\ \A e \in Range(proc'[q].journal) \cup Range(proc'[q].todo) : e.body = B[e.name]
                /\ proc'[q].pc = "up" => proc'[q].content = B[Head(proc'[q].todo).name]
    BY <1>1, <1>8, <1>10, <1>11 DEF BodiesInv
  <1> QED BY <1>1, <1>4, <1>6, <1>7, <1>12
          DEF BodiesInv, Snapshots, BodiesOf, CommandsOf

LEMMA DownsStep ==
  ASSUME TypeOK, HasWork, ~Does(work, "squash"), DownsInv, NEW p \in Procs, Step(p)
  PROVE  DownsInv'
  <1>1. /\ work' = work /\ proc[p] \in ProcStates /\ proc \in [Procs -> ProcStates]
        /\ \A q \in Procs \ {p} : proc'[q] = proc[q]
        /\ proc[p].journal \in Seq(Entries) /\ proc[p].todo \in Seq(Entries)
        /\ proc[p].at \in DOMAIN work.scripts[p] /\ Command(p).do # "squash"
    BY MovesType, StepRuns, StepWrites DEF TypeOK, Step, ProcStates
  <1>2. downs \subseteq downs'
    BY StepWrites
  <1>3. ASSUME NEW e \in Range(journal') PROVE Path(e) \in downs'
    <2>1. CASE e \in Range(journal)
      BY <1>2, <2>1 DEF DownsInv
    <2>2. CASE e \notin Range(journal)
      <3>1. /\ Runs(p, "journal", {"generate"})
            /\ journal' = Append(proc[p].journal, Head(proc[p].todo))
        BY <1>3, <2>2, StepWrites
      <3>2. proc[p].todo # <<>>
        BY <3>1 DEF Runs, HasWork
      <3>3. Range(journal') = Range(proc[p].journal) \cup {Head(proc[p].todo)}
        BY <1>1, <3>1, <3>2, RangeOfAppend, HeadFacts
      <3>4. Path(Head(proc[p].todo)) \in downs
        BY <3>1 DEF Runs, DownsInv
      <3> QED BY <1>2, <1>3, <3>3, <3>4 DEF DownsInv
    <2> QED BY <2>1, <2>2
  <1>4. ASSUME NEW e \in Range(proc'[p].journal) PROVE Path(e) \in downs'
    <2>1. Fresh(proc[p].at + 1).journal = <<>>
      BY DEF Fresh
    <2>2. proc'[p].journal \in {<<>>, journal, proc[p].journal}
      BY <2>1, HandJournal
    <2> QED BY <1>2, <1>4, <2>2, EmptyRange DEF DownsInv
  <1>5. Command(p).do # "generate" => Range(proc[p].todo) \subseteq Range(proc[p].journal)
    BY <1>1 DEF DownsInv
  <1>6. ASSUME proc'[p].at \in DOMAIN work.scripts[p],
               work.scripts[p][proc'[p].at].do # "generate"
        PROVE  Range(proc'[p].todo) \subseteq Range(proc'[p].journal)
    <2>1. CASE proc'[p] = Fresh(proc[p].at + 1)
      BY <2>1, EmptyRange DEF Fresh
    <2>2. CASE proc'[p] # Fresh(proc[p].at + 1)
      <3>1. /\ proc'[p].at = proc[p].at
            /\ proc'[p].journal = IF proc[p].pc = "start" THEN journal ELSE proc[p].journal
        BY <2>2, HandJournal
      <3>2. Command(p).do # "generate"
        BY <1>6, <3>1 DEF Command
      <3>3. ~Diff(p)
        BY <3>2 DEF Diff, Runs
      <3>4. proc[p].pc = "start" => proc[p].todo = <<>> /\ ~RunUp(p)
        BY DEF DownsInv, RunUp, Runs
      <3>5. CASE proc[p].pc = "start"
        <4>1. proc'[p].todo = <<>>
          BY <2>2, <3>3, <3>4, <3>5, HandTodo
        <4> QED BY <4>1, EmptyRange
      <3>6. CASE proc[p].pc # "start"
        <4>1. Range(proc'[p].todo) \subseteq Range(proc[p].journal)
          BY <1>5, <2>2, <3>2, <3>3, HandTodo
        <4> QED BY <3>1, <3>6, <4>1
      <3> QED BY <3>5, <3>6
    <2> QED BY <2>1, <2>2
  <1>7. proc'[p].pc = "journal" => Path(Head(proc'[p].todo)) \in downs'
    <2> SUFFICES ASSUME proc'[p].pc = "journal" PROVE Path(Head(proc'[p].todo)) \in downs'
      OBVIOUS
    <2>1. ASSUME NEW v, Becoming(p, v) PROVE proc'[p] = v
      BY <1>1, <2>1 DEF Becoming
    <2>2. CASE Becoming(p, Fresh(proc[p].at + 1))
      <3>1. proc'[p].pc = "start"
        BY <2>1, <2>2 DEF Fresh
      <3> QED BY <3>1
    <2>3. CASE Reads(p) /\ ~Archive(p)
      <3>1. proc'[p].pc # "journal"
        BY <1>1, <2>1, <2>3 DEF Reads, ProcStates
      <3> QED BY <3>1
    <2>4. CASE Onward(p)
      <3>1. PICK pc, ok :
              /\ Becoming(p, [proc[p] EXCEPT !.pc = pc, !.ok = ok])
              /\ pc = "down" => WriteFile(p) /\ Command(p).do = "generate"
              /\ pc \in {"file", "journal"} => WriteDown(p) \/ Command(p).do = "squash"
        BY <2>4 DEF Onward
      <3>2. pc = "journal" /\ proc'[p].todo = proc[p].todo
        BY <1>1, <2>1, <3>1 DEF ProcStates
      <3>3. WriteDown(p)
        BY <1>1, <3>1, <3>2
      <3>4. downs' = downs \cup {Path(Stored(p))} /\ Stored(p) = Head(proc[p].todo)
        BY <1>1, <3>3 DEF WriteDown, Stored
      <3> QED BY <3>2, <3>4
    <2> QED BY <2>2, <2>3, <2>4, StepHolds
  <1>8. proc'[p].pc = "start" => proc'[p].todo = <<>>
    <2>1. Fresh(proc[p].at + 1).todo = <<>>
      BY DEF Fresh
    <2>2. proc'[p].pc = "start" => proc'[p] = Fresh(proc[p].at + 1)
      BY HandTodo
    <2> QED BY <2>1, <2>2
  <1>9. ASSUME NEW q \in Procs
        PROVE  /\ \A e \in Range(proc'[q].journal) : Path(e) \in downs'
               /\ proc'[q].at \in DOMAIN work.scripts[q]
                    /\ work.scripts[q][proc'[q].at].do # "generate"
                    => Range(proc'[q].todo) \subseteq Range(proc'[q].journal)
               /\ proc'[q].pc = "journal" => Path(Head(proc'[q].todo)) \in downs'
               /\ proc'[q].pc = "start" => proc'[q].todo = <<>>
    <2>1. CASE q = p
      BY <1>4, <1>6, <1>7, <1>8, <2>1
    <2>2. CASE q # p
      <3>1. proc'[q] = proc[q]
        BY <1>1, <2>2
      <3> QED BY <1>2, <3>1 DEF DownsInv, Command
    <2> QED BY <2>1, <2>2
  <1> QED BY <1>1, <1>3, <1>9 DEF DownsInv, Command, Path

LEMMA ResetStep ==
  ASSUME TypeOK, HasWork, ~Does(work, "squash"), Does(work, "reset") => ~Does(work, "generate"),
         NEW B, BodiesInv(B), DownsInv, ResetInv, NEW p \in Procs, Step(p)
  PROVE  ResetInv'
  <1>1. work' = work /\ \A q \in Procs \ {p} : proc'[q] = proc[q]
    BY MovesType DEF Step
  <1>2. Does(work, "reset")' = Does(work, "reset")
    BY <1>1 DEF Does, CommandsOf
  <1> SUFFICES ASSUME Does(work, "reset")
               PROVE  /\ journal' = work.journal
                      /\ \A q \in Procs : /\ proc'[q].journal \in {<<>>, work.journal}
                                          /\ \/ proc'[q].pc = "start"
                                             \/ proc'[q].journal = work.journal
                      /\ Names(tracked') \subseteq Names(Range(work.journal))
    BY <1>1, <1>2 DEF ResetInv, Names
  <1>3. /\ journal = work.journal /\ Names(tracked) \subseteq Names(Range(work.journal))
        /\ \A q \in Procs : /\ proc[q].journal \in {<<>>, work.journal}
                            /\ proc[q].pc = "start" \/ proc[q].journal = work.journal
    BY DEF ResetInv
  <1>4. Command(p).do # "generate" /\ proc[p].at \in DOMAIN work.scripts[p]
    BY CommandGiven, StepRuns DEF Does
  <1>5. journal' = journal
    BY <1>4, StepWrites DEF Runs
  <1>6. /\ proc'[p].journal \in {<<>>, work.journal}
        /\ proc'[p].pc = "start" \/ proc'[p].journal = work.journal
    <2>1. Fresh(proc[p].at + 1).journal = <<>> /\ Fresh(proc[p].at + 1).pc = "start"
      BY DEF Fresh
    <2> QED BY <1>3, <2>1, HandJournal
  <1>7. Range(proc[p].todo) \subseteq Range(proc[p].journal)
    BY <1>4 DEF DownsInv
  <1>8. Range(proc[p].journal) \subseteq Range(work.journal)
    BY <1>3, EmptyRange
  <1>9. Names(tracked') \subseteq Names(Range(work.journal))
    <2>1. CASE UNCHANGED database
      BY <1>3, <2>1 DEF database
    <2>2. CASE RunUp(p)
      <3>1. tracked' = tracked
              \/ \E e \in Range(proc[p].todo) : tracked' = tracked \cup {Row(B, e.name)}
        BY <2>2, RunUpEffect DEF database
      <3> QED BY <1>3, <1>7, <1>8, <3>1 DEF Names, Row
    <2>3. CASE RunDown(p)
      BY <1>3, <2>3 DEF RunDown, Names
    <2>4. CASE Rerun(p)
      <3>1. tracked' = tracked
              \/ tracked' = (tracked \ proc[p].seen) \cup RowsOf(B, proc[p].journal)
        BY <2>4, RerunEffect DEF database
      <3> QED BY <1>3, <1>8, <3>1 DEF Names, RowsOf, Row
    <2> QED BY <2>1, <2>2, <2>3, <2>4, StepWrites
  <1> QED BY <1>1, <1>3, <1>5, <1>6, <1>9

\* What is in effect is what the rows of the tracking table own.
LEMMA EffectsStep ==
  ASSUME TypeOK, HasWork, ~Does(work, "squash"), NEW B, Owns(work, B), BodiesInv(B),
         DownsInv, ResetInv, EffectsAreTracked, NEW p \in Procs, Step(p)
  PROVE  EffectsAreTracked'
  <1>1. \A row \in tracked : row.body = B[row.name]
    BY DEF BodiesInv
  <1>2. \A c : c \in schema <=> \E row \in tracked : c \in B[row.name]
    BY <1>1 DEF EffectsAreTracked, BodiesOf
  <1>3. \A row \in tracked' : row.body = B[row.name]
    BY BodiesStep DEF BodiesInv
  <1>4. SUFFICES \A c : c \in schema' <=> \E row \in tracked' : c \in B[row.name]
    <2>1. \A c : c \in schema' <=> \E row \in tracked' : c \in row.body
      BY <1>3, <1>4
    <2> QED BY <2>1 DEF EffectsAreTracked, BodiesOf
  <1>5. proc[p].at \in DOMAIN work.scripts[p] /\ Command(p) \in CommandsOf(work)
    BY StepRuns, CommandGiven
  <1>6. Command(p).do # "generate" => Range(proc[p].todo) \subseteq Range(proc[p].journal)
    BY <1>5 DEF DownsInv
  <1>7. CASE UNCHANGED database
    BY <1>2, <1>7 DEF database
  <1>8. CASE RunUp(p)
    <2>1. \/ UNCHANGED database
          \/ \E name : tracked' = tracked \cup {Row(B, name)} /\ schema' = schema \cup B[name]
      BY <1>8, RunUpEffect
    <2>2. \A name : Row(B, name).name = name
      BY DEF Row
    <2> QED BY <1>2, <1>7, <2>1, <2>2
  <1>9. CASE RunDown(p)
    <2>1. Command(p).do # "generate"
      BY <1>9 DEF RunDown, Runs
    <2>2. \A e \in Range(proc[p].todo) : Path(e) \in downs /\ e.body = B[e.name]
      BY <1>6, <2>1 DEF DownsInv, BodiesInv
    <2>3. proc[p].todo \in Seq(Entries) /\ tracked \in SUBSET Rows
      BY DEF TypeOK, ProcStates
    <2>4. \A e \in Range(proc[p].todo) : e.name \in MigrationNames
      BY <2>3, RangeType DEF Entries
    <2>5. \A row \in tracked : row.name \in MigrationNames
      BY <2>3 DEF Rows
    <2>6. \A row \in tracked, e \in Range(proc[p].todo) :
            row.name # e.name => B[row.name] \cap e.body = {}
      BY <2>2, <2>4, <2>5 DEF Owns
    <2>7. CASE /\ tracked' = {row \in tracked : row.name \notin Names(Range(proc[p].todo))}
               /\ schema' = schema \ BodiesOf(Range(proc[p].todo))
      <3>1. ASSUME NEW c \in schema', NEW row \in tracked, c \in B[row.name]
            PROVE  row \in tracked'
        <4>1. \A e \in Range(proc[p].todo) : c \notin e.body
          BY <2>7, <3>1 DEF BodiesOf
        <4>2. \A e \in Range(proc[p].todo) : row.name # e.name
          BY <2>2, <3>1, <4>1
        <4> QED BY <2>7, <3>1, <4>2 DEF Names
      <3>2. ASSUME NEW row \in tracked', NEW c \in B[row.name]
            PROVE  c \in schema'
        <4>1. row \in tracked /\ \A e \in Range(proc[p].todo) : row.name # e.name
          BY <2>7, <3>2 DEF Names
        <4>2. \A e \in Range(proc[p].todo) : c \notin e.body
          BY <2>6, <3>2, <4>1
        <4> QED BY <1>2, <2>7, <3>2, <4>1, <4>2 DEF BodiesOf
      <3> QED BY <1>2, <2>7, <3>1, <3>2
    <2> QED BY <1>7, <1>9, <2>2, <2>7, RunDownEffect
  <1>10. CASE Rerun(p)
    <2>1. Does(work, "reset") /\ proc[p].pc = "rerun"
      BY <1>5, <1>10 DEF Rerun, Runs, Does
    <2>2. proc[p].journal = work.journal /\ Names(tracked) \subseteq Names(Range(work.journal))
      BY <2>1 DEF ResetInv
    <2>3. CASE /\ tracked' = (tracked \ proc[p].seen) \cup RowsOf(B, proc[p].journal)
               /\ schema' = (schema \ proc[p].listed) \cup OwnedBy(B, proc[p].journal)
      <3>1. \A row \in tracked : \E e \in Range(work.journal) : row.name = e.name
        BY <2>2 DEF Names
      <3>2. \A c : c \in OwnedBy(B, work.journal) <=>
                    \E row \in RowsOf(B, work.journal) : c \in B[row.name]
        <4>1. \A name : Row(B, name).name = name
          BY DEF Row
        <4> HIDE DEF Row
        <4>2. \A c : c \in OwnedBy(B, work.journal) <=>
                      \E e \in Range(work.journal) : c \in B[e.name]
          BY DEF OwnedBy
        <4> QED BY <4>1, <4>2 DEF RowsOf
      <3>3. ASSUME NEW row \in tracked, NEW c \in B[row.name]
            PROVE  c \in OwnedBy(B, work.journal)
        BY <3>1 DEF OwnedBy
      <3> QED BY <1>2, <2>2, <2>3, <3>2, <3>3
    <2> QED BY <1>7, <1>10, <2>3, RerunEffect
  <1> QED BY <1>7, <1>8, <1>9, <1>10, StepWrites

\* No step makes a change that is in effect.
LEMMA TwiceStep ==
  ASSUME TypeOK, HasWork, ~Does(work, "squash"), Does(work, "reset") => work.loose = {},
         NEW B, Owns(work, B), BodiesInv(B), EffectsAreTracked, NoMigrationTwice,
         NEW p \in Procs, Step(p)
  PROVE  NoMigrationTwice'
  <1>1. CASE UNCHANGED database
    BY <1>1 DEF database, NoMigrationTwice
  <1>2. CASE RunUp(p)
    <2>1. \/ twice' = twice
          \/ \E e \in Range(proc[p].todo) : /\ twice' = twice \cup (B[e.name] \cap schema)
                                            /\ e.name \notin Names(tracked)
      BY <1>2, RunUpEffect DEF database
    <2>2. ASSUME NEW e \in Range(proc[p].todo), e.name \notin Names(tracked)
          PROVE  B[e.name] \cap schema = {}
      <3>1. proc[p].todo \in Seq(Entries) /\ tracked \in SUBSET Rows
        BY DEF TypeOK, ProcStates
      <3>2. e.name \in MigrationNames
        BY <3>1, RangeType DEF Entries
      <3>3. \A row \in tracked : row.name \in MigrationNames /\ row.name # e.name
                                 /\ row.body = B[row.name]
        BY <2>2, <3>1 DEF Rows, Names, BodiesInv
      <3>4. \A row \in tracked : row.body \cap B[e.name] = {}
        BY <3>2, <3>3 DEF Owns
      <3> QED BY <3>4 DEF EffectsAreTracked, BodiesOf
    <2> QED BY <2>1, <2>2 DEF NoMigrationTwice
  <1>3. CASE RunDown(p)
    BY <1>3 DEF RunDown, NoMigrationTwice
  <1>4. CASE Rerun(p)
    <2>1. Does(work, "reset")
      BY <1>4, CommandGiven DEF Rerun, Runs, Does
    <2> QED BY <1>4, <2>1, RerunEffect DEF database, NoMigrationTwice
  <1> QED BY <1>1, <1>2, <1>3, <1>4, StepWrites

LEMMA OwnsKept ==
  ASSUME work' = work, NEW B, Owns(work, B)
  PROVE  Owns(work, B)' /\ Snapshots(work)' = Snapshots(work)
  <1>1. CommandsOf(work)' = CommandsOf(work)
    BY DEF CommandsOf
  <1>2. Snapshots(work)' = Snapshots(work)
    BY <1>1 DEF Snapshots, BodiesOf
  <1> QED BY <1>1, <1>2 DEF Owns

LEMMA InitEffects ==
  ASSUME Init, ~Does(work, "squash"), Does(work, "reset") => ~Does(work, "generate"),
         \E B : Owns(work, B)
  PROVE  EffectsInv
  <1>1. journal = work.journal /\ journal \in Seq(Entries) /\ files = Range(work.journal)
    BY InitType DEF Init, TypeOK
  <1>2. \A p \in Procs : proc[p] = Fresh(1)
    BY DEF Init
  <1>3. \A p \in Procs : proc[p].journal = <<>> /\ proc[p].todo = <<>> /\ proc[p].pc = "start"
    BY <1>2 DEF Fresh
  <1>4. tracked \subseteq {RowOf(e) : e \in Range(work.journal)}
    <2>1. /\ work.applied \in Nat /\ work.applied <= Len(work.journal)
          /\ work.journal \in Seq(Entries)
      BY WorkloadsAssumption DEF Init
    <2>2. Range(SubSeq(work.journal, 1, work.applied)) \subseteq Range(work.journal)
      BY <2>1 DEF Range
    <2> QED BY <2>2 DEF Init
  <1>5. ASSUME NEW B, Owns(work, B) PROVE BodiesInv(B)
    <2>1. \A e \in Range(journal) \cup files : e.body = B[e.name]
      BY <1>1, <1>5 DEF Owns
    <2>2. snapshot \in Snapshots(work)
      BY DEF Init, Snapshots
    <2>3. \A row \in tracked : row.body = B[row.name]
      BY <1>4, <1>5 DEF Owns, RowOf
    <2> QED BY <1>3, <2>1, <2>2, <2>3, EmptyRange DEF BodiesInv
  <1>6. DownsInv
    <2>1. \A e \in Range(journal) : Path(e) \in downs
      BY <1>1 DEF Init
    <2> QED BY <1>3, <2>1, EmptyRange DEF DownsInv
  <1>7. ResetInv
    <2>1. Names(tracked) \subseteq Names(Range(work.journal))
      BY <1>4 DEF Names, RowOf
    <2> QED BY <1>1, <1>3, <2>1 DEF ResetInv
  <1>8. EffectsAreTracked
    BY DEF Init, EffectsAreTracked
  <1> QED BY <1>5, <1>6, <1>7, <1>8 DEF EffectsInv

\* What a crash leaves in hand: nothing.
LEMMA EffectsCrash ==
  ASSUME TypeOK, HasWork, EffectsInv, NEW p \in Procs, Crash(p)
  PROVE  EffectsInv'
  <1>1. UNCHANGED <<work, journal, files, downs, snapshot, tracked, schema>>
    BY DEF Crash, directory, database
  <1>2. \A q \in Procs : proc'[q] = proc[q] \/ (proc'[q].journal = <<>> /\ proc'[q].todo = <<>>
                                               /\ proc'[q].pc = "start")
    <2>1. /\ Fresh(proc[p].at).journal = <<>> /\ Fresh(proc[p].at).todo = <<>>
          /\ Fresh(proc[p].at).pc = "start"
      BY DEF Fresh
    <2> QED BY <2>1, CrashMoves
  <1>3. ASSUME NEW B, Owns(work, B), BodiesInv(B) PROVE (Owns(work, B) /\ BodiesInv(B))'
    <2>1. Owns(work, B)' /\ Snapshots(work)' = Snapshots(work)
      BY <1>1, <1>3, OwnsKept
    <2> QED BY <1>1, <1>2, <1>3, <2>1, EmptyRange DEF BodiesInv
  <1>4. DownsInv'
    BY <1>1, <1>2, EmptyRange DEF EffectsInv, DownsInv, Path, Command
  <1>5. ResetInv'
    BY <1>1, <1>2 DEF EffectsInv, ResetInv, Does, CommandsOf, Names
  <1> QED BY <1>1, <1>3, <1>4, <1>5
          DEF EffectsInv, EffectsAreTracked, BodiesOf, Does, CommandsOf

LEMMA EffectsInvStep ==
  ASSUME TypeOK, HasWork, EffectsInv, [Next]_vars
  PROVE  EffectsInv'
  <1>1. CASE UNCHANGED vars
    <2>1. UNCHANGED <<work, journal, files, downs, snapshot, tracked, schema, proc>>
      BY <1>1 DEF vars, directory, database
    <2>2. ASSUME NEW B, Owns(work, B), BodiesInv(B) PROVE (Owns(work, B) /\ BodiesInv(B))'
      <3>1. Owns(work, B)' /\ Snapshots(work)' = Snapshots(work)
        BY <2>1, <2>2, OwnsKept
      <3> QED BY <2>1, <2>2, <3>1 DEF BodiesInv
    <2>3. DownsInv' /\ ResetInv'
      BY <2>1 DEF EffectsInv, DownsInv, Path, Command, ResetInv, Does, CommandsOf, Names
    <2> QED BY <2>1, <2>2, <2>3 DEF EffectsInv, EffectsAreTracked, BodiesOf, Does, CommandsOf
  <1>2. ASSUME NEW p \in Procs, Step(p) PROVE EffectsInv'
    <2>1. PICK B : Owns(work, B) /\ BodiesInv(B)
      BY DEF EffectsInv
    <2>2. work' = work
      BY <1>2 DEF Step
    <2>3. Owns(work, B)'
      BY <2>1, <2>2, OwnsKept
    <2>4. BodiesInv(B)' /\ DownsInv' /\ ResetInv' /\ EffectsAreTracked'
      BY <1>2, <2>1, BodiesStep, DownsStep, ResetStep, EffectsStep DEF EffectsInv
    <2>5. Does(work, "squash")' = Does(work, "squash") /\ Does(work, "reset")' = Does(work, "reset")
          /\ Does(work, "generate")' = Does(work, "generate")
      BY <2>2 DEF Does, CommandsOf
    <2>6. (\E C : Owns(work, C) /\ BodiesInv(C))'
      BY <2>3, <2>4
    <2> QED BY <2>4, <2>5, <2>6 DEF EffectsInv
  <1> QED BY <1>1, <1>2, EffectsCrash DEF Next

\* Workloads whose migrations each have their own changes, without squash, and
\* with resets only where nothing is generated meanwhile.
OwnChanges(w) == /\ ~Does(w, "squash")
                 /\ Does(w, "reset") => ~Does(w, "generate")
                 /\ \E B : Owns(w, B)

\* The tracking table tells exactly what the schema has, however deployments,
\* rollbacks and resets meet, and whenever one of them dies.
THEOREM EffectsAreTrackedHolds == Spec /\ OwnChanges(work) => []EffectsAreTracked
  <1> DEFINE Inv == TypeOK /\ HasWork /\ EffectsInv
  <1>1. Init /\ OwnChanges(work) => Inv
    BY InitType, InitHasWork, InitEffects DEF OwnChanges
  <1>2. Inv /\ [Next]_vars => Inv'
    BY TypeStep, EffectsInvStep
  <1>3. Inv => EffectsAreTracked
    BY DEF EffectsInv
  <1> QED BY <1>1, <1>2, <1>3, PTL DEF Spec

\* Nor is a change ever made while it is in effect, unless a reset replays
\* changes that can be made twice.
THEOREM NoMigrationTwiceHolds ==
  Spec /\ OwnChanges(work) /\ (Does(work, "reset") => work.loose = {}) => []NoMigrationTwice
  <1> DEFINE Strict == Does(work, "reset") => work.loose = {}
             Inv == TypeOK /\ HasWork /\ EffectsInv /\ Strict /\ NoMigrationTwice
  <1>1. Init /\ OwnChanges(work) /\ Strict => Inv
    BY InitType, InitHasWork, InitEffects DEF OwnChanges, Init, NoMigrationTwice
  <1>2. Inv /\ [Next]_vars => Inv'
    <2> SUFFICES ASSUME Inv, [Next]_vars PROVE Strict' /\ NoMigrationTwice'
      BY TypeStep, EffectsInvStep
    <2>1. work' = work
      BY DEF Next, Step, Crash, vars
    <2>2. CASE UNCHANGED twice
      BY <2>1, <2>2 DEF NoMigrationTwice, Does, CommandsOf
    <2>3. ASSUME NEW p \in Procs, Step(p) PROVE NoMigrationTwice'
      BY <2>3, TwiceStep DEF EffectsInv
    <2> QED BY <2>1, <2>2, <2>3 DEF Next, vars, database, Crash, Does, CommandsOf
  <1> QED BY <1>1, <1>2, PTL DEF Spec
-----------------------------------------------------------------------------
(***************************************************************************)
(* The order of the applied migrations, where they are only applied, or    *)
(* only rolled back, while one process may generate more.                  *)
(***************************************************************************)

\* One process generates, and what it generates has new names.
NewNames(w) ==
  /\ \A p, q \in Procs : \A i \in DOMAIN w.scripts[p], j \in DOMAIN w.scripts[q] :
       w.scripts[p][i].do = "generate" /\ w.scripts[q][j].do = "generate" =>
         /\ p = q
         /\ w.scripts[p][i].name = w.scripts[q][j].name => i = j
  /\ \A c \in CommandsOf(w) : c.do = "generate" => c.name \notin Names(Range(w.journal))

Orderly(w) == /\ ~Does(w, "squash") /\ ~Does(w, "reset")
              /\ ~Does(w, "apply") \/ ~Does(w, "down")
              /\ NewNames(w)

Longer(s, t) == Len(t) <= Len(s) /\ \A i \in 1..Len(t) : s[i] = t[i]

\* t is picked from s at the places m.
Picks(m, s, t) == /\ m \in [1..Len(t) -> 1..Len(s)]
                  /\ \A k \in 1..Len(t) : t[k] = s[m[k]]
                  /\ \A k, l \in 1..Len(t) : k < l => m[k] < m[l]

\* The journal only grows, and a name that it has twice, since its generate
\* died and was run again, it has twice at its end.
JournalInv ==
  /\ Longer(journal, work.journal)
  /\ \A j \in DOMAIN journal : j > Len(work.journal)
                                 => journal[j].name \notin Names(Range(work.journal))
  /\ \A i, j, k \in DOMAIN journal :
       i < j /\ j < k /\ journal[i].name = journal[k].name => journal[j].name = journal[k].name
  /\ \A p \in Procs : \A i \in DOMAIN work.scripts[p] :
       i >= proc[p].at /\ work.scripts[p][i].do = "generate" =>
         \A k \in DOMAIN journal : journal[k].name = work.scripts[p][i].name =>
           /\ i = proc[p].at
           /\ \A l \in DOMAIN journal : k < l => journal[l].name = journal[k].name
  /\ Names(tracked) \subseteq Names(Range(journal))
  /\ Does(work, "down") => Names(tracked) \subseteq Names(Range(work.journal))

\* What a process has read of the journal, and what it will add to it.
ReadInv ==
  \A p \in Procs :
    /\ Longer(journal, proc[p].journal)
    /\ proc[p].pc # "start" => Longer(proc[p].journal, work.journal)
    /\ proc[p].pc \in {"file", "down", "journal"} =>
         /\ proc[p].at \in DOMAIN work.scripts[p] /\ Command(p).do = "generate"
         /\ proc[p].journal = journal /\ Head(proc[p].todo).name = Command(p).name

\* apply has all that is not applied left to do, in order.
LeftInv ==
  \A p \in Procs : proc[p].pc \in {"next", "up"} =>
    /\ proc[p].at \in DOMAIN work.scripts[p] /\ Command(p).do = "apply"
    /\ \E m :
         /\ Picks(m, proc[p].journal, proc[p].todo)
         /\ \A i \in 1..Len(proc[p].journal) :
              \/ proc[p].journal[i].name \in Names(tracked)
              \/ \E k \in 1..Len(proc[p].todo) : m[k] = i

\* down has all left to do that was applied after something it will undo.
UndoInv ==
  \A p \in Procs : proc[p].pc \in {"lock", "locked"} =>
    /\ proc[p].at \in DOMAIN work.scripts[p] /\ Command(p).do = "down"
    /\ \A i, j \in DOMAIN journal :
         /\ i < j /\ journal[j].name \in Names(tracked)
         /\ journal[i].name \in Names(Range(proc[p].todo))
         => journal[j].name \in Names(Range(proc[p].todo))

OrderInv == Orderly(work) /\ JournalInv /\ ReadInv /\ LeftInv /\ UndoInv /\ AppliedInOrder

LEMMA AppendFacts ==
  ASSUME NEW D, NEW s \in Seq(D), NEW x \in D
  PROVE  /\ Len(s) \in Nat /\ DOMAIN s = 1..Len(s) /\ Len(Append(s, x)) = Len(s) + 1
         /\ DOMAIN Append(s, x) = 1..(Len(s) + 1)
         /\ \A i \in 1..Len(s) : Append(s, x)[i] = s[i]
         /\ Append(s, x)[Len(s) + 1] = x
  OBVIOUS

\* Among picks its elements in their order, and all of them.
LEMMA AmongOrder ==
  ASSUME NEW D, NEW s \in Seq(D), NEW S
  PROVE  \E m : /\ Picks(m, s, Among(s, S))
                /\ \A i \in 1..Len(s) : s[i] \in S => \E k \in 1..Len(Among(s, S)) : m[k] = i
  <1>1. Len(s) \in Nat /\ DOMAIN s = 1..Len(s) /\ \A i \in 1..Len(s) : s[i] \in D
    OBVIOUS
  <1> DEFINE f == CHOOSE f : f = [i \in 0..Len(s) |->
                    IF i = 0 THEN <<>>
                    ELSE IF s[i] \in S THEN Append(f[i - 1], s[i]) ELSE f[i - 1]]
  <1>2. KeptTo(Len(s), f, s, S)
    <2>1. \E g : KeptTo(Len(s), g, s, S)
      BY <1>1, KeptExists
    <2> QED BY <2>1 DEF KeptTo
  <1>3. Among(s, S) = f[Len(s)]
    BY DEF Among
  <1> HIDE DEF f
  <1>4. \A i \in 0..Len(s) : f[i] = IF i = 0 THEN <<>>
          ELSE IF s[i] \in S THEN Append(f[i - 1], s[i]) ELSE f[i - 1]
    BY <1>2 DEF KeptTo
  <1> DEFINE Picked(n, t, m) ==
               /\ m \in [1..Len(t) -> 1..n]
               /\ \A k \in 1..Len(t) : t[k] = s[m[k]]
               /\ \A k, l \in 1..Len(t) : k < l => m[k] < m[l]
               /\ \A i \in 1..n : s[i] \in S => \E k \in 1..Len(t) : m[k] = i
             G == {n \in 0..Len(s) : f[n] \in Seq(D) /\ \E m : Picked(n, f[n], m)}
  <1>5. 0 \in G
    <2>1. f[0] = <<>> /\ 0 \in 0..Len(s) /\ 1..0 = {} /\ Len(<<>>) = 0 /\ <<>> \in Seq(D)
      BY <1>1, <1>4
    <2> DEFINE m == [k \in 1..0 |-> 0]
    <2>2. Picked(0, <<>>, m)
      BY <2>1
    <2> HIDE DEF m, Picked
    <2> QED BY <2>1, <2>2
  <1>6. ASSUME NEW n \in 0..Len(s), n \in G, n # Len(s) PROVE n + 1 \in G
    <2>1. n \in Nat /\ n + 1 \in 1..Len(s) /\ n + 1 \in 0..Len(s) /\ (n + 1) - 1 = n
          /\ s[n + 1] \in D
      <3> HIDE DEF G
      <3>1. Len(s) \in Nat
        BY <1>1
      <3>2. n \in Nat /\ n + 1 \in 1..Len(s) /\ n + 1 \in 0..Len(s) /\ (n + 1) - 1 = n
        BY <1>6, <3>1
      <3> QED BY <1>1, <3>2
    <2>2. PICK m : f[n] \in Seq(D) /\ Picked(n, f[n], m)
      BY <1>6
    <2>3. f[n + 1] = IF s[n + 1] \in S THEN Append(f[n], s[n + 1]) ELSE f[n]
      BY <1>4, <2>1
    <2> DEFINE t == f[n]
               u == Append(t, s[n + 1])
               L == Len(t)
    <2>4. /\ L \in Nat /\ Len(u) = L + 1 /\ u \in Seq(D)
          /\ \A k \in 1..L : u[k] = t[k]
          /\ u[L + 1] = s[n + 1]
      BY <2>1, <2>2
    <2>5. /\ m \in [1..L -> 1..n]
          /\ \A k \in 1..L : t[k] = s[m[k]]
          /\ \A k, l \in 1..L : k < l => m[k] < m[l]
          /\ \A i \in 1..n : s[i] \in S => \E k \in 1..L : m[k] = i
      BY <2>2
    <2> HIDE DEF t, u, L, G
    <2>6. CASE s[n + 1] \in S
      <3> DEFINE o == [k \in 1..(L + 1) |-> IF k = L + 1 THEN n + 1 ELSE m[k]]
      <3>1. \A k \in 1..(L + 1) : k # L + 1 => k \in 1..L
        BY <2>4
      <3>2. /\ \A k \in 1..L : o[k] = m[k] /\ o[k] \in 1..n
            /\ o[L + 1] = n + 1 /\ L + 1 \in 1..(L + 1) /\ \A k \in 1..L : k \in 1..(L + 1)
        BY <2>4, <2>5
      <3>3. o \in [1..(L + 1) -> 1..(n + 1)]
        <4>1. \A k \in 1..(L + 1) : o[k] \in 1..(n + 1)
          <5>1. 1..n \subseteq 1..(n + 1) /\ n + 1 \in 1..(n + 1)
            BY <2>1
          <5> QED BY <3>1, <3>2, <5>1
        <4>2. o = [k \in 1..(L + 1) |-> o[k]]
          OBVIOUS
        <4> QED BY <4>1, <4>2
      <3> HIDE DEF o
      <3>4. \A k \in 1..(L + 1) : u[k] = s[o[k]]
        BY <2>4, <2>5, <3>1, <3>2
      <3>5. ASSUME NEW k \in 1..(L + 1), NEW l \in 1..(L + 1), k < l PROVE o[k] < o[l]
        <4>1. k \in 1..L
          BY <2>4, <3>5
        <4>2. CASE l = L + 1
          <5>1. o[k] \in 1..n /\ o[l] = n + 1
            BY <3>2, <4>1, <4>2
          <5> QED BY <2>1, <5>1
        <4>3. CASE l # L + 1
          BY <2>5, <3>1, <3>2, <3>5, <4>1, <4>3
        <4> QED BY <4>2, <4>3
      <3>6. ASSUME NEW i \in 1..(n + 1), s[i] \in S PROVE \E k \in 1..(L + 1) : o[k] = i
        <4>1. CASE i = n + 1
          BY <3>2, <4>1
        <4>2. CASE i # n + 1
          <5>1. i \in 1..n
            BY <2>1, <4>2
          <5> QED BY <2>5, <3>2, <3>6, <5>1
        <4> QED BY <4>1, <4>2
      <3>7. Picked(n + 1, u, o)
        BY <2>4, <3>3, <3>4, <3>5, <3>6
      <3>8. f[n + 1] = u
        BY <2>3, <2>6 DEF u, t
      <3> HIDE DEF Picked
      <3> QED BY <2>1, <2>4, <3>7, <3>8 DEF G
    <2>7. CASE s[n + 1] \notin S
      <3>1. m \in [1..L -> 1..(n + 1)]
        <4>1. 1..n \subseteq 1..(n + 1)
          BY <2>1
        <4> QED BY <2>5, <4>1
      <3>2. \A i \in 1..(n + 1) : s[i] \in S => i \in 1..n
        BY <2>1, <2>7
      <3>3. Picked(n + 1, t, m)
        BY <2>5, <3>1, <3>2 DEF L
      <3>4. f[n + 1] = t /\ t \in Seq(D)
        BY <2>2, <2>3, <2>7 DEF t
      <3> HIDE DEF Picked
      <3> QED BY <2>1, <3>3, <3>4 DEF G
    <2> QED BY <2>6, <2>7
  <1>7. Len(s) \in G
    <2> HIDE DEF G
    <2>1. 0..Len(s) \subseteq G
      BY <1>1, <1>5, <1>6, Induction
    <2> QED BY <1>1, <2>1
  <1> QED BY <1>3, <1>7 DEF Picks

\* The names in the tracking table, and the journal, after a step.
LEMMA TrackedNames ==
  ASSUME TypeOK, HasWork, ~Does(work, "squash"), ~Does(work, "reset"), NEW p \in Procs, Step(p)
  PROVE  \/ tracked' = tracked /\ ~(RunUp(p) /\ proc'[p].pc = "next")
         \/ /\ RunUp(p) /\ journal' = journal /\ proc[p].todo # <<>>
            /\ proc'[p].pc = "next" /\ proc'[p].todo = Tail(proc[p].todo)
            /\ Head(proc[p].todo).name \notin Names(tracked)
            /\ Names(tracked') = Names(tracked) \cup {Head(proc[p].todo).name}
         \/ /\ RunDown(p) /\ journal' = journal
            /\ Names(tracked') = Names(tracked) \ Names(Range(proc[p].todo))
  <1>1. proc[p] \in ProcStates /\ proc \in [Procs -> ProcStates]
    BY DEF TypeOK
  <1>2. ~Rerun(p)
    BY CommandGiven DEF Rerun, Runs, Does
  <1>3. CASE UNCHANGED database /\ ~RunUp(p)
    BY <1>3 DEF database
  <1>4. CASE RunUp(p)
    <2> DEFINE head == Head(proc[p].todo)
               e == [head EXCEPT !.body = proc[p].content]
               db == Migrate(Now, e)
    <2>1. proc[p].todo \in Seq(Entries) /\ proc[p].todo # <<>>
      BY <1>1, <1>4 DEF RunUp, Runs, HasWork, ProcStates
    <2>2. head \in Entries
      BY <2>1, HeadFacts
    <2>3. e.name = head.name
      BY <2>2 DEF Entries
    <2>4. \/ Fail(p) /\ UNCHANGED database
          \/ /\ db.ok /\ tracked' = db.tracked
             /\ proc' = [proc EXCEPT ![p].pc = "next", ![p].todo = Tail(@)]
      BY <1>4 DEF RunUp, Commit
    <2>5. journal' = journal
      BY <1>4 DEF RunUp, directory
    <2>6. proc' = [proc EXCEPT ![p].pc = "next", ![p].todo = Tail(@)]
            => proc'[p].pc = "next" /\ proc'[p].todo = Tail(proc[p].todo)
      BY <1>1 DEF ProcStates
    <2>9. Fail(p) => proc'[p].pc = "failed"
      BY <1>1 DEF Fail, ProcStates
    <2> HIDE DEF e, head
    <2>7. db.ok => e.name \notin Names(tracked) /\ db.tracked = tracked \cup {RowOf(e)}
      BY DEF Migrate, Now
    <2> HIDE DEF db
    <2>8. RowOf(e).name = e.name
      BY DEF RowOf
    <2>10. CASE Fail(p) /\ UNCHANGED database
      BY <2>9, <2>10 DEF database
    <2>11. CASE /\ db.ok /\ tracked' = db.tracked
                /\ proc' = [proc EXCEPT ![p].pc = "next", ![p].todo = Tail(@)]
      BY <1>4, <2>1, <2>3, <2>5, <2>6, <2>7, <2>8, <2>11 DEF Names, head
    <2> QED BY <2>4, <2>10, <2>11
  <1>5. CASE RunDown(p)
    <2>0. ~RunUp(p)
      BY <1>5 DEF RunDown, RunUp, Runs
    <2>1. tracked' = tracked
            \/ tracked' = {row \in tracked : row.name \notin Names(Range(proc[p].todo))}
      BY <1>5 DEF RunDown
    <2>2. journal' = journal
      BY <1>5 DEF RunDown, directory
    <2>3. CASE tracked' = {row \in tracked : row.name \notin Names(Range(proc[p].todo))}
      <3> DEFINE gone == Names(Range(proc[p].todo))
      <3> HIDE DEF gone
      <3>1. tracked' = {row \in tracked : row.name \notin gone}
        BY <2>3 DEF gone
      <3>2. {row.name : row \in tracked'} = {row.name : row \in tracked} \ gone
        BY <3>1
      <3>3. Names(tracked') = Names(tracked) \ gone
        BY <3>2 DEF Names
      <3> QED BY <1>5, <2>2, <3>3 DEF gone
    <2> QED BY <2>0, <2>1, <2>3
  <1> QED BY <1>2, <1>3, <1>4, <1>5, StepWrites

LEMMA JournalGrows ==
  ASSUME TypeOK, HasWork, ~Does(work, "squash"), ReadInv, NEW p \in Procs, Step(p)
  PROVE  \/ journal' = journal
         \/ \E e \in Entries :
              /\ journal' = Append(journal, e) /\ e.name = Command(p).name
              /\ Command(p).do = "generate" /\ proc[p].pc = "journal"
              /\ tracked' = tracked /\ proc'[p].pc = "snapshot"
              /\ proc'[p].at = proc[p].at /\ proc'[p].journal = proc[p].journal
  <1>1. CASE journal' # journal
    <2>1. /\ WriteJournal(p) /\ Runs(p, "journal", {"generate"})
          /\ Becoming(p, [proc[p] EXCEPT !.pc = "snapshot"])
          /\ journal' = Append(proc[p].journal, Head(proc[p].todo))
      BY <1>1, StepWrites
    <2>2. /\ proc[p] \in ProcStates /\ proc[p].pc = "journal" /\ Command(p).do = "generate"
          /\ proc \in [Procs -> ProcStates]
      BY <2>1 DEF Runs, TypeOK
    <2>3. proc[p].todo # <<>> /\ proc[p].todo \in Seq(Entries)
      BY <2>2 DEF HasWork, ProcStates
    <2>4. Head(proc[p].todo) \in Entries
      BY <2>3, HeadFacts
    <2>5. proc[p].journal = journal /\ Head(proc[p].todo).name = Command(p).name
      BY <2>2 DEF ReadInv
    <2>6. tracked' = tracked
      BY <2>1 DEF WriteJournal, database
    <2>7. /\ proc'[p].pc = "snapshot" /\ proc'[p].at = proc[p].at
          /\ proc'[p].journal = proc[p].journal
      BY <2>1, <2>2 DEF Becoming, ProcStates
    <2> QED BY <2>1, <2>2, <2>4, <2>5, <2>6, <2>7
  <1> QED BY <1>1

\* A script goes on, command after command.
LEMMA AtGrows ==
  ASSUME TypeOK, HasWork, ~Does(work, "squash"), NEW p \in Procs, Step(p), NEW q \in Procs
  PROVE  /\ proc[q].at \in Nat \ {0}
         /\ proc'[q].at = proc[q].at \/ (proc'[q].at = proc[q].at + 1 /\ proc'[q].pc = "start")
  <1>1. proc[q] \in ProcStates /\ \A r \in Procs \ {p} : proc'[r] = proc[r]
    BY MovesType DEF TypeOK
  <1>2. /\ Fresh(proc[p].at + 1).at = proc[p].at + 1
        /\ Fresh(proc[p].at + 1).pc = "start"
    BY DEF Fresh
  <1>3. proc[q].at \in Nat \ {0}
    BY <1>1 DEF ProcStates
  <1> QED BY <1>1, <1>2, <1>3, HandJournal

\* The first of what was picked from the journal as it was read is in the journal.
LEMMA PickedHead ==
  ASSUME TypeOK, NEW p \in Procs, NEW m, Picks(m, proc[p].journal, proc[p].todo),
         Longer(journal, proc[p].journal), proc[p].todo # <<>>
  PROVE  /\ m[1] \in DOMAIN journal /\ m[1] \in 1..Len(proc[p].journal)
         /\ Head(proc[p].todo) = journal[m[1]] /\ Head(proc[p].todo) = proc[p].journal[m[1]]
         /\ Head(proc[p].todo).name \in Names(Range(journal))
  <1>1. /\ proc[p].todo \in Seq(Entries) /\ proc[p].journal \in Seq(Entries)
        /\ journal \in Seq(Entries)
    BY DEF TypeOK, ProcStates
  <1>2. 1 \in 1..Len(proc[p].todo) /\ Head(proc[p].todo) = proc[p].todo[1]
    BY <1>1
  <1>3. /\ m[1] \in 1..Len(proc[p].journal)
        /\ Head(proc[p].todo) = proc[p].journal[m[1]]
    BY <1>2 DEF Picks
  <1>4. /\ Len(proc[p].journal) \in Nat /\ Len(journal) \in Nat /\ DOMAIN journal = 1..Len(journal)
        /\ Len(proc[p].journal) <= Len(journal)
    BY <1>1 DEF Longer
  <1>5. m[1] \in DOMAIN journal
    BY <1>3, <1>4
  <1>6. Head(proc[p].todo) = journal[m[1]]
    BY <1>3 DEF Longer
  <1> QED BY <1>3, <1>5, <1>6 DEF Names, Range

LEMMA JournalStep ==
  ASSUME TypeOK, HasWork, Orderly(work), JournalInv, ReadInv, LeftInv, NEW p \in Procs, Step(p)
  PROVE  JournalInv'
  <1>1. ~Does(work, "squash") /\ ~Does(work, "reset") /\ NewNames(work)
    BY DEF Orderly
  <1>2. /\ work' = work /\ journal \in Seq(Entries) /\ Command(p) \in CommandsOf(work)
        /\ proc[p].at \in DOMAIN work.scripts[p]
        /\ Does(work, "down")' = Does(work, "down")
    BY CommandGiven, StepRuns DEF TypeOK, Does, CommandsOf
  <1>3. Len(journal) \in Nat /\ DOMAIN journal = 1..Len(journal)
    BY <1>2
  <1>4. /\ Len(work.journal) <= Len(journal) /\ \A i \in 1..Len(work.journal) : journal[i] = work.journal[i]
        /\ \A j \in DOMAIN journal : j > Len(work.journal)
                                       => journal[j].name \notin Names(Range(work.journal))
        /\ \A i, j, k \in DOMAIN journal :
             i < j /\ j < k /\ journal[i].name = journal[k].name => journal[j].name = journal[k].name
        /\ Names(tracked) \subseteq Names(Range(journal))
        /\ Does(work, "down") => Names(tracked) \subseteq Names(Range(work.journal))
    BY DEF JournalInv, Longer
  <1>5. ASSUME NEW q \in Procs, NEW i \in DOMAIN work.scripts[q], i >= proc[q].at,
               work.scripts[q][i].do = "generate",
               NEW k \in DOMAIN journal, journal[k].name = work.scripts[q][i].name
        PROVE  /\ i = proc[q].at
               /\ \A l \in DOMAIN journal : k < l => journal[l].name = journal[k].name
    BY <1>5 DEF JournalInv
  <1>6. \A q \in Procs : \A i \in DOMAIN work.scripts[q] : i \in Nat
    <2>1. \A q \in Procs : work.scripts[q] \in Seq(Commands)
      BY WorkloadsAssumption DEF TypeOK
    <2> QED BY <2>1
  <1>7. CASE journal' = journal
    <2>1. ASSUME NEW q \in Procs, NEW i \in DOMAIN work.scripts[q], i >= proc'[q].at,
                 work.scripts[q][i].do = "generate",
                 NEW k \in DOMAIN journal, journal[k].name = work.scripts[q][i].name
          PROVE  /\ i = proc'[q].at
                 /\ \A l \in DOMAIN journal : k < l => journal[l].name = journal[k].name
      <3>1. /\ proc[q].at \in Nat
            /\ proc'[q].at = proc[q].at \/ proc'[q].at = proc[q].at + 1
        BY <1>1, AtGrows
      <3>2. i \in Nat
        BY <1>6
      <3>3. i >= proc[q].at
        BY <2>1, <3>1, <3>2
      <3>4. /\ i = proc[q].at
            /\ \A l \in DOMAIN journal : k < l => journal[l].name = journal[k].name
        BY <1>5, <2>1, <3>3
      <3>5. proc'[q].at = proc[q].at
        BY <2>1, <3>1, <3>4
      <3> QED BY <3>4, <3>5
    <2>2. /\ Names(tracked)' \subseteq Names(Range(journal))
          /\ Does(work, "down") => Names(tracked)' \subseteq Names(Range(work.journal))
      <3>1. Names(tracked)' = Names(tracked')
        BY DEF Names
      <3>2. CASE tracked' = tracked
        BY <1>4, <3>1, <3>2
      <3>3. CASE RunDown(p) /\ Names(tracked') = Names(tracked) \ Names(Range(proc[p].todo))
        BY <1>4, <3>1, <3>3
      <3>4. CASE /\ RunUp(p) /\ proc[p].todo # <<>>
                 /\ Names(tracked') = Names(tracked) \cup {Head(proc[p].todo).name}
        <4>1. ~Does(work, "down")
          BY <1>2, <3>4 DEF Orderly, Does, RunUp, Runs
        <4>2. PICK m : Picks(m, proc[p].journal, proc[p].todo)
          BY <3>4 DEF LeftInv, RunUp, Runs
        <4>3. Head(proc[p].todo).name \in Names(Range(journal))
          BY <3>4, <4>2, PickedHead DEF ReadInv
        <4> QED BY <1>4, <3>1, <3>4, <4>1, <4>3
      <3> QED BY <1>1, <3>2, <3>3, <3>4, TrackedNames
    <2>3. \A q \in Procs : \A i \in DOMAIN work'.scripts[q] :
            i >= proc'[q].at /\ work'.scripts[q][i].do = "generate" =>
              \A k \in DOMAIN journal' : journal'[k].name = work'.scripts[q][i].name =>
                /\ i = proc'[q].at
                /\ \A l \in DOMAIN journal' : k < l => journal'[l].name = journal'[k].name
      BY <1>2, <1>7, <2>1
    <2>4. /\ Longer(journal, work.journal)'
          /\ (\A j \in DOMAIN journal : j > Len(work.journal)
                                       => journal[j].name \notin Names(Range(work.journal)))'
          /\ (\A i, j, k \in DOMAIN journal :
                i < j /\ j < k /\ journal[i].name = journal[k].name
                => journal[j].name = journal[k].name)'
      BY <1>2, <1>4, <1>7 DEF Longer, Names
    <2>5. (Names(tracked) \subseteq Names(Range(journal)))'
          /\ (Does(work, "down") => Names(tracked) \subseteq Names(Range(work.journal)))'
      BY <1>2, <1>7, <2>2 DEF Names
    <2> QED BY <2>3, <2>4, <2>5 DEF JournalInv
  <1>8. ASSUME NEW e \in Entries, journal' = Append(journal, e), e.name = Command(p).name,
               Command(p).do = "generate", tracked' = tracked, proc'[p].at = proc[p].at
        PROVE  JournalInv'
    <2>1. /\ Len(journal') = Len(journal) + 1 /\ DOMAIN journal' = 1..(Len(journal) + 1)
          /\ \A i \in 1..Len(journal) : journal'[i] = journal[i]
          /\ journal'[Len(journal) + 1] = e
          /\ Range(journal') = Range(journal) \cup {e}
      BY <1>2, <1>8, AppendFacts, RangeOfAppend
    <2>2. Len(work.journal) \in Nat
      BY WorkloadsAssumption DEF TypeOK
    <2>3. \A i \in DOMAIN journal' : i \in DOMAIN journal \/ i = Len(journal) + 1
      BY <1>3, <2>1
    <2>4. Longer(journal', work.journal)
      <3>1. \A i \in 1..Len(work.journal) : i \in 1..Len(journal)
        BY <1>3, <1>4, <2>2
      <3>2. Len(work.journal) <= Len(journal')
        BY <1>3, <1>4, <2>1, <2>2
      <3> QED BY <1>4, <2>1, <3>1, <3>2 DEF Longer
    <2>5. ASSUME NEW j \in DOMAIN journal', j > Len(work.journal)
          PROVE  journal'[j].name \notin Names(Range(work.journal))
      <3>1. e.name \notin Names(Range(work.journal))
        BY <1>1, <1>2, <1>8 DEF NewNames
      <3> QED BY <1>3, <1>4, <2>1, <2>3, <2>5, <3>1
    <2>6. work.scripts[p][proc[p].at] = Command(p) /\ proc[p].at >= proc[p].at
      <3>1. proc[p].at \in Nat
        BY <1>1, AtGrows
      <3> QED BY <3>1 DEF Command
    <2>7. ASSUME NEW i \in DOMAIN journal, journal[i].name = e.name
          PROVE  \A l \in DOMAIN journal : i < l => journal[l].name = e.name
      BY <1>2, <1>5, <1>8, <2>6, <2>7
    <2>8. ASSUME NEW i \in DOMAIN journal', NEW j \in DOMAIN journal', NEW k \in DOMAIN journal',
                 i < j, j < k, journal'[i].name = journal'[k].name
          PROVE  journal'[j].name = journal'[k].name
      <3>1. i \in DOMAIN journal /\ j \in DOMAIN journal
        BY <1>3, <2>1, <2>8
      <3>2. CASE k \in DOMAIN journal
        BY <1>3, <1>4, <2>1, <2>8, <3>1, <3>2
      <3>3. CASE k = Len(journal) + 1
        BY <1>3, <2>1, <2>7, <2>8, <3>1, <3>3
      <3> QED BY <2>3, <3>2, <3>3
    <2>9. \A q \in Procs : proc'[q].at = proc[q].at
      BY <1>8, MovesType
    <2>10. ASSUME NEW q \in Procs, NEW i \in DOMAIN work.scripts[q], i >= proc[q].at,
                  work.scripts[q][i].do = "generate",
                  NEW k \in DOMAIN journal', journal'[k].name = work.scripts[q][i].name
           PROVE  /\ i = proc[q].at
                  /\ \A l \in DOMAIN journal' : k < l => journal'[l].name = journal'[k].name
      <3>1. p = q /\ (work.scripts[q][i].name = Command(p).name => i = proc[q].at)
        BY <1>1, <1>2, <1>8, <2>6, <2>10 DEF NewNames
      <3>2. CASE k = Len(journal) + 1
        <4>1. i = proc[q].at
          BY <1>8, <2>1, <2>10, <3>1, <3>2
        <4>2. \A l \in DOMAIN journal' : ~(k < l)
          BY <1>3, <2>1, <3>2
        <4> QED BY <4>1, <4>2
      <3>3. CASE k \in DOMAIN journal
        <4>1. journal[k].name = work.scripts[q][i].name
          BY <1>3, <2>1, <2>10, <3>3
        <4>2. /\ i = proc[q].at
              /\ \A l \in DOMAIN journal : k < l => journal[l].name = journal[k].name
          BY <1>5, <2>10, <3>3, <4>1
        <4>3. e.name = journal[k].name
          BY <1>8, <2>6, <3>1, <4>1, <4>2
        <4> QED BY <1>3, <2>1, <2>3, <3>3, <4>2, <4>3
      <3> QED BY <2>3, <3>2, <3>3
    <2>11. \A q \in Procs : \A i \in DOMAIN work'.scripts[q] :
             i >= proc'[q].at /\ work'.scripts[q][i].do = "generate" =>
               \A k \in DOMAIN journal' : journal'[k].name = work'.scripts[q][i].name =>
                 /\ i = proc'[q].at
                 /\ \A l \in DOMAIN journal' : k < l => journal'[l].name = journal'[k].name
      BY <1>2, <2>9, <2>10
    <2>12. /\ Longer(journal, work.journal)'
           /\ (\A j \in DOMAIN journal : j > Len(work.journal)
                                        => journal[j].name \notin Names(Range(work.journal)))'
           /\ (\A i, j, k \in DOMAIN journal :
                 i < j /\ j < k /\ journal[i].name = journal[k].name
                 => journal[j].name = journal[k].name)'
      <3>1. Names(Range(work.journal))' = Names(Range(work.journal))
        BY <1>2 DEF Names
      <3>2. Longer(journal, work.journal)'
        BY <1>2, <2>4 DEF Longer
      <3> QED BY <1>2, <2>5, <2>8, <3>1, <3>2
    <2>13. Names(tracked)' = Names(tracked) /\ Names(Range(work.journal))' = Names(Range(work.journal))
      BY <1>2, <1>8 DEF Names
    <2>14. Names(Range(journal)) \subseteq Names(Range(journal))'
      BY <2>1 DEF Names
    <2> QED BY <1>2, <1>4, <2>11, <2>12, <2>13, <2>14 DEF JournalInv
  <1> QED BY <1>1, <1>7, <1>8, JournalGrows

\* The step that brought a process where it is.
LEMMA CameFrom ==
  ASSUME TypeOK, HasWork, Orderly(work), NEW p \in Procs, Step(p), proc'[p].pc # "start"
  PROVE  /\ proc'[p].at = proc[p].at
         /\ proc'[p].journal = IF proc[p].pc = "start" THEN journal ELSE proc[p].journal
         /\ proc'[p].pc = "next" => \/ ReadTracked(p) /\ proc'[p].todo = Pending(p)
                                    \/ RunUp(p)
         /\ proc'[p].pc = "up" => ReadFile(p) /\ proc'[p].todo = proc[p].todo
         /\ proc'[p].pc = "lock" => PlanDown(p) /\ proc'[p].todo = ToUndo(p)
         /\ proc'[p].pc = "locked" => Lock(p) /\ proc'[p].todo = proc[p].todo
         /\ proc'[p].pc = "file" => Diff(p) /\ proc'[p].todo = <<NewEntry(p)>>
         /\ proc'[p].pc = "down" => WriteFile(p) /\ proc'[p].todo = proc[p].todo
         /\ proc'[p].pc = "journal" => WriteDown(p) /\ proc'[p].todo = proc[p].todo
  <1>1. proc[p] \in ProcStates /\ proc \in [Procs -> ProcStates]
    BY DEF TypeOK
  <1>2. ASSUME NEW v, Becoming(p, v) PROVE proc'[p] = v
    BY <1>1, <1>2 DEF Becoming
  <1>3. ~Does(work, "squash") /\ Command(p).do # "squash" /\ Command(p).do # "reset"
    BY CommandGiven DEF Orderly, Does
  <1>4. proc'[p] # Fresh(proc[p].at + 1)
    BY DEF Fresh
  <1>5. /\ proc'[p].at = proc[p].at
        /\ proc'[p].journal = IF proc[p].pc = "start" THEN journal ELSE proc[p].journal
    BY <1>3, <1>4, HandJournal
  <1>6. CASE Onward(p)
    <2>1. PICK pc, ok :
            /\ Becoming(p, [proc[p] EXCEPT !.pc = pc, !.ok = ok])
            /\ pc \in {"locked", "unlock", "clear", "rerun", "retrack", "file", "down", "journal",
                       "snapshot", "archive", "failed"}
            /\ pc = "locked" => Lock(p)
            /\ pc = "down" => WriteFile(p) /\ Command(p).do = "generate"
            /\ pc \in {"file", "journal"} => WriteDown(p) \/ Command(p).do = "squash"
      BY <1>6 DEF Onward
    <2>2. proc'[p].pc = pc /\ proc'[p].todo = proc[p].todo
      BY <1>1, <1>2, <2>1 DEF ProcStates
    <2>3. pc # "file"
      <3>1. ASSUME WriteDown(p) PROVE pc # "file"
        <4>1. proc' = [proc EXCEPT ![p].pc = "journal"]
          BY <3>1 DEF WriteDown, Go
        <4>2. proc'[p].pc = "journal"
          BY <1>1, <4>1 DEF ProcStates
        <4> QED BY <2>2, <4>2
      <3> QED BY <1>3, <2>1, <3>1
    <2> QED BY <1>3, <1>5, <2>1, <2>2, <2>3
  <1>7. CASE Reads(p) /\ ~Archive(p)
    <2>1. \/ proc'[p].pc \in {"tracked", "clear", "rerun", "retrack"}
          \/ proc'[p].pc = "next" /\ ReadTracked(p) /\ proc'[p].todo = Pending(p)
          \/ proc'[p].pc = "next" /\ RunUp(p)
          \/ proc'[p].pc = "up" /\ ReadFile(p) /\ proc'[p].todo = proc[p].todo
          \/ proc'[p].pc = "lock" /\ PlanDown(p) /\ proc'[p].todo = ToUndo(p)
          \/ proc'[p].pc = "file" /\ Diff(p) /\ proc'[p].todo = <<NewEntry(p)>>
      BY <1>1, <1>2, <1>3, <1>7 DEF Reads, ProcStates
    <2> QED BY <1>5, <2>1
  <1> QED BY <1>2, <1>3, <1>4, <1>6, <1>7, StepHolds

\* A journal that has grown is longer than what was read of it before.
LEMMA LongerGrows ==
  ASSUME TypeOK, NEW t \in Seq(Entries), Longer(journal, t),
         journal' = journal \/ \E e \in Entries : journal' = Append(journal, e)
  PROVE  Longer(journal', t)
  <1>1. CASE journal' = journal
    BY <1>1
  <1>2. ASSUME NEW e \in Entries, journal' = Append(journal, e) PROVE Longer(journal', t)
    <2>1. /\ journal \in Seq(Entries) /\ Len(t) \in Nat
      BY DEF TypeOK
    <2>2. /\ Len(journal) \in Nat /\ Len(journal') = Len(journal) + 1
          /\ \A i \in 1..Len(journal) : journal'[i] = journal[i]
      BY <1>2, <2>1, AppendFacts
    <2>3. Len(t) <= Len(journal') /\ \A i \in 1..Len(t) : i \in 1..Len(journal)
      BY <2>1, <2>2 DEF Longer
    <2> QED BY <2>2, <2>3 DEF Longer
  <1> QED BY <1>1, <1>2

LEMMA LongerFacts ==
  ASSUME NEW s \in Seq(Entries)
  PROVE  Longer(s, s) /\ Longer(s, <<>>)
  <1>1. Len(s) \in Nat /\ Len(<<>>) = 0 /\ 1..0 = {}
    OBVIOUS
  <1> QED BY <1>1 DEF Longer

LEMMA ReadStep ==
  ASSUME TypeOK, HasWork, Orderly(work), JournalInv, ReadInv, NEW p \in Procs, Step(p)
  PROVE  ReadInv'
  <1>1. /\ ~Does(work, "squash") /\ work' = work /\ NewNames(work)
        /\ \A q \in Procs \ {p} : proc'[q] = proc[q]
        /\ Command(p) \in CommandsOf(work) /\ proc[p].at \in DOMAIN work.scripts[p]
    BY MovesType, CommandGiven, StepRuns DEF Orderly
  <1>2. \A q \in Procs : proc[q].journal \in Seq(Entries) /\ journal \in Seq(Entries)
    BY DEF TypeOK, ProcStates
  <1>3. journal' = journal \/ \E e \in Entries : journal' = Append(journal, e)
    BY <1>1, JournalGrows
  <1>4. Fresh(proc[p].at + 1).journal = <<>> /\ Fresh(proc[p].at + 1).pc = "start"
    BY DEF Fresh
  <1>5. ASSUME NEW q \in Procs PROVE Longer(journal', proc'[q].journal)
    <2>1. proc'[q].journal \in {<<>>, journal, proc[q].journal}
      BY <1>1, <1>4, HandJournal
    <2>2. /\ proc'[q].journal \in Seq(Entries) /\ Longer(journal, proc'[q].journal)
      <3>1. <<>> \in Seq(Entries) /\ Longer(journal, journal) /\ Longer(journal, <<>>)
        BY <1>2, LongerFacts
      <3>2. Longer(journal, proc[q].journal)
        BY DEF ReadInv
      <3> QED BY <1>2, <2>1, <3>1, <3>2
    <2> QED BY <1>3, <2>2, LongerGrows
  <1>6. ASSUME NEW q \in Procs, proc'[q].pc # "start"
        PROVE  Longer(proc'[q].journal, work.journal)
    <2>1. \/ proc'[q].journal = journal
          \/ proc'[q].journal = proc[q].journal /\ proc[q].pc # "start"
      BY <1>1, <1>4, <1>6, HandJournal
    <2> QED BY <2>1 DEF JournalInv, ReadInv
  <1>7. ASSUME NEW q \in Procs, proc'[q].pc \in {"file", "down", "journal"}
        PROVE  /\ proc'[q].at \in DOMAIN work.scripts[q]
               /\ work.scripts[q][proc'[q].at].do = "generate"
               /\ proc'[q].journal = journal'
               /\ Head(proc'[q].todo).name = work.scripts[q][proc'[q].at].name
    <2>1. CASE q = p
      <3>1. /\ proc'[p].at = proc[p].at
            /\ proc'[p].journal = IF proc[p].pc = "start" THEN journal ELSE proc[p].journal
        BY <1>7, <2>1, CameFrom
      <3>2. journal' = journal
        BY <1>1, <1>7, <2>1, JournalGrows
      <3>3. CASE proc'[p].pc = "file"
        <4>1. Diff(p) /\ proc'[p].todo = <<NewEntry(p)>>
          BY <3>3, CameFrom
        <4>2. Command(p).do = "generate" /\ proc[p].pc = "start"
          BY <4>1 DEF Diff, Runs
        <4>3. Head(proc'[p].todo) = NewEntry(p)
          BY <4>1
        <4>4. NewEntry(p).name = Command(p).name
          BY DEF NewEntry
        <4> QED BY <1>1, <2>1, <3>1, <3>2, <4>2, <4>3, <4>4 DEF Command
      <3>4. CASE proc'[p].pc \in {"down", "journal"}
        <4>1. proc'[p].todo = proc[p].todo /\ (WriteFile(p) \/ WriteDown(p))
          BY <3>4, CameFrom
        <4>2. proc[p].pc \in {"file", "down"}
          BY <4>1 DEF WriteFile, WriteDown, Runs
        <4>3. /\ Command(p).do = "generate"
              /\ proc[p].journal = journal /\ Head(proc[p].todo).name = Command(p).name
          BY <4>2 DEF ReadInv
        <4> QED BY <1>1, <2>1, <3>1, <3>2, <4>1, <4>2, <4>3 DEF Command
      <3> QED BY <1>7, <2>1, <3>3, <3>4
    <2>2. CASE q # p
      <3>1. /\ proc'[q] = proc[q] /\ proc[q].at \in DOMAIN work.scripts[q]
            /\ Command(q).do = "generate"
            /\ proc[q].journal = journal /\ Head(proc[q].todo).name = Command(q).name
        BY <1>1, <1>7, <2>2 DEF ReadInv
      <3>2. Command(p).do # "generate"
        BY <1>1, <2>2, <3>1 DEF NewNames, Command
      <3>3. journal' = journal
        BY <1>1, <3>2, JournalGrows
      <3> QED BY <3>1, <3>3 DEF Command
    <2> QED BY <2>1, <2>2
  <1> QED BY <1>1, <1>5, <1>6, <1>7 DEF ReadInv, Command, Longer

\* Names in the tracking table that a step leaves, and adds.
LEMMA NamesMove ==
  ASSUME TypeOK, HasWork, Orderly(work), NEW p \in Procs, Step(p)
  PROVE  /\ ~Does(work, "down") => Names(tracked) \subseteq Names(tracked')
         /\ ~Does(work, "apply") => Names(tracked') \subseteq Names(tracked)
  <1>1. ~Does(work, "squash") /\ ~Does(work, "reset")
    BY DEF Orderly
  <1>2. (RunUp(p) => Does(work, "apply")) /\ (RunDown(p) => Does(work, "down"))
    BY CommandGiven DEF RunUp, RunDown, Runs, Does
  <1> QED BY <1>1, <1>2, TrackedNames

\* Without the first, what was picked is picked at the later places.
LEMMA PicksTail ==
  ASSUME NEW s \in Seq(Entries), NEW t \in Seq(Entries), t # <<>>, NEW m, Picks(m, s, t)
  PROVE  \E o : /\ Picks(o, s, Tail(t))
                /\ \A k \in 1..Len(t) : k # 1 => \E l \in 1..Len(Tail(t)) : o[l] = m[k]
  <1> DEFINE o == [l \in 1..Len(Tail(t)) |-> m[l + 1]]
  <1>1. /\ Len(t) \in Nat /\ Len(t) # 0 /\ Len(Tail(t)) = Len(t) - 1
        /\ \A l \in 1..(Len(t) - 1) : Tail(t)[l] = t[l + 1]
    OBVIOUS
  <1>2. \A l \in 1..Len(Tail(t)) : l + 1 \in 1..Len(t) /\ l \in 1..(Len(t) - 1)
    <2>1. Len(t) \in Nat /\ Len(Tail(t)) = Len(t) - 1
      BY <1>1
    <2> QED BY <2>1
  <1>3. /\ m \in [1..Len(t) -> 1..Len(s)]
        /\ \A k \in 1..Len(t) : t[k] = s[m[k]]
        /\ \A k, l \in 1..Len(t) : k < l => m[k] < m[l]
    BY DEF Picks
  <1>4. o \in [1..Len(Tail(t)) -> 1..Len(s)] /\ \A l \in 1..Len(Tail(t)) : o[l] = m[l + 1]
    BY <1>2, <1>3
  <1> HIDE DEF o
  <1>5. \A l \in 1..Len(Tail(t)) : Tail(t)[l] = s[o[l]]
    BY <1>1, <1>2, <1>3, <1>4
  <1>6. ASSUME NEW k \in 1..Len(Tail(t)), NEW l \in 1..Len(Tail(t)), k < l PROVE o[k] < o[l]
    <2>1. k + 1 < l + 1
      <3>1. k \in Int /\ l \in Int
        OBVIOUS
      <3> QED BY <1>6, <3>1
    <2> QED BY <1>2, <1>3, <1>4, <2>1
  <1>7. ASSUME NEW k \in 1..Len(t), k # 1 PROVE \E l \in 1..Len(Tail(t)) : o[l] = m[k]
    <2>1. k - 1 \in 1..Len(Tail(t)) /\ (k - 1) + 1 = k
      <3>1. Len(t) \in Nat /\ Len(Tail(t)) = Len(t) - 1
        BY <1>1
      <3> QED BY <1>7, <3>1
    <2> QED BY <1>4, <2>1
  <1>8. Picks(o, s, Tail(t))
    BY <1>4, <1>5, <1>6 DEF Picks
  <1> QED BY <1>7, <1>8

Left(m, entries, todo, names) ==
  /\ Picks(m, entries, todo)
  /\ \A i \in 1..Len(entries) :
       entries[i].name \in names \/ \E k \in 1..Len(todo) : m[k] = i

LEMMA LeftStep ==
  ASSUME TypeOK, HasWork, Orderly(work), LeftInv, NEW p \in Procs, Step(p)
  PROVE  LeftInv'
  <1>1. /\ ~Does(work, "squash") /\ ~Does(work, "reset") /\ work' = work
        /\ \A q \in Procs \ {p} : proc'[q] = proc[q]
        /\ proc[p].at \in DOMAIN work.scripts[p]
    BY MovesType, CommandGiven, StepRuns DEF Orderly
  <1>2. ASSUME NEW q \in Procs, proc[q].pc \in {"next", "up"}
        PROVE  /\ proc[q].at \in DOMAIN work.scripts[q] /\ Command(q).do = "apply"
               /\ \E m : Left(m, proc[q].journal, proc[q].todo, Names(tracked))
               /\ Names(tracked) \subseteq Names(tracked')
    <2>1. /\ proc[q].at \in DOMAIN work.scripts[q] /\ Command(q).do = "apply"
          /\ \E m : Left(m, proc[q].journal, proc[q].todo, Names(tracked))
      BY <1>2 DEF LeftInv, Left
    <2>2. Does(work, "apply")
      BY <2>1 DEF Command, Does, CommandsOf, Range
    <2>3. ~Does(work, "down")
      BY <2>2 DEF Orderly
    <2> QED BY <2>1, <2>3, NamesMove
  <1>3. ASSUME NEW m, NEW entries, NEW todo, Left(m, entries, todo, Names(tracked)),
               Names(tracked) \subseteq Names(tracked')
        PROVE  Left(m, entries, todo, Names(tracked'))
    BY <1>3 DEF Left
  <1>4. proc[p].journal \in Seq(Entries) /\ proc[p].todo \in Seq(Entries)
    BY DEF TypeOK, ProcStates
  <1>5. ASSUME NEW q \in Procs, proc'[q].pc \in {"next", "up"}
        PROVE  /\ proc'[q].at \in DOMAIN work.scripts[q]
               /\ work.scripts[q][proc'[q].at].do = "apply"
               /\ \E m : Left(m, proc'[q].journal, proc'[q].todo, Names(tracked'))
    <2>1. CASE q # p
      BY <1>1, <1>2, <1>3, <1>5, <2>1 DEF Command
    <2>2. CASE q = p
      <3>1. /\ proc'[p].at = proc[p].at
            /\ proc'[p].journal = IF proc[p].pc = "start" THEN journal ELSE proc[p].journal
        BY <1>5, <2>2, CameFrom
      <3>2. CASE ReadTracked(p) /\ proc'[p].pc = "next" /\ proc'[p].todo = Pending(p)
        <4>1. Command(p).do = "apply" /\ proc[p].pc = "tracked" /\ tracked' = tracked
          BY <3>2 DEF ReadTracked, Runs, database
        <4> DEFINE S == Range(proc[p].journal) \ Applied(proc[p].journal, tracked)
        <4>2. PICK m : /\ Picks(m, proc[p].journal, Among(proc[p].journal, S))
                       /\ \A i \in 1..Len(proc[p].journal) : proc[p].journal[i] \in S =>
                            \E k \in 1..Len(Among(proc[p].journal, S)) : m[k] = i
          BY <1>4, AmongOrder
        <4>3. \A i \in 1..Len(proc[p].journal) :
                proc[p].journal[i] \notin S => proc[p].journal[i].name \in Names(tracked)
          <5>1. \A i \in 1..Len(proc[p].journal) : proc[p].journal[i] \in Range(proc[p].journal)
            BY <1>4 DEF Range
          <5> QED BY <5>1 DEF Applied
        <4>4. Pending(p) = Among(proc[p].journal, S)
          BY DEF Pending
        <4> HIDE DEF S
        <4>5. Left(m, proc[p].journal, Pending(p), Names(tracked'))
          BY <4>1, <4>2, <4>3, <4>4 DEF Left
        <4> QED BY <1>1, <2>2, <3>1, <3>2, <4>1, <4>5 DEF Command
      <3>3. CASE RunUp(p) /\ proc'[p].pc = "next"
        <4>1. /\ proc[p].pc = "up" /\ proc[p].todo # <<>>
              /\ proc'[p].todo = Tail(proc[p].todo)
              /\ Names(tracked') = Names(tracked) \cup {Head(proc[p].todo).name}
          <5>1. ~RunDown(p)
            BY <3>3 DEF RunUp, RunDown, Runs
          <5> QED BY <1>1, <3>3, <5>1, TrackedNames DEF RunUp, Runs
        <4>2. PICK m : Left(m, proc[p].journal, proc[p].todo, Names(tracked))
          BY <1>2, <4>1
        <4>3. PICK o : /\ Picks(o, proc[p].journal, Tail(proc[p].todo))
                       /\ \A k \in 1..Len(proc[p].todo) : k # 1 =>
                            \E l \in 1..Len(Tail(proc[p].todo)) : o[l] = m[k]
          BY <1>4, <4>1, <4>2, PicksTail DEF Left
        <4>4. proc[p].journal[m[1]].name = Head(proc[p].todo).name
          <5>1. 1 \in 1..Len(proc[p].todo) /\ Head(proc[p].todo) = proc[p].todo[1]
            BY <1>4, <4>1
          <5> QED BY <4>2, <5>1 DEF Left, Picks
        <4>5. ASSUME NEW i \in 1..Len(proc[p].journal)
              PROVE  \/ proc[p].journal[i].name \in Names(tracked')
                     \/ \E l \in 1..Len(Tail(proc[p].todo)) : o[l] = i
          <5>1. \/ proc[p].journal[i].name \in Names(tracked)
                \/ \E k \in 1..Len(proc[p].todo) : m[k] = i
            BY <4>2 DEF Left
          <5>2. \A k \in 1..Len(proc[p].todo) : k # 1 =>
                  \E l \in 1..Len(Tail(proc[p].todo)) : o[l] = m[k]
            BY <4>3
          <5>3. m[1] = i => proc[p].journal[i].name \in Names(tracked')
            BY <4>1, <4>4
          <5> QED BY <4>1, <5>1, <5>2, <5>3
        <4>6. Left(o, proc[p].journal, Tail(proc[p].todo), Names(tracked'))
          BY <4>3, <4>5 DEF Left
        <4>7. Command(p).do = "apply"
          BY <3>3 DEF RunUp, Runs
        <4> QED BY <1>1, <2>2, <3>1, <4>1, <4>6, <4>7 DEF Command
      <3>4. CASE ReadFile(p) /\ proc'[p].todo = proc[p].todo
        <4>1. proc[p].pc = "next" /\ Command(p).do = "apply"
          BY <3>4 DEF ReadFile, Runs
        <4>2. \E m : Left(m, proc[p].journal, proc[p].todo, Names(tracked'))
          BY <1>2, <1>3, <4>1
        <4> QED BY <1>1, <2>2, <3>1, <3>4, <4>1, <4>2 DEF Command
      <3> QED BY <1>5, <2>2, <3>2, <3>3, <3>4, CameFrom
    <2> QED BY <2>1, <2>2
  <1>6. Names(tracked)' = Names(tracked')
    BY DEF Names
  <1> QED BY <1>1, <1>5, <1>6 DEF LeftInv, Left, Command

\* The last applied entries are all that were applied after the first of them.
LEMMA LastAppliedOrder ==
  ASSUME NEW entries \in Seq(Entries), NEW rows, NEW steps \in Nat,
         NEW i \in 1..Len(entries), NEW j \in 1..Len(entries), i < j,
         entries[j].name \in Names(rows),
         NEW e \in Range(LastApplied(entries, rows, steps)), e.name = entries[i].name,
         \A k \in 1..Len(entries) : entries[k].name = e.name => k = i
  PROVE  entries[j] \in Range(LastApplied(entries, rows, steps))
  <1> DEFINE S == Applied(entries, rows)
             applied == Among(entries, S)
             first == IF Len(applied) > steps THEN Len(applied) - steps + 1 ELSE 1
  <1>1. LastApplied(entries, rows, steps) = SubSeq(applied, first, Len(applied))
    BY DEF LastApplied
  <1>2. applied \in Seq(Entries)
    BY AmongFacts
  <1>3. PICK m : /\ Picks(m, entries, applied)
                 /\ \A k \in 1..Len(entries) : entries[k] \in S =>
                      \E l \in 1..Len(applied) : m[l] = k
    BY AmongOrder
  <1>4. entries[j] \in S
    <2>1. entries[j] \in Range(entries)
      BY DEF Range
    <2> QED BY <2>1 DEF Applied
  <1> HIDE DEF S, applied
  <1>5. Len(applied) \in Nat
    BY <1>2
  <1>6. first \in Nat /\ 1 <= first
    BY <1>5
  <1> HIDE DEF first
  <1>7. \A x : x \in Range(SubSeq(applied, first, Len(applied)))
                 <=> \E k \in first..Len(applied) : x = applied[k]
    <2> DEFINE L == Len(applied)
               t == SubSeq(applied, first, L)
    <2>1. L \in Nat
      BY <1>5
    <2>2. CASE first > L
      <3>1. first..L = {}
        BY <1>6, <2>1, <2>2
      <3>2. t = <<>>
        BY <1>2, <1>6, <2>1, <2>2
      <3> QED BY <3>1, <3>2, EmptyRange
    <2>3. CASE first <= L
      <3>1. /\ DOMAIN t = 1..(L - first + 1)
            /\ \A k \in 1..(L - first + 1) : t[k] = applied[k + first - 1]
        BY <1>2, <1>6, <2>1, <2>3
      <3> HIDE DEF t, L
      <3>2. \A k \in 1..(L - first + 1) : k + first - 1 \in first..L
        BY <1>6, <2>1, <2>3
      <3>3. \A k \in first..L : k - first + 1 \in 1..(L - first + 1)
                                /\ (k - first + 1) + first - 1 = k
        BY <1>6, <2>1, <2>3
      <3>4. \A x : x \in Range(t) <=> \E k \in first..L : x = applied[k]
        BY <3>1, <3>2, <3>3 DEF Range
      <3> QED BY <3>4 DEF t, L
    <2> QED BY <1>6, <2>1, <2>2, <2>3
  <1>8. PICK k \in first..Len(applied) : e = applied[k]
    BY <1>1, <1>7
  <1>9. k \in 1..Len(applied)
    BY <1>5, <1>6
  <1>10. m[k] = i
    BY <1>3, <1>8, <1>9 DEF Picks
  <1>11. PICK l \in 1..Len(applied) : m[l] = j
    BY <1>3, <1>4
  <1>12. \A a, b \in 1..Len(applied) : a < b => m[a] < m[b]
    BY <1>3 DEF Picks
  <1>13. ~(l < k) /\ l # k
    <2>1. i \in Int /\ j \in Int
      OBVIOUS
    <2> QED BY <1>9, <1>10, <1>11, <1>12, <2>1
  <1>14. l \in first..Len(applied)
    BY <1>5, <1>6, <1>9, <1>13
  <1>15. entries[j] = applied[l]
    BY <1>3, <1>11 DEF Picks
  <1> QED BY <1>1, <1>7, <1>14, <1>15

\* A tracked name that the workload's journal has is in the journal once.
LEMMA OnePlace ==
  ASSUME TypeOK, JournalInv, NEW k \in DOMAIN journal,
         journal[k].name \in Names(Range(work.journal))
  PROVE  /\ k \in 1..Len(work.journal)
         /\ \A l \in DOMAIN journal : journal[l].name = journal[k].name => l = k
  <1>1. /\ work.journal \in Seq(Entries) /\ journal \in Seq(Entries)
        /\ \A i, j \in DOMAIN work.journal :
             work.journal[i].name = work.journal[j].name => i = j
    BY WorkloadsAssumption DEF TypeOK
  <1>2. \A l \in DOMAIN journal : journal[l].name \in Names(Range(work.journal))
          => l \in 1..Len(work.journal) /\ journal[l] = work.journal[l]
    <2>1. \A l \in DOMAIN journal : l \in Nat /\ l >= 1
      BY <1>1
    <2>2. Len(work.journal) \in Nat
      BY <1>1
    <2> QED BY <2>1, <2>2 DEF JournalInv, Longer
  <1>3. DOMAIN work.journal = 1..Len(work.journal)
    BY <1>1
  <1> QED BY <1>1, <1>2, <1>3

LEMMA UndoStep ==
  ASSUME TypeOK, HasWork, Orderly(work), JournalInv, ReadInv, UndoInv, NEW p \in Procs, Step(p)
  PROVE  UndoInv'
  <1>1. /\ ~Does(work, "squash") /\ ~Does(work, "reset") /\ work' = work /\ NewNames(work)
        /\ \A q \in Procs \ {p} : proc'[q] = proc[q]
        /\ proc[p].at \in DOMAIN work.scripts[p]
        /\ Command(p) \in CommandsOf(work) /\ Command(p) \in Commands
    BY MovesType, CommandGiven, StepRuns DEF Orderly
  <1>2. journal \in Seq(Entries) /\ proc[p].journal \in Seq(Entries)
    BY DEF TypeOK, ProcStates
  <1> DEFINE Rest(names, todo) ==
               \A i, j \in DOMAIN journal :
                 i < j /\ journal[j].name \in names /\ journal[i].name \in todo
                   => journal[j].name \in todo
             Rest2(names, todo) ==
               \A i, j \in DOMAIN journal' :
                 i < j /\ journal'[j].name \in names /\ journal'[i].name \in todo
                   => journal'[j].name \in todo
  <1>3. ASSUME NEW todo, Does(work, "down"), Rest(Names(tracked), todo)
        PROVE  Rest2(Names(tracked'), todo)
    <2>1. Names(tracked') \subseteq Names(tracked)
      BY <1>3, NamesMove DEF Orderly
    <2>2. CASE journal' = journal
      BY <1>3, <2>1, <2>2
    <2>3. ASSUME NEW e \in Entries, journal' = Append(journal, e), e.name = Command(p).name,
                 Command(p).do = "generate"
          PROVE  Rest2(Names(tracked'), todo)
      <3>1. /\ DOMAIN journal = 1..Len(journal) /\ DOMAIN journal' = 1..(Len(journal) + 1)
            /\ \A i \in 1..Len(journal) : journal'[i] = journal[i]
            /\ journal'[Len(journal) + 1] = e /\ Len(journal) \in Nat
        BY <1>2, <2>3, AppendFacts
      <3>2. e.name \notin Names(tracked')
        BY <1>1, <1>3, <2>1, <2>3 DEF NewNames, JournalInv
      <3>3. ASSUME NEW i \in DOMAIN journal', NEW j \in DOMAIN journal', i < j,
                   journal'[j].name \in Names(tracked')
            PROVE  i \in DOMAIN journal /\ j \in DOMAIN journal
        <4>1. j # Len(journal) + 1
          BY <3>1, <3>2, <3>3
        <4> QED BY <3>1, <3>3, <4>1
      <3> QED BY <1>3, <2>1, <3>1, <3>3
    <2> QED BY <1>1, <2>2, <2>3, JournalGrows
  <1>4. ASSUME NEW q \in Procs, proc[q].pc \in {"lock", "locked"}
        PROVE  /\ proc[q].at \in DOMAIN work.scripts[q] /\ Command(q).do = "down"
               /\ Rest(Names(tracked), Names(Range(proc[q].todo)))
               /\ Does(work, "down")
    <2>1. /\ proc[q].at \in DOMAIN work.scripts[q] /\ Command(q).do = "down"
          /\ Rest(Names(tracked), Names(Range(proc[q].todo)))
      BY <1>4 DEF UndoInv
    <2> QED BY <2>1 DEF Command, Does, CommandsOf, Range
  <1>5. ASSUME PlanDown(p) PROVE Rest(Names(tracked), Names(Range(ToUndo(p))))
    <2>1. Does(work, "down") /\ proc[p].pc # "start"
      BY <1>1, <1>5 DEF PlanDown, Runs, Does
    <2>2. Longer(proc[p].journal, work.journal) /\ Longer(journal, proc[p].journal)
      BY <2>1 DEF ReadInv
    <2>3. /\ Len(work.journal) \in Nat /\ Len(proc[p].journal) \in Nat /\ Len(journal) \in Nat
          /\ DOMAIN journal = 1..Len(journal)
      BY <1>2, WorkloadsAssumption DEF TypeOK
    <2>4. ASSUME NEW i \in DOMAIN journal, NEW j \in DOMAIN journal, i < j,
                 journal[j].name \in Names(tracked),
                 NEW e \in Range(ToUndo(p)), e.name = journal[i].name
          PROVE  journal[j] \in Range(ToUndo(p))
      <3>1. journal[j].name \in Names(Range(work.journal))
        BY <2>1, <2>4 DEF JournalInv
      <3>2. j \in 1..Len(work.journal)
        BY <3>1, OnePlace
      <3>3. i \in 1..Len(work.journal)
        BY <2>3, <2>4, <3>2
      <3>4. journal[i] = work.journal[i] /\ journal[i].name \in Names(Range(work.journal))
        <4>1. work.journal \in Seq(Entries)
          BY WorkloadsAssumption DEF TypeOK
        <4>2. work.journal[i] \in Range(work.journal)
          BY <3>3, <4>1 DEF Range
        <4>3. journal[i] = work.journal[i]
          BY <3>3 DEF JournalInv, Longer
        <4> QED BY <4>2, <4>3 DEF Names
      <3>5. \A l \in DOMAIN journal : journal[l].name = journal[i].name => l = i
        BY <3>4, OnePlace
      <3>6. \A k \in 1..Len(proc[p].journal) : /\ k \in DOMAIN journal
                                               /\ proc[p].journal[k] = journal[k]
        BY <2>2, <2>3 DEF Longer
      <3>7. i \in 1..Len(proc[p].journal) /\ j \in 1..Len(proc[p].journal)
        BY <2>2, <2>3, <3>2, <3>3 DEF Longer
      <3>8. /\ proc[p].journal[j].name \in Names(tracked)
            /\ e.name = proc[p].journal[i].name
            /\ \A k \in 1..Len(proc[p].journal) : proc[p].journal[k].name = e.name => k = i
        BY <2>4, <3>5, <3>6, <3>7
      <3>9. Command(p).steps \in Nat
        BY <1>1 DEF Commands
      <3>10. proc[p].journal[j] \in Range(ToUndo(p))
        BY <1>2, <2>4, <3>7, <3>8, <3>9, LastAppliedOrder DEF ToUndo
      <3> QED BY <3>6, <3>7, <3>10
    <2> QED BY <2>4 DEF Names
  <1>6. ASSUME NEW q \in Procs, proc'[q].pc \in {"lock", "locked"}
        PROVE  /\ proc'[q].at \in DOMAIN work.scripts[q]
               /\ work.scripts[q][proc'[q].at].do = "down"
               /\ Rest2(Names(tracked'), Names(Range(proc'[q].todo)))
    <2>1. CASE q # p
      <3>1. proc'[q] = proc[q]
        BY <1>1, <2>1
      <3> HIDE DEF Rest, Rest2
      <3> QED BY <1>3, <1>4, <1>6, <3>1 DEF Command
    <2>2. CASE q = p
      <3>1. proc'[p].at = proc[p].at
        BY <1>6, <2>2, CameFrom
      <3>2. CASE PlanDown(p) /\ proc'[p].todo = ToUndo(p)
        <4>1. Command(p).do = "down"
          BY <3>2 DEF PlanDown, Runs
        <4>2. Does(work, "down")
          BY <1>1, <4>1 DEF Does
        <4> HIDE DEF Rest, Rest2
        <4> QED BY <1>1, <1>3, <1>5, <2>2, <3>1, <3>2, <4>1, <4>2 DEF Command
      <3>3. CASE Lock(p) /\ proc'[p].todo = proc[p].todo
        <4>1. proc[p].pc = "lock"
          BY <3>3 DEF Lock, Runs
        <4> HIDE DEF Rest, Rest2
        <4> QED BY <1>3, <1>4, <2>2, <3>1, <3>3, <4>1 DEF Command
      <3> QED BY <1>6, <2>2, <3>2, <3>3, CameFrom
    <2> QED BY <2>1, <2>2
  <1>7. Names(tracked)' = Names(tracked')
    BY DEF Names
  <1>8. \A q \in Procs : Names(Range(proc[q].todo))' = Names(Range(proc'[q].todo))
    BY DEF Names, Range
  <1> QED BY <1>1, <1>6, <1>7, <1>8 DEF UndoInv, Command

\* What apply runs next is the first entry that is not applied, or has the name of it.
LEMMA UpInOrder ==
  ASSUME TypeOK, HasWork, JournalInv, ReadInv, LeftInv, AppliedInOrder, NEW p \in Procs,
         RunUp(p), Head(proc[p].todo).name \notin Names(tracked),
         NEW i \in DOMAIN journal, NEW j \in DOMAIN journal, i < j,
         journal[j].name = Head(proc[p].todo).name
  PROVE  journal[i].name \in Names(tracked) \cup {Head(proc[p].todo).name}
  <1>1. /\ proc[p].pc = "up" /\ proc[p].todo # <<>> /\ proc[p].todo \in Seq(Entries)
        /\ proc[p].journal \in Seq(Entries) /\ journal \in Seq(Entries)
    BY DEF RunUp, Runs, HasWork, TypeOK, ProcStates
  <1>2. PICK m : Left(m, proc[p].journal, proc[p].todo, Names(tracked))
    BY <1>1 DEF LeftInv, Left
  <1>3. Picks(m, proc[p].journal, proc[p].todo) /\ Longer(journal, proc[p].journal)
    BY <1>2 DEF Left, ReadInv
  <1>4. /\ m[1] \in DOMAIN journal /\ m[1] \in 1..Len(proc[p].journal)
        /\ journal[m[1]].name = Head(proc[p].todo).name
    BY <1>1, <1>3, PickedHead
  <1>5. /\ DOMAIN journal = 1..Len(journal) /\ Len(journal) \in Nat
        /\ Len(proc[p].journal) \in Nat /\ Len(proc[p].todo) \in Nat
    BY <1>1
  <1>6. CASE i < m[1]
    <2>1. i \in 1..Len(proc[p].journal)
      BY <1>4, <1>5, <1>6
    <2>2. \A k \in 1..Len(proc[p].todo) : m[k] # i
      <3>1. 1 \in 1..Len(proc[p].todo)
        BY <1>1, <1>5
      <3>2. \A k \in 1..Len(proc[p].todo) : k = 1 \/ 1 < k
        BY <1>5
      <3>3. \A k \in 1..Len(proc[p].todo) : m[k] \in 1..Len(proc[p].journal)
                                            /\ (1 < k => m[1] < m[k])
        BY <1>3, <3>1 DEF Picks
      <3>4. \A x \in 1..Len(proc[p].journal) : i < m[1] /\ m[1] < x => x # i
        BY <1>4, <1>5, <2>1
      <3> QED BY <1>6, <2>1, <3>2, <3>3, <3>4
    <2>3. proc[p].journal[i].name \in Names(tracked)
      BY <1>2, <2>1, <2>2 DEF Left
    <2>4. proc[p].journal[i] = journal[i]
      BY <1>3, <2>1 DEF Longer
    <2> QED BY <2>3, <2>4
  <1>7. CASE i = m[1]
    BY <1>4, <1>7
  <1>8. CASE m[1] < i
    BY <1>4, <1>8 DEF JournalInv
  <1>9. i < m[1] \/ i = m[1] \/ m[1] < i
    <2>1. i \in Int /\ m[1] \in Int
      BY <1>4, <1>5
    <2> QED BY <2>1
  <1> QED BY <1>6, <1>7, <1>8, <1>9

LEMMA OrderStep ==
  ASSUME TypeOK, HasWork, Orderly(work), JournalInv, ReadInv, LeftInv, UndoInv, AppliedInOrder,
         NEW p \in Procs, Step(p)
  PROVE  AppliedInOrder'
  <1>1. ~Does(work, "squash") /\ ~Does(work, "reset")
    BY DEF Orderly
  <1>2. \A i, j \in DOMAIN journal :
          i < j /\ journal[j].name \in Names(tracked) => journal[i].name \in Names(tracked)
    BY DEF AppliedInOrder
  <1>3. journal \in Seq(Entries) /\ Len(journal) \in Nat /\ DOMAIN journal = 1..Len(journal)
    BY DEF TypeOK
  <1>4. Names(tracked)' = Names(tracked')
    BY DEF Names
  <1>5. CASE journal' = journal /\ tracked' = tracked
    BY <1>2, <1>5 DEF AppliedInOrder
  <1>6. ASSUME NEW e \in Entries, journal' = Append(journal, e), e.name = Command(p).name,
               Command(p).do = "generate", tracked' = tracked
        PROVE  AppliedInOrder'
    <2>1. /\ DOMAIN journal' = 1..(Len(journal) + 1)
          /\ \A i \in 1..Len(journal) : journal'[i] = journal[i]
          /\ journal'[Len(journal) + 1] = e
      BY <1>3, <1>6, AppendFacts
    <2>2. ASSUME e.name \in Names(tracked), NEW i \in DOMAIN journal
          PROVE  journal[i].name \in Names(tracked)
      <3>1. PICK k \in DOMAIN journal : journal[k].name = e.name
        <4>1. e.name \in Names(Range(journal))
          BY <2>2 DEF JournalInv
        <4> QED BY <4>1 DEF Names, Range
      <3>2. \A l \in DOMAIN journal : k < l => journal[l].name = journal[k].name
        <4>1. proc[p].at \in DOMAIN work.scripts[p] /\ proc[p].at >= proc[p].at
          BY <1>1, StepRuns, AtGrows
        <4>2. work.scripts[p][proc[p].at].do = "generate"
              /\ work.scripts[p][proc[p].at].name = journal[k].name
          BY <1>6, <3>1 DEF Command
        <4> QED BY <4>1, <4>2 DEF JournalInv
      <3>3. i < k \/ i = k \/ k < i
        BY <1>3
      <3> QED BY <1>2, <2>2, <3>1, <3>2, <3>3
    <2>3. ASSUME NEW i \in DOMAIN journal', NEW j \in DOMAIN journal', i < j,
                 journal'[j].name \in Names(tracked)
          PROVE  journal'[i].name \in Names(tracked)
      <3>1. i \in 1..Len(journal) /\ (j \in 1..Len(journal) \/ j = Len(journal) + 1)
        BY <1>3, <2>1, <2>3
      <3> QED BY <1>2, <1>3, <2>1, <2>2, <2>3, <3>1
    <2> QED BY <1>4, <1>6, <2>3 DEF AppliedInOrder
  <1>7. CASE /\ RunUp(p) /\ journal' = journal
             /\ Head(proc[p].todo).name \notin Names(tracked)
             /\ Names(tracked') = Names(tracked) \cup {Head(proc[p].todo).name}
    <2>1. ASSUME NEW i \in DOMAIN journal, NEW j \in DOMAIN journal, i < j,
                 journal[j].name \in Names(tracked')
          PROVE  journal[i].name \in Names(tracked')
      <3>1. CASE journal[j].name \in Names(tracked)
        BY <1>2, <1>7, <2>1, <3>1
      <3>2. CASE journal[j].name = Head(proc[p].todo).name
        BY <1>7, <2>1, <3>2, UpInOrder
      <3> QED BY <1>7, <2>1, <3>1, <3>2
    <2> QED BY <1>4, <1>7, <2>1 DEF AppliedInOrder
  <1>8. CASE /\ RunDown(p) /\ journal' = journal
             /\ Names(tracked') = Names(tracked) \ Names(Range(proc[p].todo))
    <2>1. proc[p].pc = "locked"
      BY <1>8 DEF RunDown, Runs
    <2>2. \A i, j \in DOMAIN journal :
            /\ i < j /\ journal[j].name \in Names(tracked)
            /\ journal[i].name \in Names(Range(proc[p].todo))
            => journal[j].name \in Names(Range(proc[p].todo))
      BY <2>1 DEF UndoInv
    <2> QED BY <1>2, <1>4, <1>8, <2>2 DEF AppliedInOrder
  <1> QED BY <1>1, <1>5, <1>6, <1>7, <1>8, JournalGrows, TrackedNames

LEMMA InitOrder ==
  ASSUME Init, Orderly(work)
  PROVE  OrderInv
  <1>1. /\ journal = work.journal /\ work \in Workloads
        /\ tracked = {RowOf(e) : e \in Range(SubSeq(work.journal, 1, work.applied))}
        /\ \A q \in Procs : proc[q] = Fresh(1)
    BY DEF Init
  <1>2. \A q \in Procs : proc[q].journal = <<>> /\ proc[q].pc = "start" /\ proc[q].at = 1
    BY <1>1 DEF Fresh
  <1>3. /\ journal \in Seq(Entries) /\ work.applied \in Nat /\ work.applied <= Len(journal)
        /\ \A i, j \in DOMAIN journal : journal[i].name = journal[j].name => i = j
    BY <1>1, WorkloadsAssumption
  <1>4. Len(journal) \in Nat /\ DOMAIN journal = 1..Len(journal)
    BY <1>3
  <1>5. \A n : n \in Names(tracked) <=> \E i \in 1..work.applied : n = journal[i].name
    <2> DEFINE s == SubSeq(journal, 1, work.applied)
    <2>1. DOMAIN s = 1..work.applied /\ \A i \in 1..work.applied : s[i] = journal[i]
      BY <1>3, <1>4
    <2> HIDE DEF s
    <2>2. \A x : x \in Range(s) <=> \E i \in 1..work.applied : x = journal[i]
      BY <2>1 DEF Range
    <2>3. \A row : row \in tracked <=> \E e \in Range(s) : row = RowOf(e)
      BY <1>1 DEF s
    <2>4. \A n : n \in Names(tracked) <=> \E row \in tracked : n = row.name
      BY DEF Names
    <2>5. \A e : RowOf(e).name = e.name
      BY DEF RowOf
    <2> QED BY <2>2, <2>3, <2>4, <2>5
  <1>6. \A i \in 1..work.applied : i \in DOMAIN journal
    BY <1>3, <1>4
  <1>7. Names(tracked) \subseteq Names(Range(journal))
    BY <1>5, <1>6 DEF Names, Range
  <1>8. AppliedInOrder
    <2> SUFFICES ASSUME NEW i \in DOMAIN journal, NEW j \in DOMAIN journal, i < j,
                        journal[j].name \in Names(tracked)
                 PROVE  journal[i].name \in Names(tracked)
      BY DEF AppliedInOrder
    <2>1. j \in 1..work.applied
      BY <1>3, <1>5, <1>6
    <2>2. i \in 1..work.applied
      BY <1>3, <1>4, <2>1
    <2> QED BY <1>5, <2>2
  <1>9. JournalInv
    <2>1. \A j \in DOMAIN journal : ~(j > Len(journal))
      BY <1>4
    <2>2. \A i, j, k \in DOMAIN journal : i < j /\ j < k => journal[i].name # journal[k].name
      <3>1. \A i, j, k \in DOMAIN journal : i < j /\ j < k => i # k
        BY <1>4
      <3> QED BY <1>3, <3>1
    <2>3. ASSUME NEW q \in Procs, NEW i \in DOMAIN work.scripts[q],
                 work.scripts[q][i].do = "generate", NEW k \in DOMAIN journal
          PROVE  journal[k].name # work.scripts[q][i].name
      <3>1. work.scripts[q][i] \in CommandsOf(work)
        BY DEF CommandsOf, Range
      <3>2. journal[k].name \in Names(Range(work.journal))
        BY <1>1 DEF Names, Range
      <3> QED BY <2>3, <3>1, <3>2 DEF Orderly, NewNames
    <2> QED BY <1>1, <1>3, <1>7, <2>1, <2>2, <2>3, LongerFacts DEF JournalInv
  <1>10. ReadInv
    BY <1>2, <1>3, LongerFacts DEF ReadInv
  <1>11. LeftInv /\ UndoInv
    BY <1>2 DEF LeftInv, UndoInv
  <1> QED BY <1>8, <1>9, <1>10, <1>11 DEF OrderInv

LEMMA OrderlyKept ==
  ASSUME work' = work, Orderly(work)
  PROVE  Orderly(work)' /\ Does(work, "down")' = Does(work, "down")
  <1>1. CommandsOf(work)' = CommandsOf(work)
    BY DEF CommandsOf
  <1>2. \A do : Does(work, do)' = Does(work, do)
    BY <1>1 DEF Does
  <1>3. NewNames(work)'
    BY <1>1 DEF Orderly, NewNames, Names
  <1> QED BY <1>1, <1>2, <1>3 DEF Orderly, Does

\* A process that dies forgets what it has read; nor does one that stutters.
LEMMA OrderRest ==
  ASSUME TypeOK, OrderInv, UNCHANGED <<work, journal, tracked>>,
         \A q \in Procs : proc'[q] = proc[q] \/ proc'[q] = Fresh(proc[q].at)
  PROVE  OrderInv'
  <1>1. Orderly(work)' /\ Does(work, "down")' = Does(work, "down")
    BY OrderlyKept DEF OrderInv
  <1>2. Names(tracked)' = Names(tracked) /\ Names(Range(journal))' = Names(Range(journal))
        /\ Names(Range(work.journal))' = Names(Range(work.journal))
    BY DEF Names
  <1>3. \A q \in Procs : /\ proc'[q].at = proc[q].at
                         /\ proc'[q] = proc[q] \/ (proc'[q].pc = "start" /\ proc'[q].journal = <<>>)
    <2>1. \A at : Fresh(at).at = at /\ Fresh(at).pc = "start" /\ Fresh(at).journal = <<>>
      BY DEF Fresh
    <2> QED BY <2>1
  <1>4. journal \in Seq(Entries)
    BY DEF TypeOK
  <1>5. JournalInv'
    BY <1>1, <1>2, <1>3 DEF OrderInv, JournalInv, Longer
  <1>6. ReadInv'
    <2>1. ReadInv
      BY DEF OrderInv
    <2>2. ASSUME NEW q \in Procs
          PROVE  /\ Longer(journal, proc'[q].journal)
                 /\ proc'[q].pc # "start" => proc'[q] = proc[q]
      BY <1>3, <1>4, <2>1, LongerFacts DEF ReadInv
    <2>3. ASSUME NEW q \in Procs
          PROVE  (/\ Longer(journal, proc[q].journal)
                  /\ proc[q].pc # "start" => Longer(proc[q].journal, work.journal)
                  /\ proc[q].pc \in {"file", "down", "journal"} =>
                       /\ proc[q].at \in DOMAIN work.scripts[q] /\ Command(q).do = "generate"
                       /\ proc[q].journal = journal /\ Head(proc[q].todo).name = Command(q).name)'
      BY <2>1, <2>2 DEF ReadInv, Command, Longer
    <2> QED BY <2>3 DEF ReadInv
  <1>7. LeftInv'
    <2>1. \A q \in Procs : proc'[q].pc \in {"next", "up"} => proc'[q] = proc[q]
      BY <1>3
    <2>2. \A q \in Procs : proc'[q].pc \in {"next", "up"} =>
            /\ proc'[q].at \in DOMAIN work'.scripts[q] /\ Command(q)' = Command(q)
            /\ Command(q).do = "apply"
            /\ \E m : Left(m, proc'[q].journal, proc'[q].todo, Names(tracked'))
      BY <1>2, <2>1 DEF OrderInv, LeftInv, Left, Command, Names
    <2>3. Names(tracked)' = Names(tracked')
      BY DEF Names
    <2> QED BY <2>2, <2>3 DEF LeftInv, Left, Picks
  <1>8. UndoInv'
    <2>1. \A q \in Procs : proc'[q].pc \in {"lock", "locked"} => proc'[q] = proc[q]
      BY <1>3
    <2> QED BY <1>2, <2>1 DEF OrderInv, UndoInv, Command, Names, Range
  <1>9. AppliedInOrder'
    BY <1>2 DEF OrderInv, AppliedInOrder
  <1> QED BY <1>1, <1>5, <1>6, <1>7, <1>8, <1>9 DEF OrderInv

\* Where migrations are only applied, by any number of processes, or only rolled
\* back, and one process may generate more, the applied ones are the first of the
\* journal, whatever each command has read of it and whenever one dies.
THEOREM AppliedInOrderHolds == Spec /\ Orderly(work) => []AppliedInOrder
  <1> DEFINE Inv == TypeOK /\ HasWork /\ OrderInv
  <1>1. Init /\ Orderly(work) => Inv
    BY InitType, InitHasWork, InitOrder
  <1>2. Inv /\ [Next]_vars => Inv'
    <2> SUFFICES ASSUME Inv, [Next]_vars PROVE OrderInv'
      BY TypeStep
    <2>1. CASE UNCHANGED vars
      BY <2>1, OrderRest DEF vars, directory, database
    <2>2. ASSUME NEW p \in Procs, Crash(p) PROVE OrderInv'
      <3>1. UNCHANGED <<work, journal, tracked>>
        BY <2>2 DEF Crash, directory, database
      <3> QED BY <2>2, <3>1, CrashMoves, OrderRest
    <2>3. ASSUME NEW p \in Procs, Step(p) PROVE OrderInv'
      <3>1. work' = work
        BY <2>3 DEF Step
      <3>2. JournalInv' /\ ReadInv' /\ LeftInv' /\ UndoInv' /\ AppliedInOrder'
        BY <2>3, JournalStep, ReadStep, LeftStep, UndoStep, OrderStep DEF OrderInv
      <3> QED BY <3>1, <3>2, OrderlyKept DEF OrderInv
    <2> QED BY <2>1, <2>2, <2>3 DEF Next
  <1>3. Inv => AppliedInOrder
    BY DEF OrderInv
  <1> QED BY <1>1, <1>2, <1>3, PTL DEF Spec
=============================================================================
