----------------------------- MODULE Migrations -----------------------------
(***************************************************************************)
(* The migration commands (src/migrations): apply, down, reset and squash  *)
(* against a PostgreSQL database, and generate, run by processes that      *)
(* share the migrations directory and the database.                        *)
(*                                                                         *)
(* A migration is a set of changes to the schema.  The journal lists the   *)
(* migrations; the files hold their statements; the tracking table names   *)
(* those the database has had.  `apply` takes no lock: what keeps two of   *)
(* them apart is that the statements of a migration and its tracking row,  *)
(* whose name is unique, are one transaction.  `down`, `reset` and         *)
(* `squash` take the advisory lock, after they have read the journal.      *)
(*                                                                         *)
(* A transaction that reads nothing it depends on is one step, which       *)
(* commits, or fails at any of its statements.  Checksums are bodies.      *)
(***************************************************************************)
EXTENDS Naturals, Sequences, Functions

CONSTANTS Procs,           \* processes, each running its script of commands
          MigrationNames,
          Changes,         \* what migrations do to the schema
          Workloads,       \* directory, database and scripts at the start
          Nobody           \* the holder of a free lock

Entries == [idx : Nat, name : MigrationNames, body : SUBSET Changes]
Rows    == [name : MigrationNames, body : SUBSET Changes]
Paths   == [idx : Nat, name : MigrationNames]

\* `steps` is down's, `from`, `to` and `cleanup` are squash's, `want` is the
\* schema that generate finds in the models.
Commands == [do : {"apply", "down", "reset", "squash", "generate"},
             steps : Nat, from : Nat, to : Nat, cleanup : BOOLEAN,
             name : MigrationNames, want : SUBSET Changes]

ASSUME WorkloadsAssumption ==
  \A w \in Workloads :
    /\ w \in [journal : Seq(Entries), applied : Nat, loose : SUBSET Changes,
              crashes : Nat, scripts : [Procs -> Seq(Commands)]]
    /\ w.applied <= Len(w.journal)
    /\ \A i, j \in DOMAIN w.journal : w.journal[i].name = w.journal[j].name => i = j

VARIABLES
  work,      \* the workload; `loose`: its changes that can be made twice
  journal,   \* entries [idx, name, body], in order
  files,     \* migration files: the path is the index and the name
  downs,     \* down scripts, by path
  snapshot,  \* the changes up to the last generated migration
  tracked,   \* rows [name, body] of the tracking table
  schema,    \* the changes in effect
  twice,     \* changes ever made while in effect
  holder,    \* of the advisory lock
  proc,      \* of each process: its command, and what it has read
  crashes

directory == <<journal, files, downs, snapshot>>
database  == <<tracked, schema, twice>>
vars == <<work, directory, database, holder, proc, crashes>>

Command(p) == work.scripts[p][proc[p].at]
Path(e)    == [idx |-> e.idx, name |-> e.name]
FilesAt(e) == {f \in files : Path(f) = Path(e)}
Names(rows) == {row.name : row \in rows}
BodiesOf(entries) == UNION {e.body : e \in entries}
RowOf(e)   == [name |-> e.name, body |-> e.body]

\* The elements of s that are in S, in their order.
Among(s, S) ==
  LET kept[i \in 0..Len(s)] == IF i = 0 THEN <<>>
                               ELSE IF s[i] \in S THEN Append(kept[i - 1], s[i]) ELSE kept[i - 1]
  IN  kept[Len(s)]

\* The entries of a journal with a row of that name.
Applied(entries, rows) == {e \in Range(entries) : e.name \in Names(rows)}
----------------------------------------------------------------------------
Fresh(at) == [at |-> at, pc |-> "start", ok |-> TRUE,
              journal |-> <<>>,  \* as read at the start
              todo |-> <<>>,     \* entries to apply, undo or archive
              content |-> {},    \* of a file that was read
              listed |-> {},     \* tables a reset drops
              seen |-> {}]       \* tracking rows a command has read

Init == /\ work \in Workloads
        /\ journal = work.journal
        /\ files = Range(work.journal)
        /\ downs = {Path(e) : e \in Range(work.journal)}
        /\ snapshot = BodiesOf(Range(work.journal))
        /\ tracked = {RowOf(e) : e \in Range(SubSeq(work.journal, 1, work.applied))}
        /\ schema = BodiesOf(tracked)
        /\ twice = {}
        /\ holder = Nobody
        /\ proc = [p \in Procs |-> Fresh(1)]
        /\ crashes = 0

Go(p, pc) == proc' = [proc EXCEPT ![p].pc = pc]

\* The command is over; a script stops at the first that fails.
Return(p) == proc' = [proc EXCEPT ![p] = Fresh(proc[p].at + 1)]
Fail(p)   == proc' = [proc EXCEPT ![p].pc = "failed", ![p].ok = FALSE]

\* The same, inside withLock.
ReturnLocked(p) == Go(p, "unlock")
\* A bug: without withLock's finally, a failure keeps the lock.
FailHolding(p)  == Fail(p)
FailLocked(p)   == proc' = [proc EXCEPT ![p].pc = "unlock", ![p].ok = FALSE]

Runs(p, pc, commands) == /\ proc[p].at <= Len(work.scripts[p])
                         /\ proc[p].pc = pc
                         /\ Command(p).do \in commands

\* Every command begins with the journal; squash reads its files too.
ReadJournal(p) ==
  LET range == Among(journal, {e \in Range(journal) :
                                 e.idx \in Command(p).from .. Command(p).to}) IN
  /\ Runs(p, "start", {"apply", "down", "reset", "squash"})
  /\ IF Command(p).do = "squash"
     THEN IF Len(range) < 2 \/ \E e \in Range(range) : FilesAt(e) = {} THEN Fail(p)
          ELSE proc' = [proc EXCEPT ![p].pc = "lock", ![p].journal = journal, ![p].todo = range]
     ELSE proc' = [proc EXCEPT ![p].journal = journal,
                     ![p].pc = IF Command(p).do = "reset" THEN "lock" ELSE "tracked"]
  /\ UNCHANGED <<directory, database, holder>>

Lock(p) == /\ Runs(p, "lock", {"down", "reset", "squash"})
           /\ holder = Nobody
           /\ holder' = p
           /\ Go(p, "locked")
           /\ UNCHANGED <<directory, database>>

Unlock(p) == /\ Runs(p, "unlock", {"down", "reset", "squash"})
             /\ holder' = Nobody
             /\ IF proc[p].ok THEN Return(p) ELSE Fail(p)
             /\ UNCHANGED <<directory, database>>

\* A bug: the tracking row is INSERTed ON CONFLICT DO NOTHING.
MigrateAgain(db, e) ==
  IF ~(e.body \cap db.schema \subseteq work.loose)
  THEN [db EXCEPT !.ok = FALSE]
  ELSE [db EXCEPT !.schema = @ \cup e.body, !.tracked = @ \cup {RowOf(e)},
                  !.twice = @ \cup (e.body \cap db.schema)]

\* The statements of a migration and its tracking row, in a transaction whose
\* outcome so far is db.
Migrate(db, e) ==
  IF e.name \in Names(db.tracked) \/ ~(e.body \cap db.schema \subseteq work.loose)
  THEN [db EXCEPT !.ok = FALSE]
  ELSE [db EXCEPT !.schema = @ \cup e.body, !.tracked = @ \cup {RowOf(e)},
                  !.twice = @ \cup (e.body \cap db.schema)]

Now == [schema |-> schema, tracked |-> tracked, twice |-> twice, ok |-> TRUE]
Commit(db) == schema' = db.schema /\ tracked' = db.tracked /\ twice' = db.twice
----------------------------------------------------------------------------
(* apply                                                                    *)

Modified(entries, rows) ==
  \E e \in Range(entries), row \in rows : e.name = row.name /\ e.body # row.body

\* The pending entries.
ReadTracked(p) ==
  /\ Runs(p, "tracked", {"apply"})
  /\ IF Modified(proc[p].journal, tracked) THEN Fail(p)
     ELSE proc' = [proc EXCEPT ![p].pc = "next",
                     ![p].todo = Among(proc[p].journal,
                                       Range(proc[p].journal) \ Applied(proc[p].journal, tracked))]
  /\ UNCHANGED <<directory, database, holder>>

ReadFile(p) ==
  /\ Runs(p, "next", {"apply"})
  /\ IF proc[p].todo = <<>> THEN Return(p)
     ELSE IF FilesAt(Head(proc[p].todo)) = {} THEN Fail(p)
     ELSE \E f \in FilesAt(Head(proc[p].todo)) :
            proc' = [proc EXCEPT ![p].pc = "up", ![p].content = f.body]
  /\ UNCHANGED <<directory, database, holder>>

\* Any statement may fail, and the migrations before it stay.
RunUp(p) ==
  LET e  == [Head(proc[p].todo) EXCEPT !.body = proc[p].content]
      db == Migrate(Now, e) IN
  /\ Runs(p, "up", {"apply"})
  /\ \/ /\ db.ok
        /\ Commit(db)
        /\ proc' = [proc EXCEPT ![p].pc = "next", ![p].todo = Tail(@)]
     \/ Fail(p) /\ UNCHANGED database
  /\ UNCHANGED <<directory, holder>>
----------------------------------------------------------------------------
(* down                                                                     *)

\* A bug: the first entries are undone.
FirstApplied(entries, rows, steps) ==
  LET applied == Among(entries, Applied(entries, rows)) IN
  SubSeq(applied, 1, IF Len(applied) > steps THEN steps ELSE Len(applied))

\* The last `steps` applied entries of the journal.
LastApplied(entries, rows, steps) ==
  LET applied == Among(entries, Applied(entries, rows)) IN
  SubSeq(applied, IF Len(applied) > steps THEN Len(applied) - steps + 1 ELSE 1, Len(applied))

PlanDown(p) ==
  LET chosen == LastApplied(proc[p].journal, tracked, Command(p).steps) IN
  /\ Runs(p, "tracked", {"down"})
  /\ IF chosen = <<>> THEN Return(p)
     ELSE IF Modified(chosen, tracked) THEN Fail(p)
     ELSE proc' = [proc EXCEPT ![p].pc = "lock", ![p].todo = chosen]
  /\ UNCHANGED <<directory, database, holder>>

\* One transaction.  An entry without a down script only loses its row, and
\* deleting a row that is gone is no error.
RunDown(p) ==
  LET entries == Range(proc[p].todo)
      undone  == BodiesOf({e \in entries : Path(e) \in downs}) IN
  /\ Runs(p, "locked", {"down"})
  /\ \/ /\ undone \subseteq schema \cup work.loose
        /\ schema' = schema \ undone
        /\ tracked' = {row \in tracked : row.name \notin Names(entries)}
        /\ ReturnLocked(p)
     \/ FailLocked(p) /\ UNCHANGED <<schema, tracked>>
  /\ UNCHANGED <<directory, twice, holder>>
----------------------------------------------------------------------------
(* reset: one transaction, whose statements see what others have committed.  *)

ListTables(p) == /\ Runs(p, "locked", {"reset"})
                 /\ proc' = [proc EXCEPT ![p].pc = "clear", ![p].listed = schema]
                 /\ UNCHANGED <<directory, database, holder>>

ClearTracking(p) == /\ Runs(p, "clear", {"reset"})
                    /\ proc' = [proc EXCEPT ![p].pc = "rerun", ![p].seen = tracked]
                    /\ UNCHANGED <<directory, database, holder>>

\* Every entry again, each from its file, in the transaction whose outcome so far
\* is db.
Replayed(db, entries) ==
  LET upTo[i \in 0..Len(entries)] ==
        IF i = 0 THEN db
        ELSE IF ~upTo[i - 1].ok \/ FilesAt(entries[i]) = {}
        THEN [upTo[i - 1] EXCEPT !.ok = FALSE]
        ELSE Migrate(upTo[i - 1], CHOOSE f \in FilesAt(entries[i]) : TRUE)
  IN  upTo[Len(entries)]

\* The journal is replayed, and COMMIT.
Rerun(p) ==
  LET cleared == [Now EXCEPT !.schema = @ \ proc[p].listed, !.tracked = @ \ proc[p].seen]
      db == Replayed(cleared, proc[p].journal) IN
  /\ Runs(p, "rerun", {"reset"})
  /\ \/ db.ok /\ Commit(db) /\ ReturnLocked(p)
     \/ FailLocked(p) /\ UNCHANGED database
  /\ UNCHANGED <<directory, holder>>
----------------------------------------------------------------------------
(* squash: the tracking table, the file, the journal, then the old files.    *)

Squashed(p) == [idx |-> Command(p).from, name |-> Command(p).name,
                body |-> BodiesOf(Range(proc[p].todo))]

ReadApplied(p) == /\ Runs(p, "locked", {"squash"})
                  /\ proc' = [proc EXCEPT ![p].pc = "retrack", ![p].seen = tracked]
                  /\ UNCHANGED <<directory, database, holder>>

\* A bug: migrations that were not applied are tracked as the squashed one.
RetrackAlways(p) ==
  LET gone == Names(Range(proc[p].todo)) IN
  /\ Runs(p, "retrack", {"squash"})
  /\ tracked' = {row \in tracked : row.name \notin gone} \cup {RowOf(Squashed(p))}
  /\ Go(p, "file")
  /\ UNCHANGED <<directory, schema, twice, holder>>

Retrack(p) ==
  LET gone == Names(Range(proc[p].todo)) \cap Names(proc[p].seen) IN
  /\ Runs(p, "retrack", {"squash"})
  /\ \/ /\ gone # {} => Squashed(p).name \notin Names(tracked) \ gone
        /\ tracked' = IF gone = {} THEN tracked
                      ELSE {row \in tracked : row.name \notin gone} \cup {RowOf(Squashed(p))}
        /\ Go(p, "file")
     \/ FailLocked(p) /\ UNCHANGED tracked
  /\ UNCHANGED <<directory, schema, twice, holder>>

\* The entries after the range are re-indexed; their files keep their names.
SquashedJournal(p) ==
  LET entries == Range(proc[p].journal)
      before  == Among(proc[p].journal, {e \in entries : e.idx < Command(p).from})
      after   == Among(proc[p].journal, {e \in entries : e.idx > Command(p).to}) IN
  before \o <<Squashed(p)>>
         \o [i \in DOMAIN after |-> [after[i] EXCEPT !.idx = Command(p).from + i]]

Archive(p) ==
  /\ Runs(p, "archive", {"squash"})
  /\ IF ~Command(p).cleanup \/ proc[p].todo = <<>> THEN ReturnLocked(p) /\ UNCHANGED files
     ELSE /\ files' = files \ FilesAt(Head(proc[p].todo))
          /\ proc' = [proc EXCEPT ![p].todo = Tail(@)]
  /\ UNCHANGED <<journal, downs, snapshot, database, holder>>
----------------------------------------------------------------------------
(* generate: the file, the down script, the journal, then the snapshot.      *)

\* A bug: the squashed entry's file gets the placeholder's index.
StoredUnindexed(p) == IF Command(p).do = "squash" THEN [Squashed(p) EXCEPT !.idx = 0]
                      ELSE Head(proc[p].todo)

Stored(p) == IF Command(p).do = "squash" THEN Squashed(p) ELSE Head(proc[p].todo)

\* The changes since the snapshot, as the next entry of the journal.
Diff(p) ==
  LET body == Command(p).want \ snapshot
      idx  == IF journal = <<>> THEN 0 ELSE journal[Len(journal)].idx + 1 IN
  /\ Runs(p, "start", {"generate"})
  /\ IF body = {} THEN Return(p)
     ELSE proc' = [proc EXCEPT ![p].pc = "file", ![p].journal = journal,
                     ![p].todo = <<[idx |-> idx, name |-> Command(p).name, body |-> body]>>]
  /\ UNCHANGED <<directory, database, holder>>

WriteFile(p) ==
  /\ Runs(p, "file", {"generate", "squash"})
  /\ files' = (files \ FilesAt(Stored(p))) \cup {Stored(p)}
  /\ Go(p, IF Command(p).do = "generate" THEN "down" ELSE "journal")
  /\ UNCHANGED <<journal, downs, snapshot, database, holder>>

WriteDown(p) == /\ Runs(p, "down", {"generate"})
                /\ downs' = downs \cup {Path(Stored(p))}
                /\ Go(p, "journal")
                /\ UNCHANGED <<journal, files, snapshot, database, holder>>

WriteJournal(p) ==
  /\ Runs(p, "journal", {"generate", "squash"})
  /\ IF Command(p).do = "squash" THEN journal' = SquashedJournal(p) /\ Go(p, "archive")
     ELSE journal' = Append(proc[p].journal, Stored(p)) /\ Go(p, "snapshot")
  /\ UNCHANGED <<files, downs, snapshot, database, holder>>

WriteSnapshot(p) == /\ Runs(p, "snapshot", {"generate"})
                    /\ snapshot' = Command(p).want
                    /\ Return(p)
                    /\ UNCHANGED <<journal, files, downs, database, holder>>
----------------------------------------------------------------------------
\* A process dies: its transaction is rolled back, its advisory lock dropped with
\* its connection.  The command is run again.
Crash(p) == /\ crashes < work.crashes
            /\ proc[p].pc \notin {"start", "failed"}
            /\ crashes' = crashes + 1
            /\ proc' = [proc EXCEPT ![p] = Fresh(@.at)]
            /\ holder' = IF holder = p THEN Nobody ELSE holder
            /\ UNCHANGED <<work, directory, database>>

Step(p) ==
  /\ \/ ReadJournal(p) \/ Lock(p) \/ Unlock(p)
     \/ ReadTracked(p) \/ ReadFile(p) \/ RunUp(p)
     \/ PlanDown(p) \/ RunDown(p)
     \/ ListTables(p) \/ ClearTracking(p) \/ Rerun(p)
     \/ ReadApplied(p) \/ Retrack(p) \/ Archive(p)
     \/ Diff(p) \/ WriteFile(p) \/ WriteDown(p) \/ WriteJournal(p) \/ WriteSnapshot(p)
  /\ UNCHANGED <<work, crashes>>

Next == \E p \in Procs : Step(p) \/ Crash(p)

Spec == Init /\ [][Next]_vars

\* A process that does not die gets its answers; nothing makes one die.
FairSpec == Spec /\ \A p \in Procs : WF_vars(Step(p))
----------------------------------------------------------------------------
ProcStates == [at : Nat \ {0}, ok : BOOLEAN,
               pc : {"start", "tracked", "next", "up", "lock", "locked", "clear", "rerun",
                     "retrack", "file", "down", "journal", "snapshot", "archive", "unlock",
                     "failed"},
               journal : Seq(Entries), todo : Seq(Entries), content : SUBSET Changes,
               listed : SUBSET Changes, seen : SUBSET Rows]

\* Every variable keeps to its type (the journal, the storage driver's files, the
\* tracking table, and what each command has read).
TypeOK ==
  /\ work \in Workloads
  /\ journal \in Seq(Entries) /\ files \in SUBSET Entries /\ downs \in SUBSET Paths
  /\ snapshot \in SUBSET Changes /\ schema \in SUBSET Changes /\ twice \in SUBSET Changes
  /\ tracked \in SUBSET Rows
  /\ holder \in Procs \cup {Nobody}
  /\ proc \in [Procs -> ProcStates]
  /\ crashes \in Nat

\* The tracking table tells exactly what the schema has: a migration and its row
\* come and go in one transaction (RunUp, RunDown, Rerun, Retrack).
EffectsAreTracked == schema = BodiesOf(tracked)

\* No process makes changes that are in effect, though two of them decide on the
\* same pending migrations (apply, unlocked, and its unique tracking row).
NoMigrationTwice == twice = {}

\* The applied entries of the journal are its first ones, whatever the journal
\* that each command has read (LastApplied, apply's stop at the first failure).
AppliedInOrder ==
  \A i, j \in DOMAIN journal :
    i < j /\ journal[j].name \in Names(tracked) => journal[i].name \in Names(tracked)

\* Whenever a process dies, the journal names no missing file (the order of
\* writes in generate and squash).
EntriesHaveFiles == \A e \in Range(journal) : FilesAt(e) # {}

\* Every script ends: nobody is left waiting for the lock (withLock's finally).
EveryCommandEnds ==
  \A p \in Procs : <>(proc[p].pc = "failed" \/ proc[p].at > Len(work.scripts[p]))
=============================================================================
