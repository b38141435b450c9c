---------------------------- MODULE MCMigrations ----------------------------
(* Two or three processes on a directory of two or three migrations.        *)
EXTENDS Migrations

CONSTANTS p1, p2, p3, m1, m2, m3, m4, sq, x1, x2, x3, x4

MCEntries == <<[idx |-> 0, name |-> m1, body |-> {x1}],
             [idx |-> 1, name |-> m2, body |-> {x2}],
             [idx |-> 2, name |-> m3, body |-> {x3}]>>

command(do) == [do |-> do, steps |-> 1, from |-> 0, to |-> 0, cleanup |-> FALSE,
                name |-> m1, want |-> {}]

Apply == command("apply")
Reset == command("reset")
Down(steps) == [command("down") EXCEPT !.steps = steps]
Generate == [command("generate") EXCEPT !.name = m4, !.want = Changes]
Squash(from, to, cleanup) ==
  [command("squash") EXCEPT !.from = from, !.to = to, !.name = sq, !.cleanup = cleanup]

Load(entries, applied, loose, crash, w, x, y) ==
  [journal |-> SubSeq(MCEntries, 1, entries), applied |-> applied, loose |-> loose,
   crashes |-> crash, scripts |-> [p \in Procs |-> CASE p = p1 -> w [] p = p2 -> x [] p = p3 -> y]]

MCWorkloads == {
  \* Two deployments while a developer generates and deploys the next migration.
  Load(2, 0, {x2}, 1, <<Apply>>, <<Apply>>, <<Generate, Apply>>),
  \* Two rollbacks, of migrations that overlap; a rollback and a reset.
  Load(3, 3, {}, 1, <<Down(1)>>, <<Down(2)>>, <<>>),
  Load(3, 3, {}, 0, <<Down(2), Apply>>, <<Reset>>, <<>>),
  \* Deployments during a reset.
  Load(2, 1, {}, 1, <<Apply>>, <<Apply>>, <<Reset>>),
  \* The applied migrations are squashed, and more follow.
  Load(3, 3, {}, 0, <<Squash(1, 2, TRUE), Generate, Apply, Down(1)>>, <<>>, <<>>),
  \* Unapplied ones are squashed, and a deployment comes late.
  Load(2, 0, {}, 0, <<Squash(0, 1, FALSE), Generate, Apply, Reset>>, <<>>, <<>>)}
=============================================================================
