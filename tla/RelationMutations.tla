------------------------- MODULE RelationMutations -------------------------
(***************************************************************************)
(* What the mutations of a relation mean: the children of one parent are   *)
(* rows that hold its key, or that a junction table links with it, or the  *)
(* one row whose key the parent holds, and each mutation of a program acts *)
(* on the table the mutations before it have left.  NestedWrite.tla shows  *)
(* how the engine gets the same result from reads made before any write.   *)
(*                                                                         *)
(* A relation to many rows is "required" or "nullable", as its foreign key *)
(* is, or a "junction"; one to a single row is "childHeldToOne" or         *)
(* "parentHeldToOne".  Of the links of a row that a junction or its parent *)
(* holds only the one with Parent is told, as fk = Parent.  The parent of  *)
(* a program is there, or, if the program is `fresh`, comes with it.       *)
(* A row is [id, slug, fk, data], with id and slug unique.  A selector is  *)
(* a function from some of the fields to values; the empty one selects     *)
(* every row.  A step of a program is [kind, items]; an item has a         *)
(* selector `where`, a row `create`, of which the caller has spelled the   *)
(* fields in `spells`, and new values `data`; `skip` is createMany's.      *)
(***************************************************************************)
EXTENDS Naturals, Sequences, FiniteSets, TLC, SequencesExt

CONSTANTS Parent,     \* the key of the parent whose relation is written
          NoParent,   \* NULL
          Broken      \* the outcome of a program that fails

Fits(row, where) == \A f \in DOMAIN where : row[f] = where[f]

Named(t, where) == {r \in t : Fits(r, where)}
Mine(t, where)  == Named(t, where @@ [fk |-> Parent])

KeysDiffer(t) == \A r, q \in t : r = q \/ (r.id # q.id /\ r.slug # q.slug)

\* UPDATE, INSERT and DELETE, as the server runs them on a table.
Changed(row, data) == [f \in DOMAIN row |-> IF f \in DOMAIN data THEN data[f] ELSE row[f]]

Assign(t, hit, data) ==
  LET new == {Changed(r, data) : r \in hit}
      kept == t \ hit IN
  IF Cardinality(new) = Cardinality(hit) /\ new \cap kept = {} /\ KeysDiffer(kept \cup new)
  THEN kept \cup new ELSE Broken

\* The id of a row whose id the database makes.
Generated == 0

\* Ids of the database's own lie above all others.
WithId(t, row) ==
  IF row.id = Generated THEN [row EXCEPT !.id = Max({8} \cup {r.id : r \in t}) + 1] ELSE row

Insert(t, row) ==
  LET new == WithId(t, row) IN
  IF new \notin t /\ KeysDiffer(t \cup {new}) THEN t \cup {new} ELSE Broken

ToOne(w) == w.relation \in {"childHeldToOne", "parentHeldToOne"}

\* A child's key to one parent is unique; of two rows a parent holds the key of in
\* turn, the later stays.
Settled(old, new, w) ==
  LET came   == {r \in new : r.fk = Parent /\ r.id \notin {q.id : q \in Mine(old, <<>>)}}
      shared == \E r, q \in new : r # q /\ r.fk = q.fk /\ r.fk # NoParent IN
  CASE new # Broken /\ w.relation = "parentHeldToOne" /\ came # {} ->
         came \cup Assign(new \ came, Mine(new \ came, <<>>), [fk |-> NoParent])
    [] new # Broken /\ w.relation = "childHeldToOne" /\ shared -> Broken
    [] OTHER -> new
----------------------------------------------------------------------------
Selectors(s) == {s.items[i].where : i \in DOMAIN s.items}
Child(item)  == [item.create EXCEPT !.fk = Parent]

\* How the caller names a row it creates.
ownName(item) == IF "id" \in item.spells THEN [id |-> item.create.id]
                 ELSE [slug |-> item.create.slug]

\* What a step of a program of work w makes of a table.
Meaning(t, s, w) ==
  LET item  == Head(s.items)
      named == UNION {Named(t, x) : x \in Selectors(s)}
      mine  == UNION {Mine(t, x) : x \in Selectors(s)}
      departing == Mine(t, <<>>) \ named
      allNamed  == \A x \in Selectors(s) : Named(t, x) # {}
      allMine   == \A x \in Selectors(s) : Mine(t, x) # {}
      added     == Insert(t, Child(item))
      junction  == w.relation = "junction"
      current   == ToOne(w)
      required  == w.relation = "required"
      if(possible, result) == IF possible THEN result ELSE Broken IN
  CASE s.kind = "disconnect" -> if(junction \/ current \/ (allMine /\ ~required),
                                   Assign(t, mine, [fk |-> NoParent]))
    [] s.kind = "delete"     -> if(allMine \/ current, t \ mine)
    [] s.kind = "update"     -> if(allMine \/ DOMAIN item.data = {}, Assign(t, mine, item.data))
    [] s.kind = "upsert" /\ current -> IF mine = {} THEN added ELSE Assign(t, mine, item.data)
    [] s.kind = "upsert" /\ ~current /\ ~allNamed -> added
    [] s.kind = "upsert" /\ ~current /\ allNamed /\ ~w.fresh -> if(allMine, Assign(t, mine, item.data))
    [] s.kind = "upsert" /\ ~current /\ allNamed /\ w.fresh  ->
         Assign(t, named, item.data @@ [fk |-> Parent])
    [] s.kind = "connectOrCreate" /\ ~allNamed -> added
    [] s.kind = "connectOrCreate" /\ allNamed  -> Assign(t, named, [fk |-> Parent])
    [] s.kind = "set" -> if(allNamed /\ (required => departing = {}),
                            Assign(Assign(t, departing, [fk |-> NoParent]),
                                   named, [fk |-> Parent]))
    [] s.kind = "updateMany" -> Assign(t, mine, item.data)
    [] s.kind = "deleteMany" -> t \ mine
    [] s.kind = "connect"    -> if(allNamed, Assign(t, named, [fk |-> Parent]))
    [] s.kind = "create"     -> added
    \* A skipped duplicate stays as it is; a junction links the row it names.
    [] s.kind = "createMany" ->
         LET it == Named(t, ownName(item)) IN
         CASE added # Broken \/ ~item.skip -> added
           [] added = Broken /\ item.skip /\ ~junction -> t
           [] added = Broken /\ item.skip /\ junction ->
                if(it # {}, Assign(t, it, [fk |-> Parent]))

\* One step after the other, all or nothing.
InTurn(t, steps, w) ==
  FoldLeft(LAMBDA now, s : IF now = Broken THEN Broken
                              ELSE Settled(now, Meaning(now, s, w), w), t, steps)
=============================================================================
