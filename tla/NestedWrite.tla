---------------------------- MODULE NestedWrite ----------------------------
(***************************************************************************)
(* The mutations of a relation nested in an update of its parent, or in    *)
(* the create of it (src/query-engine: the own-write ledger,               *)
(* RelationLinkPart, RelationWritePart, RelationUpsertPart, CreateOperation *)
(* and, where the relation is many-to-many, RelationJunctionPart), while   *)
(* another caller writes to the same table.                                *)
(*                                                                         *)
(* A program is a sequence of mutations of at most one kind each.  All     *)
(* that it needs to know of the table is read before anything is written,  *)
(* so a mutation cannot see what one before it does.  Hence a fixed order  *)
(* of the kinds, and a ledger that refuses a program in which a read may   *)
(* depend on an earlier write.  Between reading and writing, row locks (on *)
(* a driver with transactions) or guards (in a batch) keep what was read.  *)
(*                                                                         *)
(* The children, or the one child, hold the foreign key, a junction table  *)
(* the links, or the parent the key of its one row.  Of a parent that      *)
(* exists nothing else is changed, and a mutation has no mutations nested  *)
(* in it.  A program that loses a race fails here; the retry is            *)
(* WriteEngine's.  The writes of a transaction are one step.               *)
(***************************************************************************)
EXTENDS RelationMutations

CONSTANTS Requests,    \* the programs, with their table and substrate
          Rivals,      \* what another caller may do: sequences of statements
          Unknown      \* a value the payload does not tell

\* The order of the kinds: those that read what they name, those whose writes
\* have no bound, those that only add.
RELATION_MUTATION_KEYS ==
  <<"disconnect", "delete", "update", "upsert", "connectOrCreate",
    "set", "updateMany", "deleteMany", "connect", "create", "createMany">>

Kinds == Range(RELATION_MUTATION_KEYS)

Relations == {"required", "nullable", "junction", "childHeldToOne", "parentHeldToOne"}

\* What `where`, `create` and `data` hold is told.
IsItem(item) ==
  /\ item.spells \subseteq DOMAIN item.create
  /\ \A values \in {item.where, item.create, item.data} :
       \A f \in DOMAIN values : values[f] # Unknown

\* A payload asks for something; of a relation to one row, for one item of a kind.
ASSUME RequestsAssumption ==
  \A r \in Requests :
    /\ r.relation \in Relations
    /\ DOMAIN r.payload # {} /\ DOMAIN r.payload \subseteq Kinds
    /\ \A kind \in DOMAIN r.payload :
         /\ r.payload[kind] \in Seq(Range(r.payload[kind]))
         /\ \A item \in Range(r.payload[kind]) : IsItem(item)
         /\ ToOne(r) => Len(r.payload[kind]) = 1

VARIABLES request, \* [on, fresh, relation, table, payload]: `on` is "transaction" or
                   \* "batch", and the parent of a `fresh` one is created
          program, \* the steps of the payload
          target,  \* the committed rows of the child table, and their links
          phase,   \* where the operation is
          seen,    \* what the reads of planning have returned
          rival    \* what the other caller has done

nestedVars == <<request, program, target, phase, seen, rival>>

Transactional == request.on = "transaction"
Junction      == request.relation = "junction"
Required      == request.relation = "required"
ParentHeld    == request.relation = "parentHeldToOne"
Held          == request.relation \in {"required", "nullable", "childHeldToOne"}
----------------------------------------------------------------------------
(* The program.                                                             *)

\* Of a relation to one row a program has one mutation, or, in an update, one that
\* takes what is there from the child's side and one that brings another.
isVacateThenSupply(steps) ==
  /\ Len(steps) = 2
  /\ steps[1].kind \in {"disconnect", "delete"}
  /\ steps[2].kind \in {"connectOrCreate", "connect", "create"}

Supported(steps, w) ==
  ToOne(w) => \/ Len(steps) = 1
              \/ w.relation = "childHeldToOne" /\ ~w.fresh /\ isVacateThenSupply(steps)

\* Kinds whose items are one decision.
Grouped(relation) ==
  IF relation = "junction" THEN {"set", "connect"} ELSE {"disconnect", "delete", "set", "connect"}

\* The payload maps kinds to items; the program is a sequence of steps.
StepsOf(payload, kind, relation) ==
  IF kind \in Grouped(relation) THEN <<[kind |-> kind, items |-> payload[kind]]>>
  ELSE [i \in DOMAIN payload[kind] |-> [kind |-> kind, items |-> <<payload[kind][i]>>]]

buildRelationMutationProgram(payload, relation) ==
  FlattenSeq([k \in DOMAIN RELATION_MUTATION_KEYS |->
                IF RELATION_MUTATION_KEYS[k] \in DOMAIN payload
                THEN StepsOf(payload, RELATION_MUTATION_KEYS[k], relation) ELSE <<>>])
----------------------------------------------------------------------------
(* The own-write ledger.  A constraint says what is known of a row's        *)
(* identity: a function from some of the fields `id` and `slug`.            *)

Identity == {"id", "slug"}
Anything == [f \in Identity |-> Unknown]
createIdentity(item) ==
  [f \in Identity |-> IF f \in item.spells THEN item.create[f] ELSE Unknown]

\* A bug: a program is refused however clear it is that its rows differ.
NeverDisjoint(l, r) == FALSE

\* Only values of certain types prove that two rows differ; of ours, `id` has one,
\* while the collation decides which slugs are equal.
provesDisjoint(l, r) == /\ "id" \in DOMAIN l \cap DOMAIN r
                        /\ Unknown \notin {l.id, r.id}
                        /\ l.id # r.id

\* How a row that `where` names can be named once it has been given `data`.
updateResults(item) ==
  LET renamed == DOMAIN item.data \cap Identity
      result  == [f \in renamed \cup DOMAIN item.where |->
                    IF f \in renamed THEN item.data[f] ELSE item.where[f]] IN
  {item.where} \cup (IF renamed = {} THEN {} ELSE {result})

\* What a filter says of the identity of the rows it finds.
filterConstraint(where) == [f \in Identity |-> IF f \in DOMAIN where THEN where[f] ELSE Unknown]

\* The fields are those that a read looks at and that a write of a predicate changes.
Row(c)               == [of |-> c, what |-> "row", fields |-> DOMAIN c]
Filtered(c, fields)  == [of |-> c, what |-> "row", fields |-> fields]
Predicate(c, fields) == [of |-> c, what |-> "predicate", fields |-> fields]
Member(c)            == [of |-> c, what |-> "member", fields |-> {}]

\* What is current is whatever row the one-row relation has.
ToOneReads(s) ==
  LET where == Head(s.items).where IN
  CASE s.kind = "connectOrCreate" -> {Row(where)}
    [] s.kind = "connect" -> IF ParentHeld /\ ~request.fresh THEN {Row(where)} ELSE {}
    [] s.kind = "upsert"  -> {Member(Anything)}
    [] s.kind = "update"  ->
         IF DOMAIN where = {} THEN {Member(Anything)}
         ELSE {Filtered(filterConstraint(where), DOMAIN where), Member(filterConstraint(where))}
    [] s.kind \in {"disconnect", "delete", "create"} -> {}

Reads(s) ==
  LET rows    == {Row(w) : w \in Selectors(s)}
      members == {Member(w) : w \in Selectors(s)}
      filter  == Head(s.items).where IN
  IF ToOne(request) THEN ToOneReads(s) ELSE
  CASE s.kind \in {"update", "upsert"}  -> rows \cup members
    [] s.kind \in {"delete", "set"}     -> rows \cup IF Junction THEN {} ELSE members
    [] s.kind = "disconnect"            -> IF Junction THEN {} ELSE rows \cup members
    [] s.kind = "connectOrCreate"       -> rows
    [] s.kind = "deleteMany" /\ Junction ->
         {Filtered(filterConstraint(filter), DOMAIN filter), Member(filterConstraint(filter))}
    [] s.kind = "deleteMany" /\ ~Junction -> {}
    [] s.kind \in {"updateMany", "connect", "create", "createMany"} -> {}

Writes(s) ==
  LET item    == Head(s.items)
      created == {Row(createIdentity(item)), Member(createIdentity(item))}
      members == {Member(w) : w \in Selectors(s)}
      bulk    == IF s.kind = "deleteMany" /\ Junction THEN filterConstraint(item.where)
                 ELSE Anything IN
  CASE s.kind \in {"disconnect", "connect"} -> members
    [] s.kind = "delete"          -> members \cup {Row(w) : w \in Selectors(s)}
    [] s.kind = "update"          -> {Row(c) : c \in updateResults(item)} \* and their predicates
    [] s.kind = "upsert"          -> created \cup members \cup
                                     {Predicate(c, DOMAIN item.data) : c \in updateResults(item)}
    [] s.kind = "connectOrCreate" -> created \cup members
    [] s.kind = "set"             -> {Member(Anything)}
    [] s.kind \in {"updateMany", "deleteMany"} -> {Row(bulk), Member(bulk)}
    [] s.kind \in {"create", "createMany"} -> created

mayAffect(w, r) ==
  /\ ~provesDisjoint(w.of, r.of)
  /\ \/ w.what = r.what
     \/ w.what = "predicate" /\ r.what = "row" /\ w.fields \cap r.fields # {}

\* Two items of connectOrCreate with one selector are one decision.
Repeats(steps, j) == \E i \in 1..(j - 1) : /\ steps[i].kind = "connectOrCreate"
                                           /\ steps[j].kind = "connectOrCreate"
                                           /\ Selectors(steps[i]) = Selectors(steps[j])

assertIndependent(steps) ==
  \A i, j \in {k \in DOMAIN steps : ~Repeats(steps, k)} :
    i < j => \A w \in Writes(steps[i]), r \in Reads(steps[j]) : ~mayAffect(w, r)
----------------------------------------------------------------------------
(* Planning.  A probe looks for the rows that the items of a step name,     *)
(* among "all" rows or among "mine", the parent's children; for the latter  *)
(* it has the key from the read that located the parent.                    *)

\* Rows that a junction may find already there, and that name no primary key, are
\* looked for first; the rows of one createMany spell the key all or none.
skipDuplicatesDisposition(s) ==
  IF Junction /\ s.kind = "createMany" /\ Head(s.items).skip /\ "id" \notin Head(s.items).spells
  THEN [kind |-> "connectOrCreate",
        items |-> <<[Head(s.items) EXCEPT !.where = ownName(Head(s.items))]>>]
  ELSE s

part(k) == skipDuplicatesDisposition(program[k])

\* A nested update that asks for nothing reads nothing.
isNoOpUpdate(s) == s.kind = "update" /\ DOMAIN Head(s.items).data = {}

\* A row that is brought to a relation to one row, or the one it has.  The key that a
\* parent holds has been "located" with the parent.
toOneProbes(s) ==
  CASE s.kind \in {"connect", "connectOrCreate"} -> <<"all">>
    [] s.kind \in {"update", "upsert"} -> IF ParentHeld THEN <<"located", "mine">> ELSE <<"mine">>
    [] s.kind = "delete" -> IF ParentHeld THEN <<"located">> ELSE <<>>
    [] s.kind \in {"create", "disconnect"} -> <<>>

\* `set` on a required key needs to know of a child that would depart.
toManyProbes(s) ==
  CASE s.kind \in {"delete", "update"} -> <<"mine">>
    [] s.kind = "disconnect" -> IF Junction THEN <<>> ELSE <<"mine">>
    [] s.kind = "deleteMany" -> IF Junction THEN <<"mine">> ELSE <<>>
    [] s.kind = "upsert" -> IF Junction /\ ~request.fresh THEN <<"mine", "all">> ELSE <<"all">>
    [] s.kind = "set"        -> IF Required THEN <<"all", "mine">> ELSE <<"all">>
    [] s.kind \in {"connectOrCreate", "connect"} -> <<"all">>
    [] s.kind \in {"updateMany", "create", "createMany"} -> <<>>

probesOf(s) == CASE isNoOpUpdate(s) -> <<>>
                 [] ~isNoOpUpdate(s) /\ ToOne(request)  -> toOneProbes(s)
                 [] ~isNoOpUpdate(s) /\ ~ToOne(request) -> toManyProbes(s)

planning ==
  FlattenSeq([k \in DOMAIN program |->
    [i \in DOMAIN probesOf(part(k)) |-> [step |-> k, among |-> probesOf(part(k))[i]]]])

departingWhere(s) == [some |-> {[fk |-> Parent]}, but |-> Selectors(s)]

At(t, address) == {r \in t : /\ \E w \in address.some : Fits(r, w)
                             /\ \A w \in address.but : ~Fits(r, w)}

\* What the probe of a step has returned, for each of its items.
found(k, among) ==
  seen[CHOOSE i \in DOMAIN planning : planning[i] = [step |-> k, among |-> among]]

\* The row whose key the located parent held.
Referred(t, k) == {r \in t : r.id \in {q.id : q \in found(k, "located")[1]}}

probe(t, read) ==
  LET s == part(read.step)
      where == Head(s.items).where IN
  CASE read.among = "all"  -> [i \in DOMAIN s.items |-> Named(t, s.items[i].where)]
    [] read.among = "located" -> <<Mine(t, <<>>)>>
    [] read.among = "mine" /\ s.kind = "set" -> <<At(t, departingWhere(s))>>
    [] read.among = "mine" /\ s.kind # "set" /\ ParentHeld -> <<Named(Referred(t, read.step), where)>>
    [] read.among = "mine" /\ s.kind # "set" /\ ~ParentHeld ->
         [i \in DOMAIN s.items |-> Mine(t, s.items[i].where)]
----------------------------------------------------------------------------
(* Compiling.  A step with its finding gives guards and writes, or fails.   *)

Only(where)       == [some |-> {where}, but |-> {}]
OneOf(wheres)       == [some |-> wheres, but |-> {}]
exists(address)   == [at |-> address, exists |-> TRUE]
Update(at, data)  == [kind |-> "update", at |-> at, data |-> data, one |-> FALSE]
UpdateOne(at, data) ==
  [kind |-> "update", at |-> at, data |-> data, one |-> Transactional]
UpdateAny(at, data) == IF DOMAIN data = {} THEN <<>> ELSE <<UpdateOne(at, data)>>
Delete(at)        == [kind |-> "delete", at |-> at]
New(row)          == [kind |-> "insert", row |-> row, skip |-> FALSE]

Adopt   == [fk |-> Parent]
Release == [fk |-> NoParent]

\* Rows of the junction table: the links go, or are added if they are not there.
Unlink(wheres) == Update(OneOf({w @@ Adopt : w \in wheres}), Release)
Link(pks)      == [kind |-> "link", at |-> OneOf(pks)]

capturedPk(rows) == [id |-> (CHOOSE r \in rows : TRUE).id]

\* A bug: the guard asks for the selector only, and another row may fit it by now.
guardOfSelector(where, rows) == exists(Only(where))

\* The row the probe returned is still the one the selector names.
guardOf(where, rows) == exists(Only(where @@ capturedPk(rows)))

\* What an item of connectOrCreate is known by; the second with a key adopts what
\* the first has created.
connectOrCreateTargetKey(item) ==
  IF "id" \in item.spells THEN {item.create.id}
  ELSE IF "id" \in DOMAIN item.where THEN {item.where.id} ELSE {}

duplicateOfEarlier(k) ==
  \E i \in 1..(k - 1) :
    /\ program[i].kind = "connectOrCreate"
    /\ connectOrCreateTargetKey(Head(program[i].items)) \cap
       connectOrCreateTargetKey(Head(program[k].items)) # {}

Fails == [ok |-> FALSE, guards |-> {}, writes |-> <<>>]
Emits(guards, writes) == [ok |-> TRUE, guards |-> guards, writes |-> writes]

Missed(rows) == \E i \in DOMAIN rows : rows[i] = {}
Pks(rows)    == {capturedPk(rows[i]) : i \in DOMAIN rows}
Pins(s, rows) == {guardOf(s.items[i].where, rows[i]) : i \in DOMAIN rows}

compileLink(s, rows) ==
  LET wheres == Selectors(s)
      mine   == {w @@ Adopt : w \in wheres} IN
  CASE Missed(rows) -> Fails
    [] ~Missed(rows) /\ s.kind = "connect" ->
         Emits({exists(Only(w)) : w \in wheres}, <<Update(OneOf(wheres), Adopt)>>)
    [] ~Missed(rows) /\ s.kind = "disconnect" ->
         Emits({exists(Only(w)) : w \in mine}, <<Update(OneOf(mine), Release)>>)

compileTargeted(s, rows) ==
  IF Missed(rows) THEN Fails
  ELSE Emits({guardOf(s.items[i].where @@ Adopt, rows[i]) : i \in DOMAIN rows},
             [i \in DOMAIN rows |->
                IF s.kind = "delete" THEN Delete(Only(capturedPk(rows[i])))
                ELSE Update(Only(capturedPk(rows[i])), s.items[i].data)])

compileSet(s, rows, leaving) ==
  LET reparent == IF rows = <<>> THEN <<>> ELSE <<Update(OneOf(Pks(rows)), Adopt)>> IN
  CASE leaving # {} \/ Missed(rows) -> Fails
    [] leaving = {} /\ ~Missed(rows) /\ Required ->
         Emits(Pins(s, rows) \cup {[at |-> departingWhere(s), exists |-> FALSE]}, reparent)
    [] leaving = {} /\ ~Missed(rows) /\ ~Required ->
         Emits(Pins(s, rows), <<Update(departingWhere(s), Release)>> \o reparent)

\* A new parent adopts a row from wherever it is.
compileUpsert(s, rows) ==
  LET item   == Head(s.items)
      premise == IF request.fresh THEN item.where ELSE item.where @@ Adopt IN
  CASE rows = {} -> Emits({}, <<New(Child(item))>>)
    [] rows # {} /\ (request.fresh \/ \A r \in rows : r.fk = Parent) ->
         Emits({guardOf(premise, rows)},
               <<UpdateOne(Only(capturedPk(rows)), item.data @@ Adopt)>>)
    [] rows # {} /\ ~request.fresh /\ (\E r \in rows : r.fk # Parent) -> Fails

compileConnectOrCreate(k, rows) ==
  LET item == Head(program[k].items) IN
  CASE rows = {} /\ duplicateOfEarlier(k) -> Emits({}, <<UpdateOne(Only(item.where), Adopt)>>)
    [] rows = {} /\ ~duplicateOfEarlier(k) -> Emits({}, <<New(Child(item))>>)
    [] rows # {} -> Emits({guardOf(item.where, rows)},
                          <<UpdateOne(Only(capturedPk(rows)), Adopt)>>)

compileBulk(s) ==
  LET item == Head(s.items)
      children == Only(item.where @@ Adopt) IN
  IF s.kind = "deleteMany" THEN Emits({}, <<Delete(children)>>)
  ELSE Emits({}, IF DOMAIN item.data = {} THEN <<>> ELSE <<Update(children, item.data)>>)

\* The one child is found by the parent alone.
compileInverseToOneUpsert(s, rows) ==
  LET item == Head(s.items) IN
  CASE rows = {} -> Emits({}, <<New(Child(item))>>)
    [] rows # {} /\ DOMAIN item.data = {} -> Emits({}, <<>>)
    [] rows # {} /\ DOMAIN item.data # {} ->
         Emits({guardOf(Adopt, rows)}, <<UpdateOne(Only(capturedPk(rows)), item.data)>>)

interpretInverseToOneKind(k) ==
  LET s == part(k) IN
  CASE s.kind = "create"     -> Emits({}, <<New(Child(Head(s.items)))>>)
    [] s.kind = "connect"    -> compileLink(s, found(k, "all"))
    [] s.kind = "connectOrCreate" -> compileConnectOrCreate(k, found(k, "all")[1])
    [] s.kind = "update"     -> compileTargeted(s, found(k, "mine"))
    [] s.kind = "upsert"     -> compileInverseToOneUpsert(s, found(k, "mine")[1])
    [] s.kind = "disconnect" -> Emits({}, <<Update(Only(Adopt), Release)>>)
    [] s.kind = "delete"     -> Emits({}, <<Delete(Only(Adopt))>>)

compileHeld(k) ==
  LET s == part(k) IN
  CASE s.kind = "disconnect" -> IF Required THEN Fails ELSE compileLink(s, found(k, "mine"))
    [] s.kind = "connect"    -> compileLink(s, found(k, "all"))
    [] s.kind \in {"delete", "update"} -> compileTargeted(s, found(k, "mine"))
    [] s.kind = "set" ->
         compileSet(s, found(k, "all"), IF Required THEN found(k, "mine")[1] ELSE {})
    [] s.kind = "upsert"          -> compileUpsert(s, found(k, "all")[1])
    [] s.kind = "connectOrCreate" -> compileConnectOrCreate(k, found(k, "all")[1])
    [] s.kind \in {"updateMany", "deleteMany"} -> compileBulk(s)
    [] s.kind \in {"create", "createMany"} ->
         Emits({}, <<[New(Child(Head(s.items))) EXCEPT !.skip = Head(s.items).skip]>>)
----------------------------------------------------------------------------
(* The same for a junction.                                                 *)

compileFreshTarget(item, skip) ==
  <<[New(item.create) EXCEPT !.skip = skip], Link({ownName(item)})>>

compileJunctionLinks(s, rows) ==
  LET cleared == IF s.kind = "set" THEN <<Unlink({<<>>})>> ELSE <<>>
      linked  == IF rows = <<>> THEN <<>> ELSE <<Link(Pks(rows))>> IN
  IF Missed(rows) THEN Fails ELSE Emits(Pins(s, rows), cleared \o linked)

\* The rows to delete are those the plan has read: none has come since, none left.
membershipDifference(connected, pks) ==
  {[at |-> [some |-> {connected}, but |-> pks], exists |-> FALSE],
   [at |-> [some |-> pks, but |-> {connected}], exists |-> FALSE]}

compileJunctionDeleteMany(s, rows) ==
  LET pks == {[id |-> r.id] : r \in rows} IN
  Emits(membershipDifference(Head(s.items).where @@ Adopt, pks), <<Delete(OneOf(pks))>>)

\* The earlier items of the same list that create the row this one asks for.
adoptDedupKey(item) == IF "id" \in item.spells THEN [id |-> item.create.id] ELSE item.where

createdBefore(k) == {i \in 1..(k - 1) :
                 /\ program[i].kind = program[k].kind
                 /\ found(i, "all")[1] = {}
                 /\ adoptDedupKey(Head(part(i).items)) = adoptDedupKey(Head(part(k).items))}

compileJunctionAdopt(k, rows) ==
  LET item == Head(part(k).items)
      firstOf(ks) == Head(part(CHOOSE i \in ks : \A j \in ks : i <= j).items) IN
  CASE rows # {} -> Emits({guardOf(item.where, rows)}, <<Link({capturedPk(rows)})>>)
    [] rows = {} /\ createdBefore(k) # {} ->
         Emits({}, <<Link({ownName(firstOf(createdBefore(k)))})>>)
    [] rows = {} /\ createdBefore(k) = {} -> Emits({}, compileFreshTarget(item, FALSE))

compileJunctionUpsert(s, members, rows) ==
  LET item == Head(s.items) IN
  CASE members # {} -> Emits({guardOf(item.where @@ Adopt, members)},
                             <<UpdateOne(Only(capturedPk(members)), item.data)>>)
    [] members = {} /\ rows # {} -> Fails
    [] members = {} /\ rows = {} -> Emits({}, compileFreshTarget(item, FALSE))

\* A new parent has no members.
compileFreshUpsert(s, rows) ==
  LET item == Head(s.items)
      pk   == capturedPk(rows) IN
  IF rows = {} THEN Emits({}, compileFreshTarget(item, FALSE))
  ELSE Emits({guardOf(item.where, rows)}, UpdateAny(Only(pk), item.data) \o <<Link({pk})>>)

compileJunction(k) ==
  LET s == part(k) IN
  CASE s.kind = "disconnect"         -> Emits({}, <<Unlink(Selectors(s))>>)
    [] s.kind \in {"connect", "set"} -> compileJunctionLinks(s, found(k, "all"))
    [] s.kind \in {"delete", "update"} -> compileTargeted(s, found(k, "mine"))
    [] s.kind = "deleteMany"         -> compileJunctionDeleteMany(s, found(k, "mine")[1])
    [] s.kind = "updateMany"         -> compileBulk(s)
    [] s.kind = "upsert" /\ request.fresh -> compileFreshUpsert(s, found(k, "all")[1])
    [] s.kind = "upsert" /\ ~request.fresh ->
         compileJunctionUpsert(s, found(k, "mine")[1], found(k, "all")[1])
    [] s.kind = "connectOrCreate"    -> compileJunctionAdopt(k, found(k, "all")[1])
    [] s.kind \in {"create", "createMany"} ->
         Emits({}, compileFreshTarget(Head(s.items), Head(s.items).skip))

(* The row whose key the parent holds.  A new one comes before the parent,  *)
(* or before the update of the parent that refers to it.                    *)

toOneFkAssign(where) == <<Link({where})>>

\* The guard asks for the row, and not whether the parent still refers to it.
compileParentHeldUpdate(item, rows) ==
  IF rows = {} THEN Fails
  ELSE Emits({guardOf(item.where, rows)}, <<UpdateOne(Only(capturedPk(rows)), item.data)>>)

compileParentHeldUpsert(item, rows) ==
  CASE rows = {} -> Emits({}, compileFreshTarget(item, FALSE))
    [] rows # {} /\ DOMAIN item.data = {} -> Emits({}, <<>>)
    [] rows # {} /\ DOMAIN item.data # {} -> compileParentHeldUpdate(item, rows)

compileParentHeldDelete(located) ==
  Emits({}, <<Update(Only(Adopt), Release)>> \o
            (IF located = {} THEN <<>> ELSE <<Delete(Only(capturedPk(located)))>>))

compileParentHeldConnectOrCreate(item, rows) ==
  IF rows = {} THEN Emits({}, compileFreshTarget(item, FALSE))
  ELSE Emits({exists(Only(item.where))}, toOneFkAssign(item.where))

compileToOneConnect(item, rows) ==
  IF rows = {} THEN Fails ELSE Emits({exists(Only(item.where))}, toOneFkAssign(item.where))

compileParentHeldTargets(k) ==
  LET s    == part(k)
      item == Head(s.items) IN
  CASE s.kind = "create"     -> Emits({}, compileFreshTarget(item, FALSE))
    [] s.kind = "connect"    -> compileToOneConnect(item, found(k, "all")[1])
    [] s.kind = "connectOrCreate" -> compileParentHeldConnectOrCreate(item, found(k, "all")[1])
    [] s.kind = "disconnect" -> Emits({}, <<Update(Only(Adopt), Release)>>)
    [] s.kind = "update"     -> compileParentHeldUpdate(item, found(k, "mine")[1])
    [] s.kind = "upsert"     -> compileParentHeldUpsert(item, found(k, "mine")[1])
    [] s.kind = "delete"     -> compileParentHeldDelete(found(k, "located")[1])

compile(k) == CASE isNoOpUpdate(part(k)) -> Emits({}, <<>>)
                [] ~isNoOpUpdate(part(k)) /\ Junction   -> compileJunction(k)
                [] ~isNoOpUpdate(part(k)) /\ ParentHeld -> compileParentHeldTargets(k)
                [] ~isNoOpUpdate(part(k)) /\ Held /\ ~ToOne(request) -> compileHeld(k)
                [] ~isNoOpUpdate(part(k)) /\ Held /\ ToOne(request)  ->
                     interpretInverseToOneKind(k)
----------------------------------------------------------------------------
(* The statements of an operation: the guards before all writes, and no     *)
(* guards in a transaction, which has locks.                                *)

Adders == {"create", "createMany"}
Steps(kinds) == SelectSeq([k \in DOMAIN program |-> k], LAMBDA k : program[k].kind \in kinds)

\* A create emits the rows it adds to a relation before anything else it does to it;
\* an update of a parent that holds a key, what comes of the old key after the new.
FromOldKey == {"update", "delete", "upsert"}
emitRecord ==
  CASE request.fresh /\ Held        -> Steps(Adders) \o Steps(Kinds \ Adders)
    [] ~request.fresh /\ ParentHeld -> Steps(Kinds \ FromOldKey) \o Steps(FromOldKey)
    [] IF request.fresh THEN ~Held ELSE ~ParentHeld -> [k \in DOMAIN program |-> k]

\* Each create is a statement, and the rows of a createMany are one.
foldArms == [i \in DOMAIN Steps({"create"}) |-> <<Steps({"create"})[i]>>]
              \o (IF Steps({"createMany"}) = <<>> THEN <<>> ELSE <<Steps({"createMany"})>>)

AssignsIds(arm) == \E k \in Range(arm) : "id" \notin Head(program[k].items).spells
Skipping(arm)   == \E k \in Range(arm) : Head(program[k].items).skip

foldArmsAreOrderInsensitive ==
  /\ \A i, j \in DOMAIN foldArms : AssignsIds(foldArms[i]) /\ AssignsIds(foldArms[j]) => i = j
  /\ \A i \in DOMAIN foldArms : Skipping(foldArms[i]) => Len(foldArms) = 1

\* A create that has asked nothing may go as one WITH (on PostgreSQL), whose arms
\* run in any order.
buildTreeFold ==
  IF Transactional /\ request.fresh /\ Held /\ planning = <<>> /\ foldArmsAreOrderInsensitive
  THEN {FlattenSeq([i \in DOMAIN foldArms |-> foldArms[p[i]]]) : p \in Permutations(DOMAIN foldArms)}
  ELSE {}

fragment ==
  LET parts == [k \in DOMAIN program |-> compile(k)] IN
  [ok     |-> \A k \in DOMAIN parts : parts[k].ok,
   guards |-> IF Transactional THEN {} ELSE UNION {parts[k].guards : k \in DOMAIN parts},
   writes |-> {FlattenSeq([i \in DOMAIN order |-> parts[order[i]].writes]) :
                 order \in {emitRecord} \cup buildTreeFold}]
----------------------------------------------------------------------------
(* The server.                                                              *)

Execute(t, w) ==
  LET hit == At(t, w.at)
      made ==
        CASE w.kind = "insert" -> IF w.skip /\ Insert(t, w.row) = Broken THEN t ELSE Insert(t, w.row)
          [] w.kind = "delete" -> t \ hit
          \* The junction's foreign key holds it to rows there are.
          [] w.kind = "link"   -> IF Cardinality(hit) = Cardinality(w.at.some)
                                  THEN Assign(t, hit, Adopt) ELSE Broken
          [] w.kind = "update" -> IF w.one /\ Cardinality(hit) # 1 THEN Broken
                                  ELSE Assign(t, hit, w.data) IN
  Settled(t, made, request)

Run(t, writes) ==
  FoldLeft(LAMBDA now, w : IF now = Broken THEN Broken ELSE Execute(now, w), t, writes)

GuardsHold(guards, t) == \A g \in guards : g.exists = (At(t, g.at) # {})

\* Rows that a probe of an open transaction has locked; what it has read of the
\* junction table is not locked, and the parent is, from the read that locates it.
Locked ==
  IF ~Transactional THEN {}
  ELSE {r.id : r \in UNION {UNION Range(seen[i]) :
                 i \in {x \in DOMAIN seen : planning[x].among # "located"}}}

Children(t) == {r.id : r \in Mine(t, <<>>)}

\* Nobody knows a parent that is being created.
Permitted(new) ==
  /\ Required => \A r \in new : r.fk # NoParent
  /\ Transactional \/ request.fresh => Children(new) \subseteq Children(target)
  /\ Transactional /\ ParentHeld => Children(new) = Children(target)
  /\ \A r \in target \ new :
       r.id \in Locked => Junction /\ r.fk = Parent /\ \E q \in new : q = [r EXCEPT !.fk = q.fk]
----------------------------------------------------------------------------
NestedInit ==
  /\ request \in Requests
  /\ program = buildRelationMutationProgram(request.payload, request.relation)
  /\ target = request.table
  /\ phase = "new"
  /\ seen = <<>>
  /\ rival = <<>>

\* The ledger is consulted before anything is read.
Refuse == /\ phase = "new"
          /\ ~(Supported(program, request) /\ assertIndependent(program))
          /\ phase' = "refused"
          /\ UNCHANGED <<request, program, target, seen, rival>>

Accept == /\ phase = "new"
          /\ Supported(program, request)
          /\ assertIndependent(program)
          /\ phase' = IF planning = <<>> /\ (Transactional \/ request.fresh) THEN "run"
                      ELSE "plan"
          /\ UNCHANGED <<request, program, target, seen, rival>>

\* In a transaction the probes run one after the other.
executeLinear ==
  /\ phase = "plan" /\ Transactional
  /\ seen' = Append(seen, probe(target, planning[Len(seen) + 1]))
  /\ phase' = IF Len(seen') = Len(planning) THEN "run" ELSE "plan"
  /\ UNCHANGED <<request, program, target, rival>>

\* A batch-only driver gets them in two rounds: those that need nothing from the
\* read of the parent, together with that read, and then the others.  A create has
\* no such read.
executePlanningLevels ==
  /\ ~Transactional
  /\ \/ /\ phase = "plan"
        /\ seen' = [i \in DOMAIN planning |->
                      IF planning[i].among = "mine" THEN <<>> ELSE probe(target, planning[i])]
        /\ phase' = IF request.fresh THEN "run" ELSE "correlate"
     \/ /\ phase = "correlate"
        /\ seen' = [i \in DOMAIN planning |->
                      IF planning[i].among = "mine" THEN probe(target, planning[i]) ELSE seen[i]]
        /\ phase' = "run"
  /\ UNCHANGED <<request, program, target, rival>>

\* Another caller commits, if no lock keeps it from what it needs.
Interfere == /\ phase \in {"plan", "correlate", "run"}
             /\ rival = <<>>
             /\ \E statements \in Rivals :
                  LET new == Run(target, statements) IN
                  /\ new \notin {Broken, target}
                  /\ Permitted(new)
                  /\ target' = new
                  /\ rival' = statements
             /\ UNCHANGED <<request, program, phase, seen>>

Complete == /\ phase = "run"
            /\ LET f == fragment IN
                 /\ f.ok
                 /\ GuardsHold(f.guards, target)
                 /\ \E writes \in f.writes :
                      /\ Run(target, writes) # Broken
                      /\ target' = Run(target, writes)
            /\ phase' = "done"
            /\ UNCHANGED <<request, program, seen, rival>>

\* The compiler throws, a guard fails or a statement does; nothing stays.
Abandon == /\ phase = "run"
           /\ LET f == fragment IN
                f.ok /\ GuardsHold(f.guards, target) =>
                  \E writes \in f.writes : Run(target, writes) = Broken
           /\ phase' = "failed"
           /\ UNCHANGED <<request, program, target, seen, rival>>

NestedNext == \/ Refuse \/ Accept \/ executeLinear \/ executePlanningLevels \/ Interfere
              \/ Complete \/ Abandon

NestedSpec == NestedInit /\ [][NestedNext]_nestedVars
----------------------------------------------------------------------------
(* What must hold.                                                          *)

\* A program that succeeds has done what its mutations mean one after the other,
\* although each was planned on the table before all of them.  In a batch they
\* have run on the table as the batch found it; in a transaction, which reads
\* committed rows, the other caller may count as having come between any two, and
\* where the relation is to one row, after the batch
\* (relation-mutation-parser.ts:19, and the guards that keep it under a race).
SerialOutcome ==
  phase = "done" =>
    \E k \in 0..Len(program) :
      /\ k = 0 \/ Transactional \/ (ToOne(request) /\ k = Len(program))
      /\ LET before == InTurn(request.table, SubSeq(program, 1, k), request) IN
           /\ before # Broken /\ Run(before, rival) # Broken
           /\ target = InTurn(Run(before, rival), SubSeq(program, k + 1, Len(program)), request)

\* The ids the items of a step name: by a selector, for a new row, or as a new key.
NamedIds(s) ==
  LET items == Range(s.items) IN
  {item.where.id : item \in {x \in items : "id" \in DOMAIN x.where}} \cup
  {item.create.id : item \in {x \in items : "id" \in x.spells}} \cup
  {item.data.id : item \in {x \in items : "id" \in DOMAIN x.data}}

\* Every row a step names, it names by its id, and one that finds rows by a filter
\* reads nothing.
Nameless == {"create", "createMany"} \cup
            CASE Junction -> {}
              [] Held /\ ~ToOne(request) -> {"updateMany", "deleteMany"}
              [] ToOne(request) -> {"disconnect", "delete", "update", "upsert"}

TellsIds(s) ==
  \A item \in Range(s.items) :
    /\ s.kind \notin Nameless =>
         DOMAIN item.where = {"id"}
    /\ s.kind \in {"upsert", "connectOrCreate", "create", "createMany"} => "id" \in item.spells

\* A refused program whose rows are told apart by their ids has two mutations that
\* name one row, or two intents for the one row of a relation, or it deletes that row
\* and asks for one that may be it, or it deletes members of a junction that a `set`
\* or an updateMany before may have changed.  No other refusal is an artefact of the
\* order of the kinds
\* (relation-mutation-parser.ts:34, OwnWriteLedger.assertIndependent).
RefusedIsContradiction ==
  phase = "refused" /\ (\A k \in DOMAIN program : TellsIds(program[k])) =>
    \E i, j \in DOMAIN program :
      /\ i < j
      /\ \/ NamedIds(program[i]) \cap NamedIds(program[j]) # {}
         \/ ToOne(request) /\ ~Supported(program, request)
         \/ /\ ToOne(request)
            /\ program[i].kind = "delete" /\ program[j].kind = "connectOrCreate"
         \/ /\ Junction
            /\ program[i].kind \in {"set", "updateMany"} /\ program[j].kind = "deleteMany"
=============================================================================
