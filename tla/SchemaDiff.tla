----------------------------- MODULE SchemaDiff -----------------------------
(***************************************************************************)
(* The scripts that `generate` (src/migrations/generate) writes for an     *)
(* edited schema, and what becomes of a populated database when `apply`    *)
(* runs the one and `down` the other.                                      *)
(*                                                                         *)
(* A model of the schema is a record of columns, keys and to-one           *)
(* relations; a table is its columns and its items: primary key, unique    *)
(* constraints, indexes and foreign keys, under the names the serializer   *)
(* gives them.  Operations carry the definitions that the code looks up    *)
(* in the previous snapshot.  Every model has a primary key; relations are *)
(* required, over one column, to another table; added columns are nullable *)
(* or have a default.  Enums and partial indexes are left out.             *)
(***************************************************************************)
EXTENDS Lists, FiniteSets, SequencesExt

CONSTANT Workloads  \* dialect, the models before and after, the resolver's answer

NamesDiffer(s) == \A i, j \in DOMAIN s : s[i].name = s[j].name => i = j
IsColumn(c)    == DOMAIN c = {"name", "type", "rest"}
IsModel(m)     == /\ IsList(m.columns) /\ NamesDiffer(m.columns)
                  /\ \A c \in Range(m.columns) : IsColumn(c)
                  /\ IsList(m.uniques) /\ IsList(m.indexes) /\ IsList(m.relations)

\* Models are properties of one object, and so are the columns of a model.
ASSUME WorkloadsAssumption ==
  \A w \in Workloads : /\ IsList(w.from) /\ NamesDiffer(w.from)
                       /\ IsList(w.to) /\ NamesDiffer(w.to)
                       /\ \A m \in Range(w.from) \cup Range(w.to) : IsModel(m)

VARIABLES
  work,     \* the workload: [dialect, from, to, answer]
  pc,       \* "generate", "up", "applied", "down", "reverted" or "failed"
  script,   \* the statements of the script that runs
  at,       \* the next of them
  tables    \* the database; `data` of a column: the column its values were in

vars == <<work, pc, script, at, tables>>

Names(s)    == {s[i].name : i \in DOMAIN s}
Named(s, n) == s[CHOOSE i \in DOMAIN s : s[i].name = n]
Without(s, other) == Among(s, {x \in Range(s) : x.name \notin Names(other)})
----------------------------------------------------------------------------
(* serializeModels                                                          *)

Item(kind, t, cols) ==
  [kind |-> kind, name |-> <<kind, t, cols>>, cols |-> cols, to |-> <<>>]

\* The index that serves a foreign key is left out where another one covers it.
TableOf(m) ==
  LET single(rs) == [i \in DOMAIN rs |-> <<rs[i].column>>]
      items(kind, columns) == [i \in DOMAIN columns |-> Item(kind, m.name, columns[i])]
      keys == m.uniques \o single(Among(m.relations, {r \in Range(m.relations) :
                r.kind = "one" /\ <<r.column>> \notin {m.pk} \cup Range(m.uniques)}))
      bare == Among(m.relations, {r \in Range(m.relations) :
                /\ r.kind = "many"
                /\ \A cols \in {m.pk} \cup Range(keys) \cup {x.cols : x \in Range(m.indexes)} :
                     Head(cols) # r.column})
  IN [name |-> m.name, columns |-> m.columns,
      items |-> <<[Item("pk", m.name, m.pk) EXCEPT !.name = <<"pk", m.name>>]>>
        \o items("unique", keys)
        \o [i \in DOMAIN m.indexes |->
              [Item("index", m.name, m.indexes[i].cols) EXCEPT !.name = m.indexes[i].name]]
        \o items("index", single(bare))
        \o [i \in DOMAIN m.relations |->
              [Item("fk", m.name, <<m.relations[i].column>>) EXCEPT !.to = m.relations[i].to]]]

Schema(models) == [i \in DOMAIN models |-> TableOf(models[i])]
----------------------------------------------------------------------------
(* diff and resolveAmbiguousChanges                                         *)

DropOf == [fk |-> "dropForeignKey", index |-> "dropIndex",
           unique |-> "dropUniqueConstraint", pk |-> "dropPrimaryKey"]
AddOf  == [fk |-> "addForeignKey", index |-> "createIndex",
           unique |-> "addUniqueConstraint", pk |-> "addPrimaryKey"]

Op(do, t)              == [do |-> do, table |-> t]
ItemOp(do, t, item)    == [do |-> do, table |-> t, item |-> item]
ColumnOp(do, t, c)     == [do |-> do, table |-> t, column |-> c]
TableOp(do, def)       == [do |-> do, table |-> def.name, def |-> def]
ChangeOp(do, t, f, to) == [do |-> do, table |-> t, from |-> f, to |-> to]

\* Each dropped element and the first added one like it that is not taken.
Pairs(dropped, added, alike) ==
  LET pairs[i \in 0..Len(dropped)] ==
        IF i = 0 THEN <<>>
        ELSE LET before == pairs[i - 1]
                 free == Among(added, {a \in Range(added) :
                           <<dropped[i], a>> \in alike /\ \A p \in Range(before) : p[2] # a}) IN
             IF free = <<>> THEN before ELSE Append(before, <<dropped[i], Head(free)>>)
  IN  pairs[Len(dropped)]

Unpaired(s, pairs, side) == Among(s, {x \in Range(s) : \A p \in Range(pairs) : p[side] # x})

SameType(c, d) == c.type = d.type

\* Seven in ten of the columns of both.
Similar(t, u) ==
  LET c == Names(t.columns)  d == Names(u.columns) IN
  10 * Cardinality(c \cap d) >= 7 * Cardinality(c \cup d)

ColumnPairs(cur, des) ==
  Pairs(Without(cur.columns, des.columns), Without(des.columns, cur.columns),
        {p \in Range(cur.columns) \X Range(des.columns) : SameType(p[1], p[2])})

TablePairs(from, to) ==
  Pairs(Without(from, to), Without(to, from),
        {p \in Range(from) \X Range(to) : Similar(p[1], p[2])})

DiffTable(cur, des) ==
  LET t       == cur.name
      pairs   == ColumnPairs(cur, des)
      gone    == Unpaired(Without(cur.columns, des.columns), pairs, 1)
      new     == Unpaired(Without(des.columns, cur.columns), pairs, 2)
      altered == Among(des.columns, {c \in Range(des.columns) :
                   c.name \in Names(cur.columns) /\ c \notin Range(cur.columns)})
      dropped == Among(cur.items, Range(cur.items) \ Range(des.items))
      added   == Among(des.items, Range(des.items) \ Range(cur.items)) IN
     [i \in DOMAIN gone |-> ColumnOp("dropColumn", t, gone[i])]
  \o [i \in DOMAIN new |-> ColumnOp("addColumn", t, new[i])]
  \o [i \in DOMAIN altered |->
        ChangeOp("alterColumn", t, Named(cur.columns, altered[i].name), altered[i])]
  \o [i \in DOMAIN dropped |-> ItemOp(DropOf[dropped[i].kind], t, dropped[i])]
  \o [i \in DOMAIN added |-> ItemOp(AddOf[added[i].kind], t, added[i])]

Kept(from, to) == Among(to, {t \in Range(to) : t.name \in Names(from)})

Diff(from, to) ==
  LET pairs == TablePairs(from, to)
      gone  == Unpaired(Without(from, to), pairs, 1)
      new   == Unpaired(Without(to, from), pairs, 2)
      kept  == Kept(from, to) IN
     [i \in DOMAIN gone |-> TableOp("dropTable", gone[i])]
  \o [i \in DOMAIN new |-> TableOp("createTable", new[i])]
  \o FlattenSeq([i \in DOMAIN kept |-> DiffTable(Named(from, kept[i].name), kept[i])])

\* A renamed column is altered too if it changes more than its name.
ResolveColumn(t, p, answer) ==
  IF answer = "rename"
  THEN <<ChangeOp("renameColumn", t, p[1].name, p[2].name)>>
       \o IF p[1].rest = p[2].rest THEN <<>>
          ELSE <<ChangeOp("alterColumn", t, [p[1] EXCEPT !.name = p[2].name], p[2])>>
  ELSE <<ColumnOp("dropColumn", t, p[1]), ColumnOp("addColumn", t, p[2])>>

\* An unanswered table is created without columns.
ResolveTable(p, answer) ==
  IF answer = "rename" THEN <<ChangeOp("renameTable", p[1].name, p[1].name, p[2].name)>>
  ELSE <<TableOp("dropTable", p[1]),
         TableOp("createTable", IF answer = "addAndDrop" THEN p[2]
                                ELSE [p[2] EXCEPT !.columns = <<>>, !.items = <<>>])>>

Resolutions(from, to, answer) ==
  LET pairs == TablePairs(from, to)
      kept  == Kept(from, to)
      columns(t) == LET ps == ColumnPairs(Named(from, t.name), t) IN
                    FlattenSeq([i \in DOMAIN ps |-> ResolveColumn(t.name, ps[i], answer)]) IN
  FlattenSeq([i \in DOMAIN pairs |-> ResolveTable(pairs[i], answer)])
    \o FlattenSeq([i \in DOMAIN kept |-> columns(kept[i])])
----------------------------------------------------------------------------
(* sortOperations                                                           *)

Order == <<"dropForeignKey", "dropIndex", "dropUniqueConstraint", "dropPrimaryKey",
           "dropColumn", "dropTable", "createTable", "addColumn", "alterColumn",
           "renameTable", "renameColumn", "addPrimaryKey", "addUniqueConstraint",
           "createIndex", "supersededIndexDrop", "addForeignKey">>

\* A bug: no index drop waits.
SupersededNever(ops, op) == FALSE

\* Index drops that wait for the index that takes over.
Superseded(ops, op) ==
  /\ op.do = "dropIndex"
  /\ \A o \in Range(ops) : /\ o.do = "createIndex" => o.item.name # op.item.name
                           /\ o.do = "dropColumn" => o.table # op.table

SortOperations(ops) ==
  LET slot(op) == IF Superseded(ops, op) THEN "supersededIndexDrop" ELSE op.do IN
  FlattenSeq([i \in DOMAIN Order |-> Among(ops, {op \in Range(ops) : slot(op) = Order[i]})])

\* Foreign keys to tables that are created later move to the end.
ExtractForwardReferenceForeignKeys(dialect, ops) ==
  LET forward(i) == Among(ops[i].def.items, {k \in Range(ops[i].def.items) :
        k.kind = "fk" /\ \E j \in DOMAIN ops :
          j > i /\ ops[j].do = "createTable" /\ ops[j].table = k.to[1]})
      create(i) == [ops[i] EXCEPT !.def.items = Among(@, Range(@) \ Range(forward(i)))]
      created == Among([i \in DOMAIN ops |-> i], {i \in DOMAIN ops : ops[i].do = "createTable"})
      lifted(i) == [j \in DOMAIN forward(i) |->
                      ItemOp("addForeignKey", ops[i].table, forward(i)[j])] IN
  IF dialect = "sqlite" THEN ops
  ELSE [i \in DOMAIN ops |-> IF ops[i].do = "createTable" THEN create(i) ELSE ops[i]]
         \o FlattenSeq([i \in DOMAIN created |-> lifted(created[i])])

Operations(w) ==
  LET from == Schema(w.from)  to == Schema(w.to) IN
  ExtractForwardReferenceForeignKeys(w.dialect,
    SortOperations(SortOperations(Diff(from, to)) \o Resolutions(from, to, w.answer)))
----------------------------------------------------------------------------
(* invertOperations                                                         *)

InvertOperation(op) ==
  CASE op.do = "createTable"  -> TableOp("dropTable", op.def)
    [] op.do = "dropTable"    -> TableOp("createTable", op.def)
    [] op.do = "renameTable"  -> ChangeOp("renameTable", op.to, op.to, op.from)
    [] op.do = "addColumn"    -> ColumnOp("dropColumn", op.table, op.column)
    [] op.do = "dropColumn"   -> ColumnOp("addColumn", op.table, op.column)
    [] op.do \in {"renameColumn", "alterColumn"} -> ChangeOp(op.do, op.table, op.to, op.from)
    [] op.do \in Range(AddOf)  -> ItemOp(DropOf[op.item.kind], op.table, op.item)
    [] op.do \in Range(DropOf) -> ItemOp(AddOf[op.item.kind], op.table, op.item)

InvertOperations(ops) == [i \in DOMAIN ops |-> InvertOperation(ops[Len(ops) + 1 - i])]
----------------------------------------------------------------------------
(* generateDDL: an operation is its own statement, save where SQLite has to *)
(* build the table anew.                                                    *)

Rebuilt == {"alterColumn"} \cup ((Range(AddOf) \cup Range(DropOf)) \ {"createIndex", "dropIndex"})

ApplyToTable(def, op) ==
  CASE op.do = "addColumn"  -> [def EXCEPT !.columns = Append(@, op.column)]
    [] op.do = "dropColumn" ->
         [def EXCEPT !.columns = Among(@, {c \in Range(@) : c.name # op.column.name})]
    [] op.do = "renameColumn" ->
         [def EXCEPT !.columns = [i \in DOMAIN @ |->
            IF @[i].name = op.from THEN [@[i] EXCEPT !.name = op.to] ELSE @[i]]]
    [] op.do = "alterColumn" ->
         [def EXCEPT !.columns = [i \in DOMAIN @ |->
            IF @[i].name = op.to.name THEN op.to ELSE @[i]]]
    [] op.do \in Range(AddOf) -> [def EXCEPT !.items = Append(@, op.item)]
    [] op.do \in Range(DropOf) ->
         [def EXCEPT !.items = Among(@, {k \in Range(@) : k.name # op.item.name})]
    [] op.do = "dropTable" -> def

\* A bug: the snapshot's table, as it was.
CurrentTableAsIntrospected(schema, t, before) == Named(schema, t)

\* The snapshot's table, moved on by the operations before.
GetCurrentTable(schema, t, before) ==
  LET upTo[i \in 0..Len(before)] ==
        IF i = 0 THEN Named(schema, t)
        ELSE IF before[i].do \in {"createTable", "renameTable"} \/ before[i].table # t
        THEN upTo[i - 1] ELSE ApplyToTable(upTo[i - 1], before[i])
  IN  upTo[Len(before)]

\* A bug: only unchanged columns are copied.
RecreationOfUnchanged(t, new, old) ==
  [do |-> "rebuild", table |-> t, def |-> new,
   copied |-> {c.name : c \in Range(new.columns) \cap Range(old.columns)}]

\* Create, copy what has the same name, drop, rename, index.
GenerateTableRecreation(t, new, old) ==
  [do |-> "rebuild", table |-> t, def |-> new,
   copied |-> Names(new.columns) \cap Names(old.columns)]

GenerateDDL(dialect, schema, before, op) ==
  IF dialect # "sqlite" \/ op.do \notin Rebuilt THEN op
  ELSE IF op.table \notin Names(schema) THEN Op("throw", op.table)
  ELSE LET old == GetCurrentTable(schema, op.table, before) IN
       GenerateTableRecreation(op.table, ApplyToTable(old, op), old)

Statements(dialect, schema, ops) ==
  [i \in DOMAIN ops |-> GenerateDDL(dialect, schema, SubSeq(ops, 1, i - 1), ops[i])]

UpScript(w)   == Statements(w.dialect, Schema(w.from), Operations(w))
DownScript(w) == Statements(w.dialect, Schema(w.to), InvertOperations(Operations(w)))
----------------------------------------------------------------------------
(* The database.                                                            *)

Has(db, t) == \E u \in db : u.name = t
At(db, t)  == CHOOSE u \in db : u.name = t
Put(db, t) == {u \in db : u.name # t.name} \cup {t}
Columns(t) == {c.name : c \in t.columns}

Stored(c, data) == [name |-> c.name, type |-> c.type, rest |-> c.rest, data |-> data]
Created(def) == [name |-> def.name, items |-> Range(def.items),
                 columns |-> {Stored(c, <<>>) : c \in Range(def.columns)}]
Populated(def) == [Created(def) EXCEPT !.columns =
                     {Stored(c, <<def.name, c.name>>) : c \in Range(def.columns)}]

References(db, t) == {k \in UNION {u.items : u \in {u \in db : u.name # t}} :
                        k.kind = "fk" /\ k.to[1] = t}

\* Names are one's own in a table, or in the database.
Taken(dialect, db, t, k) ==
  \E u \in db : \E x \in u.items :
    /\ x.kind = k.kind /\ x.name = k.name
    /\ u.name = t \/ (IF dialect = "mysql" THEN k.kind = "fk" ELSE k.kind # "fk")

Fits(dialect, db, t, k) ==
  /\ Range(k.cols) \subseteq Columns(At(db, t))
  /\ ~Taken(dialect, db, t, k)
  /\ k.kind = "fk" /\ dialect # "sqlite" => Has(db, k.to[1])

\* MySQL keeps an index for every foreign key (errno 1553); PostgreSQL and
\* MySQL keep the key that a foreign key references.
Needed(dialect, db, t, k) ==
  \/ /\ dialect = "mysql" /\ k.kind # "fk"
     /\ \E f \in t.items : /\ f.kind = "fk" /\ IsPrefix(f.cols, k.cols)
                           /\ \A x \in t.items \ {k} : x.kind # "fk" => ~IsPrefix(f.cols, x.cols)
  \/ /\ k.kind \in {"pk", "unique"}
     /\ \E f \in UNION {u.items : u \in db} :
          f.kind = "fk" /\ f.to[1] = t.name /\ <<f.to[2]>> = k.cols

Refused(dialect, db, st, lifted) ==
  CASE st.do = "throw" -> TRUE
    [] st.do = "createTable" ->
         LET new == Created(st.def)  bare == [new EXCEPT !.items = {}] IN
         \/ Has(db, new.name)
         \/ new.columns = {} /\ dialect # "postgres"
         \/ \E k \in new.items : ~Fits(dialect, db \cup {bare}, new.name, k)
    [] st.do = "renameTable" -> ~Has(db, st.from) \/ Has(db, st.to)
    [] st.do \notin {"throw", "createTable", "renameTable"} ->
         IF ~Has(db, st.table) THEN TRUE
         ELSE LET t == At(db, st.table) IN
           CASE st.do = "dropTable"    ->
                  dialect # "postgres" /\ ~lifted /\ References(db, t.name) # {}
             [] st.do = "addColumn"    -> st.column.name \in Columns(t)
             [] st.do = "dropColumn"   -> \/ st.column.name \notin Columns(t)
                                          \/ \E k \in t.items : st.column.name \in Range(k.cols)
             [] st.do = "alterColumn"  -> st.to.name \notin Columns(t)
             [] st.do = "renameColumn" -> st.from \notin Columns(t) \/ st.to \in Columns(t)
             [] st.do \in Range(AddOf)  -> ~Fits(dialect, db, t.name, st.item)
             [] st.do \in Range(DropOf) ->
                  ~(\E k \in t.items : k.name = st.item.name) \/ \E k \in t.items :
                    k.name = st.item.name /\ Needed(dialect, db, t, k)
             [] st.do = "rebuild" ->
                  LET bare == [Created(st.def) EXCEPT !.items = {}]
                      rest == {u \in db : u.name # t.name} \cup {bare} IN
                  \/ ~(st.copied \subseteq Columns(t))
                  \/ \E k \in Range(st.def.items) : ~Fits(dialect, rest, t.name, k)

Done(dialect, db, st) ==
  LET t == At(db, st.table)
      put(cols) == Put(db, [t EXCEPT !.columns = cols]) IN
  CASE st.do = "createTable" -> db \cup {Created(st.def)}
    [] st.do = "dropTable" ->
         {[u EXCEPT !.items = IF dialect = "postgres" THEN @ \ References(db, st.table) ELSE @] :
            u \in {u \in db : u.name # st.table}}
    [] st.do = "renameTable" ->
         LET follow(k) == IF k.kind = "fk" /\ k.to[1] = st.from THEN [k EXCEPT !.to[1] = st.to]
                          ELSE k IN
         {[u EXCEPT !.name = IF @ = st.from THEN st.to ELSE @, !.items = {follow(k) : k \in @}] :
            u \in db}
    [] st.do = "addColumn"   -> put(t.columns \cup {Stored(st.column, <<>>)})
    [] st.do = "dropColumn"  -> put({c \in t.columns : c.name # st.column.name})
    [] st.do = "alterColumn" ->
         put({IF c.name = st.to.name THEN Stored(st.to, c.data) ELSE c : c \in t.columns})
    [] st.do = "renameColumn" ->
         LET new(c) == IF c = st.from THEN st.to ELSE c
             own == [t EXCEPT !.columns = {[c EXCEPT !.name = new(@)] : c \in @},
                              !.items = {[k EXCEPT !.cols = [i \in DOMAIN @ |-> new(@[i])]] : k \in @}]
             follow(k) == IF k.kind = "fk" /\ k.to = <<st.table, st.from>>
                          THEN [k EXCEPT !.to[2] = st.to] ELSE k IN
         {[u EXCEPT !.items = {follow(k) : k \in @}] : u \in Put(db, own)}
    [] st.do \in Range(AddOf)  -> Put(db, [t EXCEPT !.items = @ \cup {st.item}])
    [] st.do \in Range(DropOf) -> Put(db, [t EXCEPT !.items = {k \in @ : k.name # st.item.name}])
    [] st.do = "rebuild" ->
         Put(db, [Created(st.def) EXCEPT !.columns =
           {Stored(c, IF c.name \in st.copied
                      THEN (CHOOSE d \in t.columns : d.name = c.name).data ELSE <<>>) : c \in @}])
----------------------------------------------------------------------------
Init == /\ work \in Workloads
        /\ pc = "generate"
        /\ script = <<>> /\ at = 1
        /\ tables = {Populated(t) : t \in Range(Schema(work.from))}

Generate == /\ pc = "generate"
            /\ pc' = "up" /\ script' = UpScript(work)
            /\ UNCHANGED <<work, at, tables>>

\* Foreign keys are off, outside the transaction, for a script that rebuilds.
Lifted == \E i \in DOMAIN script : script[i].do = "rebuild"

Execute == /\ pc \in {"up", "down"} /\ at <= Len(script)
           /\ IF Refused(work.dialect, tables, script[at], Lifted)
              THEN pc' = "failed" /\ UNCHANGED <<at, tables>>
              ELSE /\ tables' = Done(work.dialect, tables, script[at])
                   /\ at' = at + 1 /\ UNCHANGED pc
           /\ UNCHANGED <<work, script>>

\* Only then are they checked at the end.
Intact == \A t \in tables : \A k \in t.items : k.kind = "fk" => Has(tables, k.to[1])

Finish == /\ pc \in {"up", "down"} /\ at > Len(script)
          /\ pc' = IF Lifted /\ ~Intact THEN "failed"
                   ELSE IF pc = "up" THEN "applied" ELSE "reverted"
          /\ UNCHANGED <<work, script, at, tables>>

RollBack == /\ pc = "applied"
            /\ pc' = "down" /\ script' = DownScript(work) /\ at' = 1
            /\ UNCHANGED <<work, tables>>

Next == Generate \/ Execute \/ Finish \/ RollBack

Spec == Init /\ [][Next]_vars
----------------------------------------------------------------------------
\* No statement of a generated script fails: nothing is used before it is there,
\* after it is gone, or taken away while something needs it (sortOperations,
\* supersededIndexDrops, extractForwardReferenceForeignKeys, invertOperations).
EveryScriptRuns == pc # "failed"

\* Only PostgreSQL keeps the name of a primary key.
Shape(db) ==
  LET known(k) == IF k.kind = "pk" /\ work.dialect # "postgres"
                  THEN [k EXCEPT !.name = <<>>] ELSE k IN
  {[u EXCEPT !.columns = {Stored(c, <<>>) : c \in @}, !.items = {known(k) : k \in @}] : u \in db}

Target(models) == Shape({Created(t) : t \in Range(Schema(models))})

\* The up script leads to the schema it was generated for, under the names that the
\* next diff will look for; the down script leads back (getCurrentTable's replay).
ReachesTarget == /\ pc = "applied" => Shape(tables) = Target(work.to)
                 /\ pc = "reverted" => Shape(tables) = Target(work.from)

\* The columns of both schemas, in their old and new places, by name or by renaming.
Surviving ==
  LET from == Schema(work.from)
      to   == Schema(work.to)
      renamed(pairs) == IF work.answer = "rename" THEN Range(pairs) ELSE {}
      both == {<<Named(from, t), Named(to, t)>> : t \in Names(from) \cap Names(to)} IN
  (UNION {{<<<<p[1].name, c>>, <<p[2].name, c>>>> :
             c \in Names(p[1].columns) \cap Names(p[2].columns)}
            : p \in both \cup renamed(TablePairs(from, to))})
    \cup UNION {{<<<<p[1].name, c[1].name>>, <<p[2].name, c[2].name>>>> :
                   c \in renamed(ColumnPairs(p[1], p[2]))} : p \in both}

Holds(place, data) ==
  \E u \in tables : u.name = place[1] /\ \E d \in u.columns : d.name = place[2] /\ d.data = data

\* No row loses the value of a column that both schemas have, under any recreation
\* of its table, or that was renamed, there and back (generateTableRecreation).
DataKept == \A s \in Surviving : /\ pc = "applied" => Holds(s[2], s[1])
                                 /\ pc = "reverted" => Holds(s[1], s[1])
=============================================================================
