---------------------------- MODULE MCSchemaDiff ----------------------------
(* Edits of schemas with up to three tables, on every dialect.              *)
EXTENDS SchemaDiff

column(name, rest) ==
  [name |-> name, type |-> IF name \in {"id", "uid"} THEN "key" ELSE "int", rest |-> rest]
model(name, columns) ==
  [name |-> name, columns |-> columns, pk |-> <<"id">>,
   uniques |-> <<>>, indexes |-> <<>>, relations |-> <<>>]
relation(name, kind, t, c) == <<[column |-> name, kind |-> kind, to |-> <<t, c>>]>>
index(name, cols) == <<[name |-> <<name>>, cols |-> cols]>>

Id   == column("id", "plain")
User == model("user", <<Id, column("x", "plain")>>)
Post == [model("post", <<Id, column("owner", "plain")>>) EXCEPT
           !.relations = relation("owner", "many", "user", "id")]
Tag  == [model("tag", <<Id, column("post", "plain")>>) EXCEPT
           !.relations = relation("post", "many", "post", "id")]
Article == [Post EXCEPT !.name = "article"]

\* The ways to relate, key and index a column, beside one that comes and goes or
\* changes.
Keyed(tails) ==
  {<<User, [Post EXCEPT !.relations = r, !.uniques = u, !.indexes = d, !.pk = p,
                        !.columns = @ \o tail]>> :
     r \in {<<>>, relation("owner", "many", "user", "id"), relation("owner", "one", "user", "id")},
     u \in {<<>>, <<<<"owner">>>>},
     d \in {<<>>, index("i", <<"owner", "id">>)},
     p \in {<<"id">>, <<"owner", "id">>},
     tail \in tails}

\* Indexes that change under their name, or move.
Moved == {<<[User EXCEPT !.indexes = i[1]], [Post EXCEPT !.indexes = i[2]]>> :
            i \in {<<<<>>, <<>>>>, <<index("i", <<"x">>), <<>>>>, <<<<>>, index("i", <<"owner">>)>>,
                   <<<<>>, index("i", <<"owner", "id">>)>>,
                   <<index("i", <<"x", "id">>), index("j", <<"id", "owner">>)>>}}

\* Columns and the keys on them, renamed; one that other tables refer to.
Renamed == {<<[User EXCEPT !.columns[1].name = id, !.pk = <<id>>],
              [model("post", <<Id, column(o, "plain"), column(y, "plain")>>) EXCEPT
                 !.relations = relation(o, "one", "user", id),
                 !.uniques = IF u THEN <<<<y>>>> ELSE <<>>,
                 !.indexes = index("k", <<"id", "id">>)]>> :
             id \in {"id", "uid"}, o \in {"owner", "author"}, y \in {"y", "z"},
             u \in BOOLEAN}

\* Tables that come and go, with those they refer to.
Tables == {<<<<>>, <<User, Post, Tag>>>>, <<<<Tag, Post, User>>, <<User>>>>,
           <<<<User>>, <<User, Post, Tag>>>>,
           <<<<User, Post>>, <<User, Article>>>>, <<<<Post, User>>, <<>>>>}
Forward == {<<<<>>, <<Tag, Post, User>>>>, <<<<User>>, <<Tag, Post, User>>>>}

\* A table renamed, with the foreign key to it.
Persons == {<<User, Post>>,
            <<[User EXCEPT !.name = "person"], [Post EXCEPT !.relations[1].to[1] = "person"]>>}

\* MySQL refuses to drop a key that alone covers a foreign key.
KeysStay(e) == \A k \in Range(TableOf(e[1][2]).items) :
  k.kind \in {"pk", "unique"} => k \in Range(TableOf(e[2][2]).items)

Edits(schemas) == schemas \X schemas
On(dialects, edits, answers) ==
  {[dialect |-> d, from |-> e[1], to |-> e[2], answer |-> a] :
     d \in dialects, e \in edits, a \in answers}

Dialects == {"postgres", "mysql", "sqlite"}

MCWorkloads ==
  UNION {On({"postgres", "sqlite"}, Edits(Keyed({<<>>, <<column("y", "null")>>})), {"rename"}),
         On(Dialects, {e \in Edits(Keyed({<<column("y", r)>> : r \in {"plain", "null"}})) :
                         KeysStay(e)}, {"rename"}),
         On({"postgres", "sqlite"}, Edits(Moved), {"rename"}),
         On(Dialects, Edits(Renamed), {"rename", "addAndDrop", "none"}),
         On(Dialects, Tables, {"addAndDrop"}),
         On({"postgres", "mysql"}, Forward, {"addAndDrop"}),
         On({"mysql", "sqlite"}, Edits(Persons), {"rename"})}
=============================================================================
