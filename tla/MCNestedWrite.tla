--------------------------- MODULE MCNestedWrite ---------------------------
(* Programs of one or two kinds over three rows, and one rival.  The rows   *)
(* of one createMany are spelled alike.  In an update of its parent a       *)
(* relation to one row is not asked which row it disconnects, deletes,      *)
(* updates or upserts.                                                      *)
EXTENDS NestedWrite

CONSTANTS P, Q, Null

Full(id, slug, fk, data) == [id |-> id, slug |-> slug, fk |-> fk, data |-> data]
NoRow == Full(0, "-", Null, "-")

item(where) == [where |-> where, create |-> NoRow, spells |-> {}, data |-> <<>>, skip |-> FALSE]

Id(i)   == [id |-> i]
Slug(s) == [slug |-> s]

\* A new row whose id the payload spells, or the database makes.
Makes(x, id, slug)  == [x EXCEPT !.create = Full(id, slug, Null, "new"), !.spells = {"id", "slug"}]
Leaves(x, slug)     == [Makes(x, Generated, slug) EXCEPT !.spells = {"slug"}]
Sets(x, data)       == [x EXCEPT !.data = data]
Skips(x)            == [x EXCEPT !.skip = TRUE]

\* Rows 1 "a" and 2 "b" exist, 3 "c" may come.
Links == {<<item(Id(1))>>, <<item(Slug("a"))>>, <<item(Id(1)), item(Slug("b"))>>}

Payloads(kind) ==
  CASE kind \in {"disconnect", "delete"} -> Links
    [] kind = "connect" -> Links \cup {<<item(Id(3))>>}
    [] kind = "set"     -> Links \cup {<<>>}
    [] kind = "update"  -> {<<Sets(item(Id(1)), [data |-> "y"])>>,
                            <<Sets(item(Slug("a")), [data |-> "y"])>>,
                            <<Sets(item(Id(1)), [slug |-> "c"])>>,
                            <<Sets(item(Slug("a")), [id |-> 3])>>,
                            <<Sets(item(Id(1)), [slug |-> "c"]), Sets(item(Id(2)), [slug |-> "a"])>>,
                            <<item(Id(3))>>}
    [] kind = "upsert"  -> {<<Sets(Makes(item(Id(1)), 1, "a"), [slug |-> "c"])>>,
                            <<Sets(Leaves(item(Slug("a")), "a"), [data |-> "y"])>>,
                            <<Sets(Makes(item(Id(3)), 3, "c"), [data |-> "y"])>>,
                            <<Sets(Leaves(item(Slug("c")), "c"), [data |-> "y"]),
                              Sets(Makes(item(Id(2)), 2, "b"), [data |-> "y"])>>}
    [] kind = "connectOrCreate" ->
                           {<<Makes(item(Id(1)), 1, "a")>>,
                            <<Leaves(item(Slug("b")), "b")>>,
                            <<Makes(item(Slug("c")), 3, "c"), Makes(item(Slug("c")), 3, "c")>>,
                            <<Makes(item(Id(3)), 3, "a")>>}
    [] kind = "updateMany" -> {<<Sets(item(<<>>), [data |-> "y"])>>,
                               <<Sets(item([data |-> "x"]), [data |-> "y"])>>,
                               <<Sets(item(Id(1)), [data |-> "y"])>>}
    [] kind = "deleteMany" -> {<<item(<<>>)>>, <<item([data |-> "x"])>>, <<item(Id(2))>>}
    [] kind = "create"     -> {<<Makes(item(<<>>), 3, "c")>>, <<Leaves(item(<<>>), "a")>>,
                               <<Leaves(item(<<>>), "c"), Leaves(item(<<>>), "d")>>}
    [] kind = "createMany" -> {<<Makes(item(<<>>), 4, "d"), Makes(item(<<>>), 5, "e")>>,
                               <<Skips(Makes(item(<<>>), 3, "c")), Skips(Makes(item(<<>>), 4, "b"))>>,
                               <<Skips(Makes(item(<<>>), 2, "d"))>>,
                               <<Skips(Leaves(item(<<>>), "b")), Skips(Leaves(item(<<>>), "b"))>>}

Current(kind) ==
  CASE kind \in {"disconnect", "delete"} -> {<<item(<<>>)>>}
    [] kind = "connect" -> {<<item(Id(1))>>, <<item(Slug("b"))>>, <<item(Id(3))>>}
    [] kind = "create"  -> {<<Makes(item(<<>>), 3, "c")>>, <<Leaves(item(<<>>), "a")>>}
    [] kind = "connectOrCreate" ->
                           {<<Makes(item(Id(1)), 1, "a")>>, <<Leaves(item(Slug("c")), "c")>>}
    [] kind = "update"  -> {<<Sets(item(<<>>), [data |-> "y"])>>, <<item(<<>>)>>,
                            <<Sets(item([data |-> "x"]), [slug |-> "c"])>>}
    [] kind = "upsert"  -> {<<Sets(Makes(item(<<>>), 3, "c"), [data |-> "y"])>>,
                            <<Makes(item(<<>>), 3, "c")>>,
                            <<Sets(Leaves(item(<<>>), "a"), [slug |-> "c"])>>}
    [] kind \in {"set", "updateMany", "deleteMany", "createMany"} -> {}

SinglesOf(payloads(_)) == UNION {{[k \in {kind} |-> p] : p \in payloads(kind)} : kind \in Kinds}
Singles == SinglesOf(Payloads)
Pairs == {one @@ two : one, two \in Singles}
ToOneSingles == SinglesOf(Current)
ToOnePairs == {one @@ two : one, two \in ToOneSingles}

Tables == {{Full(1, "a", P, "x"), Full(2, "b", P, "x")},
           {Full(1, "a", P, "x"), Full(2, "b", Q, "x")},
           {Full(1, "a", Q, "x"), Full(2, "b", P, "z")}}

\* A parent has one row at most.
ToOneTables == {{Full(1, "a", P, "x"), Full(2, "b", Q, "x")},
                {Full(1, "a", Null, "x"), Full(2, "b", P, "z")},
                {Full(1, "a", Q, "x"), Full(2, "b", Null, "x")}}

\* The ledger asks nothing of `connect`, whose probe reads all the same: after a
\* mutation that deletes or renames its row its write finds none, and is lost
\* without an error; a junction links the row it had found, if it is there.  The
\* same holds for a createMany that adopts.  Such programs are left out.
Removed(kind, x, junction) ==
  CASE kind = "delete"     -> IF junction THEN {} ELSE {x.where}
    [] kind = "deleteMany" -> IF junction THEN {} ELSE {Anything}
    [] kind \in {"update", "upsert"} -> IF DOMAIN x.data \cap Identity = {} THEN {} ELSE {x.where}
    [] OTHER -> {}

NamedLate(p, junction) ==
  UNION {CASE kind = "connect" -> {x.where : x \in Range(p[kind])}
           [] kind = "createMany" /\ junction ->
                {ownName(x) : x \in {y \in Range(p[kind]) : y.skip /\ "id" \notin y.spells}}
           [] OTHER -> {} : kind \in DOMAIN p}

LosesConnect(w) ==
  LET junction == w.relation = "junction" IN
  ~ToOne(w) /\ \E kind \in DOMAIN w.payload : \E x \in Range(w.payload[kind]) :
    \E c \in Removed(kind, x, junction), late \in NamedLate(w.payload, junction) :
      ~provesDisjoint(c, late)

\* Of a relation to one row the same happens to a connect of the row that is deleted;
\* in a batch another caller may still make it the one.
DeletesConnected(w) ==
  /\ ToOne(w) /\ {"delete", "connect"} \subseteq DOMAIN w.payload
  /\ w.on = "batch" \/ Mine(w.table, Head(w.payload["connect"]).where) # {}

\* Which children `set` would leave on a required key is read before a mutation
\* ahead of it adds one, and the one it adds stays.  Left out too.
KeepsNewcomer(w) == /\ w.relation = "required"
                    /\ "set" \in DOMAIN w.payload
                    /\ {"upsert", "connectOrCreate"} \cap DOMAIN w.payload # {}

\* A junction's delete asks the ledger for its row and not for the membership of it,
\* and so deletes what the program has disconnected before.  Left out too.
DeletesReleased(w) ==
  /\ w.relation = "junction"
  /\ {"disconnect", "delete"} \subseteq DOMAIN w.payload
  /\ \E x \in Range(w.payload["disconnect"]), y \in Range(w.payload["delete"]) :
       ~provesDisjoint(x.where, y.where)

\* A transaction does not lock the links its probes have seen: one that goes while
\* the key of its row changes has, in no order of the two, gone.  Left out too.
RekeysMember(w) == /\ w.relation = "junction" /\ w.on = "transaction"
                   /\ "update" \in DOMAIN w.payload
                   /\ \E x \in Range(w.payload["update"]) : "id" \in DOMAIN x.data

\* A create emits the rows it adds before the rest, the ledger has them last.  It
\* shows where the database numbers rows of both, and where a mutation renames what
\* a skipped row is a duplicate of.  Left out too.
OrderShows(w) ==
  /\ w.fresh /\ w.relation # "junction"
  /\ \E add \in DOMAIN w.payload \cap Adders, kind \in DOMAIN w.payload \ Adders :
       \E x \in Range(w.payload[add]), y \in Range(w.payload[kind]) :
         \/ kind # "connect" /\ "id" \notin x.spells \cup y.spells
         \/ x.skip /\ DOMAIN y.data \cap Identity # {}

\* Nothing in a batch keeps the parent at the key that was read with it: the row of
\* that key is deleted, or another put in its place, when the parent has had a new
\* one since.  Left out too.
ParentRebound(w) == /\ w.relation = "parentHeldToOne" /\ w.on = "batch" /\ ~w.fresh
                    /\ {"delete", "upsert"} \cap DOMAIN w.payload # {}

On(payloads, tables, relations, fresh) ==
  {w \in [on : {"transaction", "batch"}, fresh : {fresh}, relation : relations,
          table : tables, payload : payloads] :
     ~(KeepsNewcomer(w) \/ LosesConnect(w) \/ DeletesConnected(w) \/ DeletesReleased(w)
         \/ RekeysMember(w) \/ OrderShows(w) \/ ParentRebound(w))}

\* What a create may ask, of rows that have another parent.
CreateKinds == {"upsert", "connectOrCreate", "connect"} \cup Adders
Strangers   == {{Full(1, "a", Q, "x"), Full(2, "b", Q, "z")}}

MCRequests ==
  On(Pairs, Tables, {"required", "nullable", "junction"}, FALSE) \cup
  On({p \in Pairs : DOMAIN p \subseteq CreateKinds}, Strangers,
     {"required", "nullable", "junction"}, TRUE) \cup
  On(ToOnePairs, ToOneTables, {"childHeldToOne", "parentHeldToOne"}, FALSE) \cup
  On({p \in ToOneSingles : DOMAIN p \subseteq {"create", "connect", "connectOrCreate"}},
     Strangers, {"childHeldToOne", "parentHeldToOne"}, TRUE)

rows(w) == [some |-> {w}, but |-> {}]
MCRivals == {
  <<New(Full(3, "c", P, "x"))>>,
  <<New(Full(3, "c", Q, "x"))>>,
  <<[kind |-> "delete", at |-> rows(Id(1))]>>,
  <<[kind |-> "delete", at |-> rows(Id(1))], New(Full(4, "a", P, "x"))>>,
  <<[kind |-> "update", at |-> rows(Id(1)), data |-> [fk |-> Q], one |-> FALSE]>>,
  <<[kind |-> "update", at |-> rows(Id(2)), data |-> [fk |-> P], one |-> FALSE]>>,
  <<[kind |-> "update", at |-> rows(Id(1)), data |-> [fk |-> Q], one |-> FALSE],
    [kind |-> "update", at |-> rows(Id(2)), data |-> [fk |-> P], one |-> FALSE]>>,
  <<[kind |-> "update", at |-> rows(Id(1)), data |-> [slug |-> "c"], one |-> FALSE]>>}
=============================================================================
