--------------------------- MODULE MCWriteEngine ---------------------------
(* Races of two to four calls for one or two keys, on every substrate.      *)
EXTENDS WriteEngine

CONSTANTS c1, c2, c3, c4, r1, r2, r3, r4, r5, a, b, z

operation(kind, key, row) ==
  [kind |-> kind, where |-> key, filter |-> FALSE, conditional |-> FALSE, plain |-> TRUE,
   create |-> key, row |-> row, to |-> key, flag |-> TRUE]

Create(key, row)  == operation("create", key, row)
Move(key, to)     == [operation("update", key, NoRow) EXCEPT !.to = to]
Flag(key, flag)   == [operation("update", key, NoRow) EXCEPT !.flag = flag]
Drop(key)         == operation("delete", key, NoRow)
Upsert(key, row)  == operation("upsert", key, row)
If(o)             == [o EXCEPT !.conditional = TRUE, !.flag = FALSE]
Where(o)          == [o EXCEPT !.filter = TRUE]
Slow(o)           == [o EXCEPT !.plain = FALSE]

Row(key, flag) == [key |-> key, flag |-> flag]
Empty == [r \in Rows |-> Absent]
With(row, key, flag) == [Empty EXCEPT ![row] = Row(key, flag)]
Both == [With(r1, a, TRUE) EXCEPT ![r2] = Row(b, TRUE)]

Quartet(w, x, y, v) ==
  [c \in Calls |-> CASE c = c1 -> w [] c = c2 -> x [] c = c3 -> y [] c = c4 -> v]

Races == {
  \* The key of an upsert comes, goes and comes again.
  <<Empty, Quartet(<<Slow(Upsert(a, r1))>>, <<Create(a, r2)>>, <<Drop(a)>>, <<Create(a, r3)>>)>>,
  \* Two upserts of one key and its owner.
  <<With(r3, a, FALSE), Quartet(<<If(Upsert(a, r1))>>, <<Slow(Upsert(a, r2))>>, <<Drop(a)>>,
                                <<Flag(a, FALSE)>>)>>,
  \* An excluded row, and one that moves away and is replaced.
  <<With(r3, a, FALSE), Quartet(<<Where(Upsert(a, r1))>>, <<Move(a, b)>>, <<Create(a, r2)>>,
                                <<>>)>>,
  <<Both, Quartet(<<Slow(Move(a, z))>>, <<Slow(Drop(b))>>, <<Move(z, b)>>,
                  <<Slow(Upsert(a, r3))>>)>>,
  \* An upsert loses its premise, and then its key.
  <<With(r3, a, FALSE), Quartet(<<If(Upsert(a, r1))>>, <<Flag(a, TRUE)>>, <<Drop(a)>>,
                                <<Create(a, r2)>>)>>}

Transactions == {
  \* Two transactions meet the same keys in opposite order.
  <<Both, Quartet(<<Flag(a, FALSE), Slow(Upsert(z, r3))>>, <<Create(z, r4), Flag(a, TRUE)>>,
                  <<Drop(b)>>, <<>>)>>,
  <<Both, Quartet(<<Flag(a, FALSE), Drop(b)>>, <<Slow(Upsert(b, r3)), Slow(Flag(a, TRUE))>>, <<>>,
                  <<>>)>>,
  \* A transaction whose operations meet each other.
  <<Both, Quartet(<<Drop(a), Slow(Upsert(a, r3)), If(Upsert(b, r4))>>,
                  <<Move(b, z), Create(b, r5)>>, <<>>, <<>>)>>,
  \* A row is replaced, twice, in front of an upsert.
  <<With(r3, a, FALSE), Quartet(<<Slow(Upsert(a, r1))>>, <<Drop(a), Create(a, r2)>>,
                                <<Drop(a), Create(a, r4)>>, <<>>)>>,
  \* An upsert of one key moves the row to another, which a transaction takes; a
  \* filtered update finds neither.
  <<With(r3, a, FALSE), Quartet(<<[Upsert(a, r1) EXCEPT !.to = b]>>, <<Create(b, r2), Drop(a)>>,
                                <<Where(Flag(a, TRUE))>>, <<>>)>>,
  \* A transaction enters a key and leaves it, and the next one waits for its end.
  <<Empty, Quartet(<<Create(a, r1), Move(a, b)>>, <<Slow(Upsert(a, r2))>>, <<>>, <<>>)>>,
  \* An upsert that changes nothing keeps its row until its transaction ends.
  <<Both, Quartet(<<Upsert(a, r3), Flag(b, FALSE)>>, <<Drop(a)>>, <<>>, <<>>)>>}

On(substrates, loads) ==
  {[on |-> s, table |-> l[1], ops |-> l[2]] : s \in substrates, l \in loads}

MCWorkloads == On({"postgres", "innodb", "batch"}, Races \cup Transactions)

\* Upserts only, two of them in one transaction.
UpsertWorkloads == On({"postgres", "batch"}, {
  <<Empty, Quartet(<<Upsert(b, r2), Slow(Upsert(a, r3))>>, <<Upsert(a, r4)>>, <<>>, <<>>)>>})
=============================================================================
