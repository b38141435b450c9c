--------------------------- MODULE SchemaDiffProofs ---------------------------
(***************************************************************************)
(* For every edit of every schema, in all three dialects and with every    *)
(* answer of the resolver: the scripts of `generate` and `down` lose no    *)
(* value of a column that both schemas have, or that was renamed.          *)
(*                                                                         *)
(* A surviving column is at p before and at q after, where at most one of  *)
(* table and column changes its name.  The argument has four parts.  Each  *)
(* operation of the script either leaves it alone (Leaves) or is the       *)
(* rename that moves it (IsMove), and if p # q there is such a rename: of  *)
(* diff, resolution, sorting and extraction (OperationsCarry), and of the  *)
(* inverse with p and q exchanged (InvertedCarries).  A statement that the *)
(* database does not refuse does to the column what its operation says     *)
(* (OpStep).  A recreation copies what the old and the new definition have *)
(* in common, and the replay of the operations before knows the column     *)
(* under its name by then (ReplayKeeps).  So after n statements the column *)
(* is at Now(ops, n, p, q) with its data, which is the invariant, Tracked. *)
(***************************************************************************)
EXTENDS SchemaDiff, WellFoundedInduction, TLAPS

(***************************************************************************)
(* Lists: what concatenation, selection and flattening keep, by induction  *)
(* up to a bound, from the well-foundedness of <.                          *)
(***************************************************************************)

\* A set of naturals has a least member, and induction over a set of naturals follows.
LEMMA Least ==
  ASSUME NEW T, T \subseteq Nat, T # {}
  PROVE  \E n \in T : \A m \in T : ~(m < n)
  <1> DEFINE R == {ss \in Nat \X Nat : ss[1] < ss[2]}
  <1>1. IsWellFoundedOn(R, Nat)
    BY NatLessThanWellFounded, Zenon DEF OpToRel
  <1> HIDE DEF R
  <1>2. \E x \in T : \A y \in T : ~(<<y, x>> \in R)
    BY <1>1, WFMin, Zenon
  <1> QED BY <1>2 DEF R

\* Induction up to a bound N.
LEMMA Induction ==
  ASSUME NEW S, NEW N \in Nat, 0 \in S, \A n \in 0..N : n \in S /\ n # N => n + 1 \in S
  PROVE  0..N \subseteq S
  <1> DEFINE T == {n \in 0..N : n \notin S}
  <1>1. SUFFICES ASSUME T # {} PROVE FALSE
    BY <1>1
  <1>2. T \subseteq Nat
    OBVIOUS
  <1>3. PICK n \in T : \A m \in T : ~(m < n)
    BY <1>1, <1>2, Least
  <1>4. n \in Nat /\ n # 0 /\ n - 1 \in 0..N /\ n - 1 # N /\ n - 1 < n /\ (n - 1) + 1 = n
    BY <1>3
  <1>5. n - 1 \in S
    BY <1>3, <1>4
  <1> QED BY <1>3, <1>4, <1>5

\* The recursion in Among, up to n.
KeptTo(n, f, s, S) ==
  f = [i \in 0..n |-> IF i = 0 THEN <<>>
                      ELSE IF s[i] \in S THEN Append(f[i - 1], s[i]) ELSE f[i - 1]]

\* There is such a function, so Among is what the recursion says.
LEMMA KeptExists ==
  ASSUME NEW s, NEW S, NEW N \in Nat
  PROVE  \E f : KeptTo(N, f, s, S)
  <1> DEFINE G == {n \in 0..N : \E f : KeptTo(n, f, s, S)}
  <1>1. 0 \in G
    <2> DEFINE f == [i \in 0..0 |-> <<>>]
    <2>1. KeptTo(0, f, s, S)
      BY DEF KeptTo
    <2> HIDE DEF f
    <2>2. \E g : KeptTo(0, g, s, S)
      BY <2>1
    <2> QED BY <2>2
  <1>2. ASSUME NEW n \in 0..N, n \in G, n # N PROVE n + 1 \in G
    <2>1. PICK f : KeptTo(n, f, s, S)
      BY <1>2
    <2>2. \A i \in 0..n : f[i] = IF i = 0 THEN <<>>
            ELSE IF s[i] \in S THEN Append(f[i - 1], s[i]) ELSE f[i - 1]
      BY <2>1 DEF KeptTo
    <2> DEFINE g == [i \in 0..(n + 1) |-> IF i # n + 1 THEN f[i]
                       ELSE IF s[i] \in S THEN Append(f[n], s[i]) ELSE f[n]]
    <2>3. /\ g = [i \in 0..(n + 1) |-> g[i]]
          /\ \A i \in 0..n : g[i] = f[i]
          /\ g[n + 1] = IF s[n + 1] \in S THEN Append(f[n], s[n + 1]) ELSE f[n]
      OBVIOUS
    <2> HIDE DEF g
    <2>4. ASSUME NEW i \in 0..(n+1)
          PROVE  g[i] = IF i = 0 THEN <<>>
                        ELSE IF s[i] \in S THEN Append(g[i - 1], s[i]) ELSE g[i - 1]
      <3>1. CASE i = n + 1
        <4>1. n + 1 # 0 /\ (n + 1) - 1 = n /\ n \in 0..n
          OBVIOUS
        <4> QED BY <2>3, <3>1, <4>1
      <3>2. CASE i # n + 1
        <4>1. i \in 0..n /\ (i # 0 => i - 1 \in 0..n)
          BY <3>2
        <4> QED BY <2>2, <2>3, <4>1
      <3> QED BY <3>1, <3>2
    <2>5. KeptTo(n + 1, g, s, S)
      BY <2>3, <2>4 DEF KeptTo
    <2>6. \E h : KeptTo(n + 1, h, s, S)
      BY <2>5
    <2> QED BY <2>6, <1>2
  <1>3. N \in G
    <2> HIDE DEF G
    <2>1. 0..N \subseteq G
      BY <1>1, <1>2, Induction
    <2> QED BY <2>1
  <1> QED BY <1>3

\* Among keeps the elements in S.
LEMMA AmongFacts ==
  ASSUME NEW D, NEW s \in Seq(D), NEW S
  PROVE  /\ Among(s, S) \in Seq(D)
         /\ Range(Among(s, S)) = Range(s) \cap S
  <1>1. Len(s) \in Nat /\ DOMAIN s = 1..Len(s) /\ \A i \in 1..Len(s) : s[i] \in D
    OBVIOUS
  <1> DEFINE f == CHOOSE f : f = [i \in 0..Len(s) |->
                    IF i = 0 THEN <<>>
                    ELSE IF s[i] \in S THEN Append(f[i - 1], s[i]) ELSE f[i - 1]]
  <1>2. KeptTo(Len(s), f, s, S)
    <2>1. \E g : KeptTo(Len(s), g, s, S)
      BY <1>1, KeptExists
    <2> QED BY <2>1 DEF KeptTo
  <1>3. Among(s, S) = f[Len(s)]
    BY DEF Among
  <1> HIDE DEF f
  <1>4. \A i \in 0..Len(s) : f[i] = IF i = 0 THEN <<>>
          ELSE IF s[i] \in S THEN Append(f[i - 1], s[i]) ELSE f[i - 1]
    BY <1>2 DEF KeptTo
  <1> DEFINE Good(n) == /\ f[n] \in Seq(D)
                        /\ Range(f[n]) = {s[k] : k \in 1..n} \cap S
             G == {n \in 0..Len(s) : Good(n)}
  <1>5. 0 \in G
    <2>1. f[0] = <<>> /\ 1..0 = {} /\ 0 \in 0..Len(s)
      BY <1>1, <1>4
    <2>2. DOMAIN <<>> = {} /\ <<>> \in Seq(D)
      OBVIOUS
    <2>3. Range(<<>>) = {}
      BY <2>2 DEF Range
    <2> QED BY <2>1, <2>2, <2>3
  <1>6. ASSUME NEW n \in 0..Len(s), n \in G, n # Len(s) PROVE n + 1 \in G
    <2>1. n + 1 \in 1..Len(s) /\ n + 1 \in 0..Len(s) /\ s[n + 1] \in D /\ (n + 1) - 1 = n
      <3> HIDE DEF G
      <3>1. n \in Nat /\ n <= Len(s) /\ n # Len(s)
        <4>1. n \in 0..Len(s) /\ Len(s) \in Nat
          BY <1>1
        <4> QED BY <1>6, <4>1
      <3>2. n + 1 \in 1..Len(s) /\ n + 1 \in 0..Len(s) /\ (n + 1) - 1 = n
        <4>1. Len(s) \in Nat
          BY <1>1
        <4> QED BY <3>1, <4>1
      <3> QED BY <1>1, <3>2
    <2>2. f[n] \in Seq(D) /\ Range(f[n]) = {s[k] : k \in 1..n} \cap S
      BY <1>6
    <2>3. f[n + 1] = IF s[n + 1] \in S THEN Append(f[n], s[n + 1]) ELSE f[n]
      BY <1>4, <2>1
    <2>4. {s[k] : k \in 1..(n + 1)} = {s[k] : k \in 1..n} \cup {s[n + 1]}
      <3>1. 1..(n + 1) = (1..n) \cup {n + 1}
        BY <2>1
      <3> QED BY <3>1
    <2>5. /\ Append(f[n], s[n + 1]) \in Seq(D)
          /\ Range(Append(f[n], s[n + 1])) = Range(f[n]) \cup {s[n + 1]}
      <3>1. /\ Append(f[n], s[n + 1]) \in Seq(D)
            /\ Len(f[n]) \in Nat /\ DOMAIN f[n] = 1..Len(f[n])
            /\ DOMAIN Append(f[n], s[n + 1]) = 1..(Len(f[n]) + 1)
            /\ \A i \in 1..Len(f[n]) : Append(f[n], s[n + 1])[i] = f[n][i]
            /\ Append(f[n], s[n + 1])[Len(f[n]) + 1] = s[n + 1]
        BY <2>1, <2>2
      <3>2. 1..(Len(f[n]) + 1) = (1..Len(f[n])) \cup {Len(f[n]) + 1}
        BY <3>1
      <3> QED BY <3>1, <3>2 DEF Range
    <2>6. Good(n + 1)
      BY <2>2, <2>3, <2>4, <2>5
    <2> QED BY <2>1, <2>6
  <1>7. Good(Len(s))
    <2> HIDE DEF G
    <2>1. 0..Len(s) \subseteq G
      BY <1>1, <1>5, <1>6, Induction
    <2>2. Len(s) \in G
      BY <1>1, <2>1
    <2> QED BY <2>2 DEF G
  <1> QED BY <1>1, <1>3, <1>7 DEF Range

\* Append adds the one element.
LEMMA RangeOfAppend ==
  ASSUME NEW D, NEW s \in Seq(D), NEW x \in D
  PROVE  Range(Append(s, x)) = Range(s) \cup {x}
  <1>1. /\ Len(s) \in Nat /\ DOMAIN s = 1..Len(s)
        /\ DOMAIN Append(s, x) = 1..(Len(s) + 1)
        /\ \A i \in 1..Len(s) : Append(s, x)[i] = s[i]
        /\ Append(s, x)[Len(s) + 1] = x
    OBVIOUS
  <1>2. 1..(Len(s) + 1) = (1..Len(s)) \cup {Len(s) + 1}
    BY <1>1
  <1> QED BY <1>1, <1>2 DEF Range


\* A list is a function on 1..Len, and Range is what it takes there.
LEMMA ListElements ==
  ASSUME NEW s, IsList(s)
  PROVE  /\ Len(s) \in Nat /\ DOMAIN s = 1..Len(s)
         /\ \A i \in 1..Len(s) : s[i] \in Range(s)
         /\ \A x \in Range(s) : \E i \in 1..Len(s) : s[i] = x
  BY DEF IsList, Range

\* A sequence over any set is a list.
LEMMA SeqIsList ==
  ASSUME NEW D, NEW s \in Seq(D)
  PROVE  IsList(s) /\ Range(s) \subseteq D
  <1>1. Len(s) \in Nat /\ DOMAIN s = 1..Len(s) /\ s = [i \in 1..Len(s) |-> s[i]]
    OBVIOUS
  <1>2. \A i \in 1..Len(s) : s[i] \in Range(s)
    BY <1>1 DEF Range
  <1>3. s \in Seq(Range(s))
    BY <1>1, <1>2
  <1> QED BY <1>3 DEF IsList, Range

\* A function on 1..n is a list of length n.
LEMMA FunctionIsList ==
  ASSUME NEW n \in Nat, NEW s, s = [i \in 1..n |-> s[i]]
  PROVE  IsList(s) /\ Len(s) = n
  <1>1. DOMAIN s = 1..n
    OBVIOUS
  <1>2. \A i \in 1..n : s[i] \in Range(s)
    BY <1>1 DEF Range
  <1>3. s \in Seq(Range(s)) /\ Len(s) = n
    BY <1>2
  <1> QED BY <1>3 DEF IsList

\* The list without elements.
LEMMA EmptyList == IsList(<<>>) /\ Range(<<>>) = {} /\ Len(<<>>) = 0
  BY DEF IsList, Range

\* The list of one element.
LEMMA SingleList == ASSUME NEW x PROVE IsList(<<x>>) /\ Range(<<x>>) = {x}
  BY DEF IsList, Range

\* Append gives a list, with the element last.
LEMMA AppendList ==
  ASSUME NEW s, IsList(s), NEW x
  PROVE  IsList(Append(s, x)) /\ Range(Append(s, x)) = Range(s) \cup {x}
  <1> DEFINE D == Range(s) \cup {x}
  <1>1. s \in Seq(D) /\ x \in D
    BY DEF IsList
  <1> HIDE DEF D
  <1>2. Append(s, x) \in Seq(D)
    BY <1>1
  <1>3. IsList(Append(s, x))
    BY <1>2, SeqIsList
  <1>4. Range(Append(s, x)) = Range(s) \cup {x}
    BY <1>1, RangeOfAppend
  <1> QED BY <1>3, <1>4

\* Among gives a list of the elements in S.
LEMMA AmongList ==
  ASSUME NEW s, IsList(s), NEW S
  PROVE  IsList(Among(s, S)) /\ Range(Among(s, S)) = Range(s) \cap S
  BY AmongFacts, SeqIsList DEF IsList

\* Concatenation gives a list of the elements of both.
LEMMA ConcatList ==
  ASSUME NEW s, NEW t, IsList(s), IsList(t)
  PROVE  /\ IsList(s \o t) /\ Range(s \o t) = Range(s) \cup Range(t)
         /\ Len(s \o t) = Len(s) + Len(t)
         /\ \A i \in 1..Len(s) : (s \o t)[i] = s[i]
         /\ \A i \in 1..Len(t) : (s \o t)[Len(s) + i] = t[i]
  <1> DEFINE D == Range(s) \cup Range(t)
  <1>1. s \in Seq(D) /\ t \in Seq(D)
    BY DEF IsList
  <1>2. s \o t \in Seq(D)
    BY <1>1
  <1>3. /\ Len(s \o t) = Len(s) + Len(t)
        /\ \A i \in 1..Len(s) : (s \o t)[i] = s[i]
        /\ \A i \in 1..Len(t) : (s \o t)[Len(s) + i] = t[i]
    BY <1>1
  <1>4. IsList(s \o t) /\ Range(s \o t) \subseteq D
    BY <1>2, SeqIsList
  <1>5. ASSUME NEW x \in D PROVE x \in Range(s \o t)
    <2>1. Len(s) \in Nat /\ Len(t) \in Nat /\ DOMAIN (s \o t) = 1..(Len(s) + Len(t))
      BY <1>1, <1>2, <1>3
    <2>2. CASE x \in Range(s)
      <3>1. PICK i \in 1..Len(s) : s[i] = x
        BY <2>2, ListElements
      <3>2. i \in 1..(Len(s) + Len(t))
        BY <2>1
      <3> QED BY <1>3, <2>1, <3>1, <3>2 DEF Range
    <2>3. CASE x \in Range(t)
      <3>1. PICK i \in 1..Len(t) : t[i] = x
        BY <2>3, ListElements
      <3>2. Len(s) + i \in 1..(Len(s) + Len(t))
        BY <2>1
      <3> QED BY <1>3, <2>1, <3>1, <3>2 DEF Range
    <2> QED BY <2>2, <2>3
  <1> QED BY <1>3, <1>4, <1>5

\* The recursion in FlattenSeq, up to n.
FlattenTo(n, f, ss) == f = [i \in 1..n |-> IF i = 1 THEN ss[i] ELSE f[i - 1] \o ss[i]]

\* There is such a function, so FlattenSeq is what the recursion says.
LEMMA FlattenExists ==
  ASSUME NEW ss, NEW N \in Nat
  PROVE  \E f : FlattenTo(N, f, ss)
  <1> DEFINE G == {n \in 0..N : \E f : FlattenTo(n, f, ss)}
  <1>1. 0 \in G
    <2> DEFINE f == [i \in 1..0 |-> <<>>]
    <2>1. FlattenTo(0, f, ss)
      BY DEF FlattenTo
    <2> HIDE DEF f
    <2>2. \E g : FlattenTo(0, g, ss)
      BY <2>1
    <2> QED BY <2>2
  <1>2. ASSUME NEW n \in 0..N, n \in G, n # N PROVE n + 1 \in G
    <2>1. PICK f : FlattenTo(n, f, ss)
      BY <1>2
    <2>2. \A i \in 1..n : f[i] = IF i = 1 THEN ss[i] ELSE f[i - 1] \o ss[i]
      BY <2>1 DEF FlattenTo
    <2> DEFINE last == IF n + 1 = 1 THEN ss[n + 1] ELSE f[n] \o ss[n + 1]
               g == [i \in 1..(n + 1) |-> IF i # n + 1 THEN f[i] ELSE last]
    <2>e. last = IF n + 1 = 1 THEN ss[n + 1] ELSE f[n] \o ss[n + 1]
      OBVIOUS
    <2> HIDE DEF last
    <2>3. /\ g = [i \in 1..(n + 1) |-> g[i]]
          /\ \A i \in 1..n : g[i] = f[i]
          /\ g[n + 1] = last
      OBVIOUS
    <2> HIDE DEF g
    <2>4. ASSUME NEW i \in 1..(n+1)
          PROVE  g[i] = IF i = 1 THEN ss[i] ELSE g[i - 1] \o ss[i]
      <3>1. CASE i = n + 1
        <4>1. (n + 1) - 1 = n /\ (n + 1 # 1 => n \in 1..n)
          OBVIOUS
        <4> QED BY <2>3, <2>e, <3>1, <4>1
      <3>2. CASE i # n + 1
        <4>1. i \in 1..n /\ (i # 1 => i - 1 \in 1..n)
          BY <3>2
        <4> QED BY <2>2, <2>3, <4>1
      <3> QED BY <3>1, <3>2
    <2>5. FlattenTo(n + 1, g, ss)
      BY <2>3, <2>4 DEF FlattenTo
    <2>6. \E h : FlattenTo(n + 1, h, ss)
      BY <2>5
    <2> QED BY <2>6, <1>2
  <1>3. N \in G
    <2> HIDE DEF G
    <2>1. 0..N \subseteq G
      BY <1>1, <1>2, Induction
    <2> QED BY <2>1
  <1> QED BY <1>3

\* Flattening keeps all elements, and their blocks in order.
InBlocks(s, ss, n) ==
  /\ IsList(s)
  /\ Range(s) = UNION {Range(ss[i]) : i \in 1..n}
  /\ \A i, j \in 1..Len(s) : i < j => \E a, b \in 1..n :
       a <= b /\ s[i] \in Range(ss[a]) /\ s[j] \in Range(ss[b])

\* What one more block adds.
LEMMA NextBlock ==
  ASSUME NEW s, NEW ss, NEW n \in Nat, InBlocks(s, ss, n), IsList(ss[n + 1])
  PROVE  InBlocks(s \o ss[n + 1], ss, n + 1)
  <1> DEFINE t == ss[n + 1]
             u == s \o t
  <1>1. IsList(s) /\ IsList(t)
    BY DEF InBlocks
  <1>2. /\ IsList(u) /\ Range(u) = Range(s) \cup Range(t)
        /\ Len(u) = Len(s) + Len(t)
        /\ \A i \in 1..Len(s) : u[i] = s[i]
        /\ \A i \in 1..Len(t) : u[Len(s) + i] = t[i]
    BY <1>1, ConcatList
  <1>3. 1..(n + 1) = (1..n) \cup {n + 1}
    OBVIOUS
  <1>4. Len(s) \in Nat /\ Len(t) \in Nat
    BY <1>1, ListElements
  <1>5. \A i \in 1..Len(s) : s[i] \in Range(s)
    BY <1>1, ListElements
  <1>6. \A i \in 1..Len(t) : t[i] \in Range(t)
    BY <1>1, ListElements
  <1> HIDE DEF t, u
  <1>7. Range(u) = UNION {Range(ss[i]) : i \in 1..(n + 1)}
    BY <1>2, <1>3 DEF InBlocks, t
  <1>8. ASSUME NEW i \in 1..Len(u), NEW j \in 1..Len(u), i < j
        PROVE  \E a, b \in 1..(n + 1) : a <= b /\ u[i] \in Range(ss[a]) /\ u[j] \in Range(ss[b])
    <2>1. CASE j \in 1..Len(s)
      <3>1. i \in 1..Len(s)
        BY <1>2, <1>4, <1>8, <2>1
      <3>2. PICK a \in 1..n, b \in 1..n : a <= b /\ s[i] \in Range(ss[a]) /\ s[j] \in Range(ss[b])
        BY <1>8, <2>1, <3>1 DEF InBlocks
      <3> QED BY <1>2, <1>3, <2>1, <3>1, <3>2
    <2>2. CASE j \notin 1..Len(s)
      <3>1. j - Len(s) \in 1..Len(t) /\ j = Len(s) + (j - Len(s))
        BY <1>2, <1>4, <2>2
      <3>2. u[j] \in Range(ss[n + 1])
        BY <1>2, <1>6, <3>1 DEF t
      <3>3. CASE i \in 1..Len(s)
        <4>1. PICK a \in 1..n : s[i] \in Range(ss[a])
          BY <1>5, <3>3 DEF InBlocks
        <4>2. a <= n + 1 /\ a \in 1..(n + 1) /\ n + 1 \in 1..(n + 1)
          OBVIOUS
        <4>3. u[i] \in Range(ss[a])
          BY <1>2, <3>3, <4>1
        <4> QED BY <3>2, <4>2, <4>3
      <3>4. CASE i \notin 1..Len(s)
        <4>1. i - Len(s) \in 1..Len(t) /\ i = Len(s) + (i - Len(s))
          BY <1>2, <1>4, <3>4
        <4>2. u[i] \in Range(ss[n + 1])
          BY <1>2, <1>6, <4>1 DEF t
        <4>3. n + 1 <= n + 1 /\ n + 1 \in 1..(n + 1)
          OBVIOUS
        <4> QED BY <3>2, <4>2, <4>3
      <3> QED BY <3>3, <3>4
    <2> QED BY <2>1, <2>2
  <1> QED BY <1>2, <1>7, <1>8 DEF InBlocks, u, t

\* FlattenSeq gives a list of what is in its blocks.
LEMMA FlattenFacts ==
  ASSUME NEW ss, IsList(ss), \A i \in 1..Len(ss) : IsList(ss[i])
  PROVE  InBlocks(FlattenSeq(ss), ss, Len(ss))
  <1>1. Len(ss) \in Nat
    BY ListElements
  <1>2. CASE Len(ss) = 0
    <2>1. FlattenSeq(ss) = ss
      BY <1>2 DEF FlattenSeq
    <2>2. ss = <<>>
      BY <1>2 DEF IsList
    <2>3. 1..0 = {}
      OBVIOUS
    <2> QED BY <1>2, <2>1, <2>2, <2>3, EmptyList DEF InBlocks
  <1>3. CASE Len(ss) # 0
    <2> DEFINE f == CHOOSE f : f = [i \in 1..Len(ss) |->
                      IF i = 1 THEN ss[i] ELSE f[i - 1] \o ss[i]]
    <2>1. FlattenTo(Len(ss), f, ss)
      <3>1. \E g : FlattenTo(Len(ss), g, ss)
        BY <1>1, FlattenExists
      <3> QED BY <3>1 DEF FlattenTo
    <2>2. FlattenSeq(ss) = f[Len(ss)]
      BY <1>3 DEF FlattenSeq
    <2> HIDE DEF f
    <2>3. \A i \in 1..Len(ss) : f[i] = IF i = 1 THEN ss[i] ELSE f[i - 1] \o ss[i]
      BY <2>1 DEF FlattenTo
    <2> DEFINE G == {n \in 0..Len(ss) : n # 0 => InBlocks(f[n], ss, n)}
    <2>4. 0 \in G
      BY <1>1
    <2>5. ASSUME NEW n \in 0..Len(ss), n \in G, n # Len(ss) PROVE n + 1 \in G
      <3>1. n + 1 \in 1..Len(ss) /\ (n + 1) - 1 = n /\ n + 1 # 0 /\ n \in Nat /\ n + 1 \in 0..Len(ss)
        <4> HIDE DEF G
        <4> QED BY <1>1, <2>5
      <3>2. CASE n = 0
        <4>1. f[1] = ss[1] /\ IsList(ss[1])
          BY <2>3, <3>1, <3>2
        <4>2. 1..1 = {1}
          OBVIOUS
        <4>3. \A i \in 1..Len(ss[1]) : ss[1][i] \in Range(ss[1])
          BY <4>1, ListElements
        <4>4. 1 <= 1
          OBVIOUS
        <4>5. InBlocks(f[1], ss, 1)
          BY <4>1, <4>2, <4>3, <4>4 DEF InBlocks
        <4> QED BY <3>1, <3>2, <4>5
      <3>3. CASE n # 0
        <4>0. n + 1 # 1
          BY <3>1, <3>3
        <4>1. f[n + 1] = f[n] \o ss[n + 1] /\ IsList(ss[n + 1])
          BY <2>3, <3>1, <4>0
        <4>2. InBlocks(f[n], ss, n)
          BY <2>5, <3>3
        <4>3. InBlocks(f[n + 1], ss, n + 1)
          BY <3>1, <4>1, <4>2, NextBlock
        <4> QED BY <3>1, <4>3
      <3> QED BY <3>2, <3>3
    <2>6. Len(ss) \in G
      <3> HIDE DEF G
      <3>1. 0..Len(ss) \subseteq G
        BY <1>1, <2>4, <2>5, Induction
      <3> QED BY <1>1, <3>1
    <2> QED BY <1>3, <2>2, <2>6
  <1> QED BY <1>2, <1>3

\* What a list is mapped to, element by element.
LEMMA MapList ==
  ASSUME NEW s, IsList(s), NEW t, t = [i \in DOMAIN s |-> t[i]]
  PROVE  /\ IsList(t) /\ Len(t) = Len(s) /\ DOMAIN t = DOMAIN s
         /\ \A y \in Range(t) : \E i \in DOMAIN s : y = t[i]
         /\ \A i \in DOMAIN s : t[i] \in Range(t)
  <1>1. Len(s) \in Nat /\ DOMAIN s = 1..Len(s)
    BY ListElements
  <1>2. DOMAIN t = 1..Len(s) /\ t = [i \in 1..Len(s) |-> t[i]]
    BY <1>1
  <1>3. IsList(t) /\ Len(t) = Len(s)
    BY <1>1, <1>2, FunctionIsList
  <1> QED BY <1>1, <1>2, <1>3 DEF Range

\* All elements of a list of lists.
LEMMA FlattenList ==
  ASSUME NEW ss, IsList(ss), \A i \in DOMAIN ss : IsList(ss[i])
  PROVE  /\ IsList(FlattenSeq(ss))
         /\ \A x : x \in Range(FlattenSeq(ss)) <=> \E i \in DOMAIN ss : x \in Range(ss[i])
  <1>1. DOMAIN ss = 1..Len(ss)
    BY ListElements
  <1>2. InBlocks(FlattenSeq(ss), ss, Len(ss))
    BY <1>1, FlattenFacts
  <1> QED BY <1>1, <1>2 DEF InBlocks

Distinct(s) == \A i, j \in DOMAIN s : s[i] = s[j] => i = j

\* Among repeats nothing that the list does not repeat.
LEMMA AmongDistinct ==
  ASSUME NEW s, IsList(s), Distinct(s), NEW S
  PROVE  Distinct(Among(s, S))
  <1>1. Len(s) \in Nat /\ DOMAIN s = 1..Len(s)
    BY ListElements
  <1> DEFINE f == CHOOSE f : f = [i \in 0..Len(s) |->
                    IF i = 0 THEN <<>>
                    ELSE IF s[i] \in S THEN Append(f[i - 1], s[i]) ELSE f[i - 1]]
  <1>2. KeptTo(Len(s), f, s, S)
    <2>1. \E g : KeptTo(Len(s), g, s, S)
      BY <1>1, KeptExists
    <2> QED BY <2>1 DEF KeptTo
  <1>3. Among(s, S) = f[Len(s)]
    BY DEF Among
  <1> HIDE DEF f
  <1>4. \A i \in 0..Len(s) : f[i] = IF i = 0 THEN <<>>
          ELSE IF s[i] \in S THEN Append(f[i - 1], s[i]) ELSE f[i - 1]
    BY <1>2 DEF KeptTo
  <1> DEFINE Good(n) == /\ f[n] \in Seq(Range(s))
                        /\ \A i \in DOMAIN f[n] : \E k \in 1..n : f[n][i] = s[k]
                        /\ Distinct(f[n])
             G == {n \in 0..Len(s) : Good(n)}
  <1>5. 0 \in G
    <2>1. f[0] = <<>> /\ 0 \in 0..Len(s)
      BY <1>1, <1>4
    <2>2. DOMAIN <<>> = {} /\ <<>> \in Seq(Range(s))
      OBVIOUS
    <2>3. Distinct(<<>>)
      BY <2>2 DEF Distinct
    <2> QED BY <2>1, <2>2, <2>3
  <1>6. ASSUME NEW n \in 0..Len(s), n \in G, n # Len(s) PROVE n + 1 \in G
    <2>1. /\ n + 1 \in 1..Len(s) /\ n + 1 \in 0..Len(s) /\ (n + 1) - 1 = n /\ n + 1 # 0
          /\ \A k \in 1..n : k \in 1..Len(s) /\ k # n + 1 /\ k \in 1..(n + 1)
          /\ n + 1 \in 1..(n + 1)
      <3> HIDE DEF G
      <3>1. n \in Nat /\ n <= Len(s) /\ n # Len(s) /\ Len(s) \in Nat
        <4>1. n \in 0..Len(s) /\ Len(s) \in Nat
          BY <1>1
        <4> QED BY <1>6, <4>1
      <3> QED BY <3>1
    <2>2. Good(n)
      BY <1>6
    <2>3. f[n + 1] = IF s[n + 1] \in S THEN Append(f[n], s[n + 1]) ELSE f[n]
      BY <1>4, <2>1
    <2>4. CASE s[n + 1] \notin S
      <3>1. f[n + 1] = f[n]
        BY <2>3, <2>4
      <3> QED BY <2>1, <2>2, <3>1
    <2>5. CASE s[n + 1] \in S
      <3> DEFINE u == f[n]
                 v == Append(u, s[n + 1])
      <3>1. /\ u \in Seq(Range(s)) /\ Distinct(u)
            /\ \A i \in DOMAIN u : \E k \in 1..n : u[i] = s[k]
        BY <2>2
      <3>2. s[n + 1] \in Range(s)
        BY <1>1, <2>1 DEF Range
      <3> HIDE DEF u
      <3>3. /\ v \in Seq(Range(s)) /\ Len(u) \in Nat /\ DOMAIN u = 1..Len(u)
            /\ DOMAIN v = 1..(Len(u) + 1)
            /\ \A i \in 1..Len(u) : v[i] = u[i]
            /\ v[Len(u) + 1] = s[n + 1]
        BY <3>1, <3>2
      <3>4. \A i \in DOMAIN v : i \in 1..Len(u) \/ i = Len(u) + 1
        BY <3>3
      <3> HIDE DEF v
      <3>5. ASSUME NEW i \in DOMAIN v PROVE \E k \in 1..(n + 1) : v[i] = s[k]
        <4>1. CASE i = Len(u) + 1
          BY <2>1, <3>3, <4>1
        <4>2. CASE i # Len(u) + 1
          <5>1. i \in 1..Len(u)
            BY <3>4, <4>2
          <5>2. PICK k \in 1..n : u[i] = s[k]
            BY <3>1, <3>3, <5>1
          <5> QED BY <2>1, <3>3, <5>1, <5>2
        <4> QED BY <4>1, <4>2
      <3>6. ASSUME NEW i \in 1..Len(u) PROVE v[i] # s[n + 1]
        <4>1. PICK k \in 1..n : u[i] = s[k]
          BY <3>1, <3>3
        <4>2. k \in DOMAIN s /\ n + 1 \in DOMAIN s /\ k # n + 1
          BY <1>1, <2>1
        <4>3. s[k] # s[n + 1]
          BY <4>2 DEF Distinct
        <4> QED BY <3>3, <4>1, <4>3
      <3>7. Distinct(v)
        BY <3>1, <3>3, <3>4, <3>6 DEF Distinct
      <3>8. f[n + 1] = v
        BY <2>3, <2>5 DEF u, v
      <3> QED BY <2>1, <3>3, <3>5, <3>7, <3>8
    <2> QED BY <2>4, <2>5
  <1>7. Len(s) \in G
    <2> HIDE DEF G
    <2>1. 0..Len(s) \subseteq G
      BY <1>1, <1>5, <1>6, Induction
    <2> QED BY <1>1, <2>1
  <1> QED BY <1>3, <1>7

(***************************************************************************)
(* Schemas and pairs.                                                      *)
(***************************************************************************)

Kinds == {"pk", "unique", "index", "fk"}

IsTable(t) ==
  /\ DOMAIN t = {"name", "columns", "items"}
  /\ IsList(t.columns) /\ NamesDiffer(t.columns) /\ \A c \in Range(t.columns) : IsColumn(c)
  /\ IsList(t.items) /\ \A k \in Range(t.items) : k.kind \in Kinds

IsSchema(s) == IsList(s) /\ NamesDiffer(s) /\ \A t \in Range(s) : IsTable(t)

\* A list of items, of one kind.
IsItems(s) == IsList(s) /\ \A k \in Range(s) : k.kind \in Kinds

\* Lists of items, one after the other.
LEMMA ItemsConcat ==
  ASSUME NEW s, NEW t, IsItems(s), IsItems(t)
  PROVE  IsItems(s \o t)
  BY ConcatList DEF IsItems

\* Items made of a list.
LEMMA ItemsMapped ==
  ASSUME NEW cols, IsList(cols), NEW s, s = [i \in DOMAIN cols |-> s[i]],
         \A i \in DOMAIN cols : s[i].kind \in Kinds
  PROVE  IsItems(s)
  BY MapList DEF IsItems

\* serializeModels makes a table of every model.
LEMMA TableOfFacts ==
  ASSUME NEW m, IsModel(m)
  PROVE  IsTable(TableOf(m)) /\ TableOf(m).name = m.name
  <1> DEFINE single(rs) == [i \in DOMAIN rs |-> <<rs[i].column>>]
             items(kind, columns) == [i \in DOMAIN columns |-> Item(kind, m.name, columns[i])]
             ones == Among(m.relations, {r \in Range(m.relations) :
                       r.kind = "one" /\ <<r.column>> \notin {m.pk} \cup Range(m.uniques)})
             keys == m.uniques \o single(ones)
             bare == Among(m.relations, {r \in Range(m.relations) :
                       /\ r.kind = "many"
                       /\ \A cols \in {m.pk} \cup Range(keys) \cup {x.cols : x \in Range(m.indexes)} :
                            Head(cols) # r.column})
             s1 == <<[Item("pk", m.name, m.pk) EXCEPT !.name = <<"pk", m.name>>]>>
             s2 == items("unique", keys)
             s3 == [i \in DOMAIN m.indexes |->
                     [Item("index", m.name, m.indexes[i].cols) EXCEPT !.name = m.indexes[i].name]]
             s4 == items("index", single(bare))
             s5 == [i \in DOMAIN m.relations |->
                     [Item("fk", m.name, <<m.relations[i].column>>) EXCEPT !.to = m.relations[i].to]]
  <1>1. TableOf(m) = [name |-> m.name, columns |-> m.columns,
                      items |-> s1 \o s2 \o s3 \o s4 \o s5]
    BY DEF TableOf
  <1>2. IsList(m.uniques) /\ IsList(m.indexes) /\ IsList(m.relations)
    BY DEF IsModel
  <1>3. IsItems(s1)
    <2>1. [Item("pk", m.name, m.pk) EXCEPT !.name = <<"pk", m.name>>].kind \in Kinds
      BY DEF Item, Kinds
    <2> DEFINE k == [Item("pk", m.name, m.pk) EXCEPT !.name = <<"pk", m.name>>]
    <2>2. k.kind \in Kinds
      BY <2>1
    <2> HIDE DEF k
    <2>3. IsItems(<<k>>)
      BY <2>2, SingleList DEF IsItems
    <2> QED BY <2>3 DEF k
  <1>4. IsItems(s2)
    <2>1. IsList(ones)
      BY <1>2, AmongList
    <2> HIDE DEF ones
    <2>2. IsList(single(ones))
      BY <2>1, MapList
    <2>3. IsList(keys)
      BY <1>2, <2>2, ConcatList
    <2> HIDE DEF keys
    <2>4. \A i \in DOMAIN keys : s2[i].kind \in Kinds
      BY DEF Item, Kinds
    <2>5. s2 = [i \in DOMAIN keys |-> s2[i]]
      OBVIOUS
    <2> HIDE DEF s2
    <2> QED BY <2>3, <2>4, <2>5, ItemsMapped
  <1>5. IsItems(s3)
    <2>4. \A i \in DOMAIN m.indexes : s3[i].kind \in Kinds
      BY DEF Item, Kinds
    <2>5. s3 = [i \in DOMAIN m.indexes |-> s3[i]]
      OBVIOUS
    <2> HIDE DEF s3
    <2> QED BY <1>2, <2>4, <2>5, ItemsMapped
  <1>6. IsItems(s4)
    <2>1. IsList(bare)
      <3> HIDE DEF keys
      <3> QED BY <1>2, AmongList
    <2> HIDE DEF bare
    <2> DEFINE cols == single(bare)
    <2>2. IsList(cols)
      BY <2>1, MapList
    <2> HIDE DEF cols
    <2>4. s4 = [i \in DOMAIN cols |-> Item("index", m.name, cols[i])]
      BY DEF cols
    <2>5. s4 = [i \in DOMAIN cols |-> s4[i]] /\ \A i \in DOMAIN cols : s4[i].kind \in Kinds
      BY <2>4 DEF Item, Kinds
    <2> HIDE DEF s4
    <2> QED BY <2>2, <2>5, ItemsMapped
  <1>7. IsItems(s5)
    <2>4. \A i \in DOMAIN m.relations : s5[i].kind \in Kinds
      BY DEF Item, Kinds
    <2>5. s5 = [i \in DOMAIN m.relations |-> s5[i]]
      OBVIOUS
    <2> HIDE DEF s5
    <2> QED BY <1>2, <2>4, <2>5, ItemsMapped
  <1> HIDE DEF s1, s2, s3, s4, s5
  <1>8. IsItems(s1 \o s2 \o s3 \o s4 \o s5)
    BY <1>3, <1>4, <1>5, <1>6, <1>7, ItemsConcat
  <1> QED BY <1>1, <1>8 DEF IsTable, IsModel, IsItems

\* The tables of models of different names have different names.
LEMMA SchemaFacts ==
  ASSUME NEW models, IsList(models), NamesDiffer(models), \A m \in Range(models) : IsModel(m)
  PROVE  IsSchema(Schema(models))
  <1> DEFINE s == Schema(models)
  <1>1. s = [i \in DOMAIN models |-> TableOf(models[i])]
    BY DEF Schema
  <1>2. /\ s = [i \in DOMAIN models |-> s[i]]
        /\ \A i \in DOMAIN models : s[i] = TableOf(models[i])
    BY <1>1
  <1> HIDE DEF s
  <1>3. /\ IsList(s) /\ DOMAIN s = DOMAIN models
        /\ \A y \in Range(s) : \E i \in DOMAIN models : y = s[i]
    BY <1>2, MapList
  <1>4. \A i \in DOMAIN models : IsTable(s[i]) /\ s[i].name = models[i].name
    <2>1. \A i \in DOMAIN models : models[i] \in Range(models)
      BY DEF Range
    <2> QED BY <1>2, <2>1, TableOfFacts
  <1> QED BY <1>3, <1>4 DEF IsSchema, NamesDiffer, s

\* An element found by its name.
LEMMA NamedFacts ==
  ASSUME NEW s, NamesDiffer(s), NEW n \in Names(s)
  PROVE  /\ Named(s, n) \in Range(s) /\ Named(s, n).name = n
         /\ \A x \in Range(s) : x.name = n => x = Named(s, n)
  <1>1. \E i \in DOMAIN s : s[i].name = n
    BY DEF Names
  <1> DEFINE i == CHOOSE i \in DOMAIN s : s[i].name = n
  <1>2. i \in DOMAIN s /\ s[i].name = n
    BY <1>1
  <1>3. Named(s, n) = s[i]
    BY DEF Named
  <1> HIDE DEF i
  <1> QED BY <1>2, <1>3 DEF NamesDiffer, Range

\* A name is in Names if an element bears it.
LEMMA NamesFacts ==
  ASSUME NEW s, NEW x \in Range(s)
  PROVE  x.name \in Names(s)
  BY DEF Names, Range

\* Elements of one name are one element.
LEMMA SameName ==
  ASSUME NEW s, NamesDiffer(s), NEW x \in Range(s), NEW y \in Range(s), x.name = y.name
  PROVE  x = y
  BY DEF NamesDiffer, Range

\* Without keeps what has no namesake in the other list.
LEMMA WithoutFacts ==
  ASSUME NEW s, NEW other, IsList(s), NamesDiffer(s)
  PROVE  /\ IsList(Without(s, other)) /\ Distinct(Without(s, other))
         /\ \A x : x \in Range(Without(s, other)) <=> x \in Range(s) /\ x.name \notin Names(other)
  <1>1. Distinct(s)
    BY DEF Distinct, NamesDiffer
  <1> QED BY <1>1, AmongList, AmongDistinct DEF Without

\* The recursion in Pairs, up to n.
PairsTo(n, f, dropped, added, alike) ==
  f = [i \in 0..n |->
        IF i = 0 THEN <<>>
        ELSE LET before == f[i - 1]
                 free == Among(added, {a \in Range(added) :
                           <<dropped[i], a>> \in alike /\ \A p \in Range(before) : p[2] # a}) IN
             IF free = <<>> THEN before ELSE Append(before, <<dropped[i], Head(free)>>)]

\* One step of it.
Paired(before, d, added, alike) ==
  LET free == Among(added, {a \in Range(added) :
                <<d, a>> \in alike /\ \A p \in Range(before) : p[2] # a}) IN
  IF free = <<>> THEN before ELSE Append(before, <<d, Head(free)>>)

\* The recursion keeps the pairs apart.
LEMMA PairsToFacts ==
  ASSUME NEW n, NEW f, NEW dropped, NEW added, NEW alike
  PROVE  PairsTo(n, f, dropped, added, alike) <=>
           f = [i \in 0..n |-> IF i = 0 THEN <<>> ELSE Paired(f[i - 1], dropped[i], added, alike)]
  BY DEF PairsTo, Paired

\* There is such a function, so Pairs is what the recursion says.
LEMMA PairsExist ==
  ASSUME NEW dropped, NEW added, NEW alike, NEW N \in Nat
  PROVE  \E f : PairsTo(N, f, dropped, added, alike)
  <1> DEFINE G == {n \in 0..N : \E f : PairsTo(n, f, dropped, added, alike)}
  <1>1. 0 \in G
    <2> DEFINE f == [i \in 0..0 |-> <<>>]
    <2>1. PairsTo(0, f, dropped, added, alike)
      BY PairsToFacts
    <2> HIDE DEF f
    <2>2. \E g : PairsTo(0, g, dropped, added, alike)
      BY <2>1
    <2> QED BY <2>2
  <1>2. ASSUME NEW n \in 0..N, n \in G, n # N PROVE n + 1 \in G
    <2>1. PICK f : PairsTo(n, f, dropped, added, alike)
      BY <1>2
    <2>2. \A i \in 0..n : f[i] = IF i = 0 THEN <<>> ELSE Paired(f[i - 1], dropped[i], added, alike)
      BY <2>1, PairsToFacts
    <2> DEFINE last == Paired(f[n], dropped[n + 1], added, alike)
               g == [i \in 0..(n + 1) |-> IF i # n + 1 THEN f[i] ELSE last]
    <2>e. last = Paired(f[n], dropped[n + 1], added, alike)
      OBVIOUS
    <2> HIDE DEF last
    <2>3. /\ g = [i \in 0..(n + 1) |-> g[i]]
          /\ \A i \in 0..n : g[i] = f[i]
          /\ g[n + 1] = last
      OBVIOUS
    <2> HIDE DEF g
    <2>4. ASSUME NEW i \in 0..(n+1)
          PROVE  g[i] = IF i = 0 THEN <<>> ELSE Paired(g[i - 1], dropped[i], added, alike)
      <3>1. CASE i = n + 1
        <4>1. n + 1 # 0 /\ (n + 1) - 1 = n /\ n \in 0..n
          OBVIOUS
        <4> QED BY <2>3, <2>e, <3>1, <4>1
      <3>2. CASE i # n + 1
        <4>1. i \in 0..n /\ (i # 0 => i - 1 \in 0..n)
          BY <3>2
        <4> QED BY <2>2, <2>3, <4>1
      <3> QED BY <3>1, <3>2
    <2>5. PairsTo(n + 1, g, dropped, added, alike)
      BY <2>3, <2>4, PairsToFacts
    <2>6. \E h : PairsTo(n + 1, h, dropped, added, alike)
      BY <2>5
    <2> QED BY <2>6, <1>2
  <1>3. N \in G
    <2> HIDE DEF G
    <2>1. 0..N \subseteq G
      BY <1>1, <1>2, Induction
    <2> QED BY <2>1
  <1> QED BY <1>3

\* Pairs of one element of each list, of which none is in two pairs.
AreMatched(pairs, D, A, alike) ==
  /\ IsList(pairs)
  /\ \A p \in Range(pairs) : p = <<p[1], p[2]>> /\ p[1] \in D /\ p[2] \in A /\ p \in alike
  /\ \A p, o \in Range(pairs) : p[1] = o[1] \/ p[2] = o[2] => p = o

\* One step of the recursion pairs two free elements, or none.
LEMMA PairedFacts ==
  ASSUME NEW before, NEW D, NEW d, NEW added, NEW alike, IsList(added), d \notin D,
         AreMatched(before, D, Range(added), alike)
  PROVE  AreMatched(Paired(before, d, added, alike), D \cup {d}, Range(added), alike)
  <1> DEFINE S == {a \in Range(added) : <<d, a>> \in alike /\ \A p \in Range(before) : p[2] # a}
             free == Among(added, S)
             last == <<d, Head(free)>>
  <1>1. Paired(before, d, added, alike) = IF free = <<>> THEN before ELSE Append(before, last)
    BY DEF Paired
  <1>2. CASE free = <<>>
    BY <1>1, <1>2 DEF AreMatched
  <1>3. CASE free # <<>>
    <2>1. IsList(free) /\ Range(free) = Range(added) \cap S
      BY AmongList
    <2>2. Head(free) \in S
      <3> HIDE DEF S, free
      <3>1. Head(free) \in Range(free)
        <4>1. free \in Seq(Range(free))
          BY <2>1 DEF IsList
        <4> QED BY <1>3, <4>1
      <3> QED BY <2>1, <3>1
    <2>3. /\ last[1] = d /\ last[2] \in Range(added) /\ last \in alike /\ last = <<last[1], last[2]>>
          /\ \A p \in Range(before) : p[2] # last[2]
      BY <2>2
    <2> HIDE DEF free, last
    <2>4. IsList(Append(before, last)) /\ Range(Append(before, last)) = Range(before) \cup {last}
      BY AppendList DEF AreMatched
    <2>5. \A p \in Range(before) : p[1] # d
      BY DEF AreMatched
    <2>6. Paired(before, d, added, alike) = Append(before, last)
      BY <1>1, <1>3
    <2> QED BY <2>3, <2>4, <2>5, <2>6 DEF AreMatched
  <1> QED BY <1>2, <1>3

\* Pairs takes no element twice.
LEMMA PairsFacts ==
  ASSUME NEW dropped, NEW added, NEW alike, IsList(dropped), Distinct(dropped), IsList(added)
  PROVE  AreMatched(Pairs(dropped, added, alike), Range(dropped), Range(added), alike)
  <1> DEFINE N == Len(dropped)
  <1>1. N \in Nat /\ DOMAIN dropped = 1..N
    BY ListElements
  <1> HIDE DEF N
  <1> DEFINE f == CHOOSE f : f = [i \in 0..N |->
        IF i = 0 THEN <<>>
        ELSE LET before == f[i - 1]
                 free == Among(added, {a \in Range(added) :
                           <<dropped[i], a>> \in alike /\ \A p \in Range(before) : p[2] # a}) IN
             IF free = <<>> THEN before ELSE Append(before, <<dropped[i], Head(free)>>)]
  <1>2. PairsTo(N, f, dropped, added, alike)
    <2>1. \E g : PairsTo(N, g, dropped, added, alike)
      BY <1>1, PairsExist
    <2> QED BY <2>1 DEF PairsTo
  <1>3. Pairs(dropped, added, alike) = f[N]
    BY DEF Pairs, N
  <1> HIDE DEF f
  <1>4. \A i \in 0..N : f[i] = IF i = 0 THEN <<>> ELSE Paired(f[i - 1], dropped[i], added, alike)
    BY <1>2, PairsToFacts
  <1> DEFINE D(n) == {dropped[k] : k \in 1..n}
             G == {n \in 0..N : AreMatched(f[n], D(n), Range(added), alike)}
  <1>5. 0 \in G
    <2>1. f[0] = <<>> /\ 0 \in 0..N
      BY <1>1, <1>4
    <2>2. AreMatched(<<>>, D(0), Range(added), alike)
      BY EmptyList DEF AreMatched
    <2> QED BY <2>1, <2>2
  <1>6. ASSUME NEW n \in 0..N, n \in G, n # N PROVE n + 1 \in G
    <2>1. n \in Nat /\ n + 1 \in 1..N /\ n + 1 \in 0..N /\ (n + 1) - 1 = n /\ n + 1 # 0
      <3> HIDE DEF G
      <3> QED BY <1>1, <1>6
    <2>2. AreMatched(f[n], D(n), Range(added), alike)
      BY <1>6
    <2>3. \A k \in 1..n : k \in 1..N /\ k # n + 1
      <3> HIDE DEF G
      <3> QED BY <1>1, <2>1
    <2>4. dropped[n + 1] \notin D(n)
      BY <1>1, <2>1, <2>3 DEF Distinct
    <2>5. D(n + 1) = D(n) \cup {dropped[n + 1]}
      <3>1. 1..(n + 1) = (1..n) \cup {n + 1}
        BY <2>1
      <3> QED BY <3>1
    <2>6. f[n + 1] = Paired(f[n], dropped[n + 1], added, alike)
      BY <1>4, <2>1
    <2> HIDE DEF D
    <2>7. AreMatched(f[n + 1], D(n + 1), Range(added), alike)
      BY <2>2, <2>4, <2>5, <2>6, PairedFacts
    <2> QED BY <2>1, <2>7
  <1>7. AreMatched(f[N], D(N), Range(added), alike)
    <2> HIDE DEF G
    <2>1. 0..N \subseteq G
      BY <1>1, <1>5, <1>6, Induction
    <2>2. N \in G
      BY <1>1, <2>1
    <2> QED BY <2>2 DEF G
  <1>8. D(N) = Range(dropped)
    BY <1>1 DEF Range
  <1> QED BY <1>3, <1>7, <1>8

(***************************************************************************)
(* Operations: what leaves the column at p, that goes to q, alone, and what *)
(* moves it.  Then the database: a table's columns, and where one is kept. *)
(***************************************************************************)

ItemOps == {"addForeignKey", "createIndex", "addUniqueConstraint", "addPrimaryKey",
            "dropForeignKey", "dropIndex", "dropUniqueConstraint", "dropPrimaryKey"}
OpKinds == {"createTable", "dropTable", "renameTable", "addColumn", "dropColumn",
            "alterColumn", "renameColumn"} \cup ItemOps

\* What drops and what adds an item, by its kind.
LEMMA ItemKinds ==
  /\ DOMAIN AddOf = Kinds /\ DOMAIN DropOf = Kinds
  /\ Range(AddOf) = {"addForeignKey", "createIndex", "addUniqueConstraint", "addPrimaryKey"}
  /\ Range(DropOf) = {"dropForeignKey", "dropIndex", "dropUniqueConstraint", "dropPrimaryKey"}
  <1>1. DOMAIN AddOf = Kinds /\ DOMAIN DropOf = Kinds
    BY DEF AddOf, DropOf, Kinds
  <1>2. /\ AddOf["fk"] = "addForeignKey" /\ AddOf["index"] = "createIndex"
        /\ AddOf["unique"] = "addUniqueConstraint" /\ AddOf["pk"] = "addPrimaryKey"
        /\ DropOf["fk"] = "dropForeignKey" /\ DropOf["index"] = "dropIndex"
        /\ DropOf["unique"] = "dropUniqueConstraint" /\ DropOf["pk"] = "dropPrimaryKey"
    BY DEF AddOf, DropOf
  <1>3. /\ Range(AddOf) = {AddOf[k] : k \in Kinds}
        /\ Range(DropOf) = {DropOf[k] : k \in Kinds}
    BY <1>1 DEF Range
  <1> QED BY <1>1, <1>2, <1>3 DEF Kinds

\* An operation of a script.
IsOp(op) ==
  /\ op.do \in OpKinds
  /\ op.do \in {"createTable", "dropTable"} =>
       DOMAIN op = {"do", "table", "def"} /\ op.table = op.def.name /\ IsTable(op.def)
  /\ op.do = "renameTable" => op.table = op.from
  /\ op.do \in {"addColumn", "dropColumn"} => IsColumn(op.column)
  /\ op.do = "alterColumn" => IsColumn(op.from) /\ IsColumn(op.to)
  /\ op.do \in ItemOps => op.item.kind \in Kinds

\* The rename that takes the column at p to q.
IsMove(op, p, q) ==
  IF p[1] = q[1] THEN /\ op.do = "renameColumn" /\ op.table = p[1]
                      /\ op.from = p[2] /\ op.to = q[2] /\ p[2] # q[2]
  ELSE op.do = "renameTable" /\ op.from = p[1] /\ op.to = q[1]

\* It takes the column at p to q, or does not name it.
Leaves(op, p, q) ==
  LET here == {p[1], q[1]}  names == {p[2], q[2]} IN
  /\ op.do = "renameTable" => IsMove(op, p, q) \/ (op.from \notin here /\ op.to \notin here)
  /\ p[1] # q[1] => op.do = "renameTable" \/ op.table \notin here
  /\ op.do \in {"createTable", "dropTable"} => op.table \notin here
  /\ op.table \in here =>
       /\ op.do \in {"addColumn", "dropColumn"} => op.column.name \notin names
       /\ op.do = "renameColumn" => IsMove(op, p, q) \/ (op.from \notin names /\ op.to \notin names)

\* invertOperation, case by case.
LEMMA Inverted ==
  ASSUME NEW op
  PROVE  /\ op.do = "createTable" => InvertOperation(op) = TableOp("dropTable", op.def)
         /\ op.do = "dropTable" => InvertOperation(op) = TableOp("createTable", op.def)
         /\ op.do = "renameTable" =>
              InvertOperation(op) = ChangeOp("renameTable", op.to, op.to, op.from)
         /\ op.do = "addColumn" => InvertOperation(op) = ColumnOp("dropColumn", op.table, op.column)
         /\ op.do = "dropColumn" => InvertOperation(op) = ColumnOp("addColumn", op.table, op.column)
         /\ op.do \in {"renameColumn", "alterColumn"} =>
              InvertOperation(op) = ChangeOp(op.do, op.table, op.to, op.from)
  <1>1. CASE op.do = "createTable"
    BY <1>1, ItemKinds DEF InvertOperation
  <1>2. CASE op.do = "dropTable"
    BY <1>2, ItemKinds DEF InvertOperation
  <1>3. CASE op.do = "renameTable"
    BY <1>3, ItemKinds DEF InvertOperation
  <1>4. CASE op.do = "addColumn"
    BY <1>4, ItemKinds DEF InvertOperation
  <1>5. CASE op.do = "dropColumn"
    BY <1>5, ItemKinds DEF InvertOperation
  <1>6. CASE op.do = "renameColumn"
    BY <1>6, ItemKinds DEF InvertOperation
  <1>7. CASE op.do = "alterColumn"
    BY <1>7, ItemKinds DEF InvertOperation
  <1> QED BY <1>1, <1>2, <1>3, <1>4, <1>5, <1>6, <1>7

\* The inverse of an operation is one.
LEMMA InvertedOp ==
  ASSUME NEW op, IsOp(op)
  PROVE  IsOp(InvertOperation(op))
  <1>1. CASE op.do \in {"createTable", "dropTable", "renameTable", "addColumn", "dropColumn",
                        "renameColumn", "alterColumn"}
    <2>1. CASE op.do = "createTable"
      BY <2>1, Inverted DEF IsOp, TableOp, ColumnOp, ChangeOp, OpKinds, ItemOps
    <2>2. CASE op.do = "dropTable"
      BY <2>2, Inverted DEF IsOp, TableOp, ColumnOp, ChangeOp, OpKinds, ItemOps
    <2>3. CASE op.do = "renameTable"
      BY <2>3, Inverted DEF IsOp, TableOp, ColumnOp, ChangeOp, OpKinds, ItemOps
    <2>4. CASE op.do = "addColumn"
      BY <2>4, Inverted DEF IsOp, TableOp, ColumnOp, ChangeOp, OpKinds, ItemOps
    <2>5. CASE op.do = "dropColumn"
      BY <2>5, Inverted DEF IsOp, TableOp, ColumnOp, ChangeOp, OpKinds, ItemOps
    <2>6. CASE op.do = "renameColumn"
      BY <2>6, Inverted DEF IsOp, TableOp, ColumnOp, ChangeOp, OpKinds, ItemOps
    <2>7. CASE op.do = "alterColumn"
      BY <2>7, Inverted DEF IsOp, TableOp, ColumnOp, ChangeOp, OpKinds, ItemOps
    <2> QED BY <1>1, <2>1, <2>2, <2>3, <2>4, <2>5, <2>6, <2>7
  <1>2. CASE op.do \in Range(AddOf)
    <2>1. InvertOperation(op) = ItemOp(DropOf[op.item.kind], op.table, op.item)
      BY <1>2, ItemKinds DEF InvertOperation
    <2>2. op.item.kind \in Kinds /\ DropOf[op.item.kind] \in Range(DropOf)
      BY <1>2, ItemKinds DEF IsOp, ItemOps, Range
    <2> QED BY <2>1, <2>2, ItemKinds DEF IsOp, ItemOp, OpKinds, ItemOps
  <1>3. CASE op.do \in Range(DropOf)
    <2>1. InvertOperation(op) = ItemOp(AddOf[op.item.kind], op.table, op.item)
      BY <1>3, ItemKinds DEF InvertOperation
    <2>2. op.item.kind \in Kinds /\ AddOf[op.item.kind] \in Range(AddOf)
      BY <1>3, ItemKinds DEF IsOp, ItemOps, Range
    <2> QED BY <2>1, <2>2, ItemKinds DEF IsOp, ItemOp, OpKinds, ItemOps
  <1> QED BY <1>1, <1>2, <1>3, ItemKinds DEF IsOp, OpKinds, ItemOps

\* What spares a column on its way does so inverted, on the way back.
LEMMA InvertedLeaves ==
  ASSUME NEW op, IsOp(op), NEW p, NEW q, Leaves(op, p, q)
  PROVE  Leaves(InvertOperation(op), q, p)
  <1>1. CASE op.do \in {"createTable", "dropTable", "renameTable", "addColumn", "dropColumn",
                        "renameColumn", "alterColumn"}
    <2>1. CASE op.do = "createTable"
      BY <2>1, Inverted DEF IsOp, TableOp, ColumnOp, ChangeOp, Leaves, IsMove
    <2>2. CASE op.do = "dropTable"
      BY <2>2, Inverted DEF IsOp, TableOp, ColumnOp, ChangeOp, Leaves, IsMove
    <2>3. CASE op.do = "renameTable"
      BY <2>3, Inverted DEF IsOp, TableOp, ColumnOp, ChangeOp, Leaves, IsMove
    <2>4. CASE op.do = "addColumn"
      BY <2>4, Inverted DEF IsOp, TableOp, ColumnOp, ChangeOp, Leaves, IsMove
    <2>5. CASE op.do = "dropColumn"
      BY <2>5, Inverted DEF IsOp, TableOp, ColumnOp, ChangeOp, Leaves, IsMove
    <2>6. CASE op.do = "renameColumn"
      BY <2>6, Inverted DEF IsOp, TableOp, ColumnOp, ChangeOp, Leaves, IsMove
    <2>7. CASE op.do = "alterColumn"
      BY <2>7, Inverted DEF IsOp, TableOp, ColumnOp, ChangeOp, Leaves, IsMove
    <2> QED BY <1>1, <2>1, <2>2, <2>3, <2>4, <2>5, <2>6, <2>7
  <1>2. CASE op.do \in Range(AddOf)
    <2>1. InvertOperation(op) = ItemOp(DropOf[op.item.kind], op.table, op.item)
      BY <1>2, ItemKinds DEF InvertOperation
    <2>2. op.item.kind \in Kinds /\ DropOf[op.item.kind] \in Range(DropOf)
      BY <1>2, ItemKinds DEF IsOp, ItemOps, Range
    <2> QED BY <1>2, <2>1, <2>2, ItemKinds DEF ItemOp, Leaves
  <1>3. CASE op.do \in Range(DropOf)
    <2>1. InvertOperation(op) = ItemOp(AddOf[op.item.kind], op.table, op.item)
      BY <1>3, ItemKinds DEF InvertOperation
    <2>2. op.item.kind \in Kinds /\ AddOf[op.item.kind] \in Range(AddOf)
      BY <1>3, ItemKinds DEF IsOp, ItemOps, Range
    <2> QED BY <1>3, <2>1, <2>2, ItemKinds DEF ItemOp, Leaves
  <1> QED BY <1>1, <1>2, <1>3, ItemKinds DEF IsOp, OpKinds, ItemOps

\* The inverse of a column's rename is its rename back.
LEMMA InvertedMove ==
  ASSUME NEW op, NEW p, NEW q, IsMove(op, p, q)
  PROVE  IsMove(InvertOperation(op), q, p)
  BY Inverted DEF IsMove, ChangeOp
\* Tables and columns as they are stored.
IsStored(u)    == /\ DOMAIN u = {"name", "items", "columns"}
                  /\ \A c \in u.columns : c = Stored(c, c.data)
IsDatabase(db) == \A u \in db : IsStored(u)

\* All columns of that name, and there is one, have that data.
Keeps(columns, name, data) ==
  /\ \E c \in columns : c.name = name
  /\ \A c \in columns : c.name = name => c.data = data

Certain(db, place, data) ==
  /\ Has(db, place[1])
  /\ \A u \in db : u.name = place[1] => Keeps(u.columns, place[2], data)

\* A table that is there is found.
LEMMA AtFacts ==
  ASSUME NEW db, NEW t, Has(db, t)
  PROVE  At(db, t) \in db /\ At(db, t).name = t
  BY DEF Has, At

\* Replacing a table keeps the column if the new table does.
LEMMA PutFacts ==
  ASSUME NEW db, NEW u, NEW place, NEW data, IsDatabase(db), Certain(db, place, data),
         IsStored(u), u.name = place[1] => Keeps(u.columns, place[2], data)
  PROVE  IsDatabase(Put(db, u)) /\ Certain(Put(db, u), place, data)
  BY DEF IsDatabase, Certain, Put, Has

\* A stored column has the name and the data it is given.
LEMMA StoredFacts ==
  ASSUME NEW c, NEW data
  PROVE  /\ Stored(c, data).name = c.name /\ Stored(c, data).data = data
         /\ Stored(c, data) = Stored(Stored(c, data), data)
  BY DEF Stored

\* A created table is as tables are stored.
LEMMA CreatedFacts ==
  ASSUME NEW def
  PROVE  Created(def).name = def.name /\ IsStored(Created(def))
  <1> DEFINE cols == {Stored(c, <<>>) : c \in Range(def.columns)}
  <1>1. \A c \in cols : c = Stored(c, c.data)
    BY StoredFacts
  <1>2. Created(def) = [name |-> def.name, items |-> Range(def.items), columns |-> cols]
    BY DEF Created
  <1> HIDE DEF cols
  <1> QED BY <1>1, <1>2 DEF IsStored

(***************************************************************************)
(* What each statement does to a column of the database.                   *)
(***************************************************************************)

\* What a statement may not do to the column at place: it is still there, with its data.
Keeping(place, data, after) == IsDatabase(after) /\ Certain(after, place, data)

\* A table changed in its columns.
LEMMA ItemsChanged ==
  ASSUME NEW u, IsStored(u), NEW x, NEW v, v = [u EXCEPT !.items = x]
  PROVE  IsStored(v) /\ v.name = u.name /\ v.columns = u.columns
  BY DEF IsStored

\* CREATE TABLE spares the columns of the other tables.
LEMMA DoneCreateTable ==
  ASSUME NEW dialect, NEW db, NEW st, NEW place, NEW data, IsDatabase(db), Certain(db, place, data),
         st.do = "createTable", st.def.name # place[1]
  PROVE  Keeping(place, data, Done(dialect, db, st))
  <1>1. Done(dialect, db, st) = db \cup {Created(st.def)}
    BY ItemKinds DEF Done
  <1> QED BY <1>1, CreatedFacts DEF Keeping, IsDatabase, Certain, Has

\* Items changed in every table.
LEMMA OtherItems ==
  ASSUME NEW db, NEW place, NEW data, IsDatabase(db), Certain(db, place, data), NEW after,
         \A v \in after : \E u \in db : v.name = u.name /\ v.columns = u.columns /\ IsStored(v),
         \A u \in db : u.name = place[1] => \E v \in after : v.name = u.name
  PROVE  Keeping(place, data, after)
  <1>1. Has(after, place[1])
    BY DEF Certain, Has
  <1>2. ASSUME NEW v \in after, v.name = place[1] PROVE Keeps(v.columns, place[2], data)
    BY <1>2 DEF Certain
  <1> QED BY <1>1, <1>2 DEF Keeping, IsDatabase, Certain

\* DROP TABLE spares the columns of the other tables.
LEMMA DoneDropTable ==
  ASSUME NEW dialect, NEW db, NEW st, NEW place, NEW data, IsDatabase(db), Certain(db, place, data),
         st.do = "dropTable", st.table # place[1]
  PROVE  Keeping(place, data, Done(dialect, db, st))
  <1> DEFINE x(u) == IF dialect = "postgres" THEN u.items \ References(db, st.table) ELSE u.items
             rest == {u \in db : u.name # st.table}
             new(u) == [u EXCEPT !.items = x(u)]
             after == {new(u) : u \in rest}
  <1>1. Done(dialect, db, st) = after
    BY ItemKinds DEF Done
  <1> HIDE DEF x
  <1>2. \A u \in db : IsStored(new(u)) /\ new(u).name = u.name /\ new(u).columns = u.columns
    BY ItemsChanged DEF IsDatabase
  <1> HIDE DEF new
  <1>3. Keeping(place, data, after)
    BY <1>2, OtherItems
  <1> QED BY <1>1, <1>3

\* ADD COLUMN spares the columns of other names.
LEMMA DoneAddColumn ==
  ASSUME NEW dialect, NEW db, NEW st, NEW place, NEW data, IsDatabase(db), Certain(db, place, data),
         st.do = "addColumn", Has(db, st.table),
         st.table = place[1] => st.column.name # place[2]
  PROVE  Keeping(place, data, Done(dialect, db, st))
  <1> DEFINE t == At(db, st.table)
             new == Stored(st.column, <<>>)
             cols == t.columns \cup {new}
  <1> DEFINE u == [t EXCEPT !.columns = cols]
  <1>1. Done(dialect, db, st) = Put(db, u)
    BY ItemKinds DEF Done
  <1>2. t \in db /\ t.name = st.table
    BY AtFacts
  <1>3. \A c \in cols : c = Stored(c, c.data)
    BY <1>2, StoredFacts DEF IsDatabase, IsStored
  <1>4. new.name = st.column.name
    BY StoredFacts
  <1> HIDE DEF new
  <1>5. t.name = place[1] => Keeps(t.columns, place[2], data)
    BY <1>2 DEF Certain
  <1>6. st.table = place[1] => Keeps(cols, place[2], data)
    <2> HIDE DEF t
    <2> QED BY <1>2, <1>4, <1>5 DEF Keeps
  <1> HIDE DEF cols
  <1>7. IsStored(u) /\ u.name = t.name /\ u.columns = cols
    <2>1. IsStored(t)
      BY <1>2 DEF IsDatabase
    <2> HIDE DEF t
    <2>2. /\ u.name = t.name /\ u.columns = cols
          /\ DOMAIN u = {"name", "items", "columns"}
      BY <2>1 DEF IsStored
    <2> HIDE DEF u
    <2> QED BY <1>3, <2>2 DEF IsStored
  <1> HIDE DEF u
  <1> QED BY <1>1, <1>2, <1>6, <1>7, PutFacts DEF Keeping

\* DROP COLUMN spares the columns of other names.
LEMMA DoneDropColumn ==
  ASSUME NEW dialect, NEW db, NEW st, NEW place, NEW data, IsDatabase(db), Certain(db, place, data),
         st.do = "dropColumn", Has(db, st.table),
         st.table = place[1] => st.column.name # place[2]
  PROVE  Keeping(place, data, Done(dialect, db, st))
  <1> DEFINE t == At(db, st.table)
             cols == {c \in t.columns : c.name # st.column.name}
  <1> DEFINE u == [t EXCEPT !.columns = cols]
  <1>1. Done(dialect, db, st) = Put(db, u)
    BY ItemKinds DEF Done
  <1>2. t \in db /\ t.name = st.table
    BY AtFacts
  <1>3. \A c \in cols : c = Stored(c, c.data)
    <2>1. IsStored(t)
      BY <1>2 DEF IsDatabase
    <2> QED BY <2>1 DEF IsStored
  <1>5. t.name = place[1] => Keeps(t.columns, place[2], data)
    BY <1>2 DEF Certain
  <1>6. st.table = place[1] => Keeps(cols, place[2], data)
    <2> HIDE DEF t
    <2> QED BY <1>2, <1>5 DEF Keeps
  <1> HIDE DEF cols
  <1>7. IsStored(u) /\ u.name = t.name /\ u.columns = cols
    <2>1. IsStored(t)
      BY <1>2 DEF IsDatabase
    <2> HIDE DEF t
    <2>2. /\ u.name = t.name /\ u.columns = cols
          /\ DOMAIN u = {"name", "items", "columns"}
      BY <2>1 DEF IsStored
    <2> HIDE DEF u
    <2> QED BY <1>3, <2>2 DEF IsStored
  <1> HIDE DEF u
  <1> QED BY <1>1, <1>2, <1>6, <1>7, PutFacts DEF Keeping

\* Altering a column keeps its data.
LEMMA DoneAlterColumn ==
  ASSUME NEW dialect, NEW db, NEW st, NEW place, NEW data, IsDatabase(db), Certain(db, place, data),
         st.do = "alterColumn", Has(db, st.table)
  PROVE  Keeping(place, data, Done(dialect, db, st))
  <1> DEFINE t == At(db, st.table)
             new(c) == IF c.name = st.to.name THEN Stored(st.to, c.data) ELSE c
             cols == {new(c) : c \in t.columns}
  <1> DEFINE u == [t EXCEPT !.columns = cols]
  <1>1. Done(dialect, db, st) = Put(db, u)
    BY ItemKinds DEF Done
  <1>2. t \in db /\ t.name = st.table
    BY AtFacts
  <1>3. \A c \in t.columns : new(c) = Stored(new(c), new(c).data) /\ new(c).name = c.name /\ new(c).data = c.data
    BY <1>2, StoredFacts DEF IsDatabase, IsStored
  <1> HIDE DEF new
  <1>4. \A c \in cols : c = Stored(c, c.data)
    BY <1>3
  <1>5. t.name = place[1] => Keeps(t.columns, place[2], data)
    BY <1>2 DEF Certain
  <1>6. st.table = place[1] => Keeps(cols, place[2], data)
    <2> HIDE DEF t
    <2> QED BY <1>2, <1>3, <1>5 DEF Keeps
  <1> HIDE DEF cols
  <1>7. IsStored(u) /\ u.name = t.name /\ u.columns = cols
    <2>1. IsStored(t)
      BY <1>2 DEF IsDatabase
    <2> HIDE DEF t
    <2>2. /\ u.name = t.name /\ u.columns = cols
          /\ DOMAIN u = {"name", "items", "columns"}
      BY <2>1 DEF IsStored
    <2> HIDE DEF u
    <2> QED BY <1>4, <2>2 DEF IsStored
  <1> HIDE DEF u
  <1> QED BY <1>1, <1>2, <1>6, <1>7, PutFacts DEF Keeping

\* Keys, indexes and constraints come and go without touching a column.
LEMMA DoneItem ==
  ASSUME NEW dialect, NEW db, NEW st, NEW place, NEW data, IsDatabase(db), Certain(db, place, data),
         st.do \in ItemOps, Has(db, st.table)
  PROVE  Keeping(place, data, Done(dialect, db, st))
  <1> DEFINE t == At(db, st.table)
             add == t.items \cup {st.item}
             drop == {k \in t.items : k.name # st.item.name}
  <1>3. IsStored(t)
    BY AtFacts DEF IsDatabase
  <1>4. t.name = st.table
    BY AtFacts
  <1>5. t.name = place[1] => Keeps(t.columns, place[2], data)
    BY AtFacts DEF Certain
  <1>1. CASE st.do \in Range(AddOf)
    <2> DEFINE u == [t EXCEPT !.items = add]
    <2>1. Done(dialect, db, st) = Put(db, u)
      BY <1>1, ItemKinds DEF Done
    <2> HIDE DEF add
    <2>2. IsStored(u) /\ u.name = t.name /\ u.columns = t.columns
      <3> HIDE DEF t
      <3> QED BY <1>3, ItemsChanged
    <2> HIDE DEF u
    <2> QED BY <1>4, <1>5, <2>1, <2>2, PutFacts DEF Keeping
  <1>2. CASE st.do \in Range(DropOf)
    <2> DEFINE u == [t EXCEPT !.items = drop]
    <2>1. Done(dialect, db, st) = Put(db, u)
      BY <1>2, ItemKinds DEF Done
    <2> HIDE DEF drop
    <2>2. IsStored(u) /\ u.name = t.name /\ u.columns = t.columns
      <3> HIDE DEF t
      <3> QED BY <1>3, ItemsChanged
    <2> HIDE DEF u
    <2> QED BY <1>4, <1>5, <2>1, <2>2, PutFacts DEF Keeping
  <1> QED BY <1>1, <1>2, ItemKinds DEF ItemOps

\* Renaming a table takes its columns along, and spares those of the others.
LEMMA DoneRenameTable ==
  ASSUME NEW dialect, NEW db, NEW st, IsDatabase(db), st.do = "renameTable"
  PROVE  LET after == Done(dialect, db, st)
             name(u) == IF u.name = st.from THEN st.to ELSE u.name IN
         /\ \A v \in after : IsStored(v) /\ \E u \in db : v.name = name(u) /\ v.columns = u.columns
         /\ \A u \in db : \E v \in after : v.name = name(u) /\ v.columns = u.columns
  <1> DEFINE follow(k) == IF k.kind = "fk" /\ k.to[1] = st.from THEN [k EXCEPT !.to[1] = st.to]
                          ELSE k
             name(u)  == IF u.name = st.from THEN st.to ELSE u.name
             items(u) == {follow(k) : k \in u.items}
             new(u)   == [u EXCEPT !.name = name(u), !.items = items(u)]
             after    == {new(u) : u \in db}
  <1>1. Done(dialect, db, st) = after
    BY ItemKinds DEF Done
  <1> HIDE DEF items
  <1>2. ASSUME NEW u \in db
        PROVE  IsStored(new(u)) /\ new(u).name = name(u) /\ new(u).columns = u.columns
    <2>1. IsStored(u)
      BY DEF IsDatabase
    <2> HIDE DEF name
    <2>3. new(u).name = name(u) /\ new(u).columns = u.columns /\ DOMAIN new(u) = DOMAIN u
      BY <2>1 DEF IsStored
    <2> HIDE DEF new
    <2> QED BY <2>1, <2>3 DEF IsStored
  <1> HIDE DEF new
  <1> QED BY <1>1, <1>2

\* Renaming a column spares the columns of other names and other tables.
LEMMA DoneRenameOther ==
  ASSUME NEW dialect, NEW db, NEW st, NEW place, NEW data, IsDatabase(db), Certain(db, place, data),
         st.do = "renameTable", st.from # place[1], st.to # place[1]
  PROVE  Keeping(place, data, Done(dialect, db, st))
  <1> DEFINE after == Done(dialect, db, st)
  <1>1. \A v \in after : /\ IsStored(v)
                         /\ \E u \in db : /\ v.name = IF u.name = st.from THEN st.to ELSE u.name
                                          /\ v.columns = u.columns
    BY DoneRenameTable
  <1>2. \A u \in db : \E v \in after : v.name = IF u.name = st.from THEN st.to ELSE u.name
    BY DoneRenameTable
  <1> HIDE DEF after
  <1>3. Has(after, place[1])
    BY <1>2 DEF Certain, Has
  <1> QED BY <1>1, <1>3 DEF Keeping, IsDatabase, Certain, after

\* Renaming a column, to a name that is free, keeps its data.
LEMMA DoneRenameMove ==
  ASSUME NEW dialect, NEW db, NEW st, NEW p, NEW q, NEW data, IsDatabase(db), Certain(db, p, data),
         st.do = "renameTable", st.from = p[1], st.to = q[1], p[2] = q[2], ~Has(db, st.to)
  PROVE  Keeping(q, data, Done(dialect, db, st))
  <1> DEFINE after == Done(dialect, db, st)
  <1>1. \A v \in after : /\ IsStored(v)
                         /\ \E u \in db : /\ v.name = IF u.name = st.from THEN st.to ELSE u.name
                                          /\ v.columns = u.columns
    BY DoneRenameTable
  <1>2. \A u \in db : \E v \in after : v.name = IF u.name = st.from THEN st.to ELSE u.name
    BY DoneRenameTable
  <1> HIDE DEF after
  <1>3. Has(after, q[1])
    BY <1>2 DEF Certain, Has
  <1> QED BY <1>1, <1>3 DEF Keeping, IsDatabase, Certain, Has, after

\* The table at a name replaced.
LEMMA PutAt ==
  ASSUME NEW db, NEW u, NEW place, NEW data, IsDatabase(db), IsStored(u),
         u.name = place[1], Keeps(u.columns, place[2], data)
  PROVE  IsDatabase(Put(db, u)) /\ Certain(Put(db, u), place, data)
  BY DEF IsDatabase, Certain, Put, Has

\* Both: the column is where the rename puts it, if it is the one.
LEMMA DoneRenameColumn ==
  ASSUME NEW dialect, NEW db, NEW st, NEW p, NEW q, NEW data, IsDatabase(db), Certain(db, p, data),
         st.do = "renameColumn", Has(db, st.table), p[1] = q[1],
         IF st.table # p[1] THEN p[2] = q[2]
         ELSE IF st.from = p[2]
              THEN q[2] = st.to /\ st.to \notin Columns(At(db, st.table))
              ELSE q[2] = p[2] /\ st.to # p[2]
  PROVE  Keeping(q, data, Done(dialect, db, st))
  <1> DEFINE new(c)    == IF c = st.from THEN st.to ELSE c
             t         == At(db, st.table)
             column(c) == [c EXCEPT !.name = new(c.name)]
             cols      == {column(c) : c \in t.columns}
             item(k)   == [k EXCEPT !.cols = [i \in DOMAIN k.cols |-> new(k.cols[i])]]
             its       == {item(k) : k \in t.items}
             own       == [t EXCEPT !.columns = cols, !.items = its]
             follow(k) == IF k.kind = "fk" /\ k.to = <<st.table, st.from>>
                          THEN [k EXCEPT !.to[2] = st.to] ELSE k
             items(u)  == {follow(k) : k \in u.items}
             whole(u)  == [u EXCEPT !.items = items(u)]
             after     == {whole(u) : u \in Put(db, own)}
  <1>1. Done(dialect, db, st) = after
    BY ItemKinds DEF Done
  <1>2. IsStored(t) /\ t \in db /\ t.name = st.table
    BY AtFacts DEF IsDatabase
  <1> HIDE DEF t
  <1>3. ASSUME NEW c \in t.columns
        PROVE  /\ column(c) = Stored(column(c), column(c).data)
               /\ column(c).name = new(c.name) /\ column(c).data = c.data
    <2>1. c = [name |-> c.name, type |-> c.type, rest |-> c.rest, data |-> c.data]
      BY <1>2 DEF IsStored, Stored
    <2> HIDE DEF new
    <2> QED BY <2>1 DEF Stored
  <1> HIDE DEF column
  <1>4. \A c \in cols : c = Stored(c, c.data)
    BY <1>3
  <1>5. st.table = p[1] => Keeps(cols, q[2], data)
    <2> SUFFICES ASSUME st.table = p[1] PROVE Keeps(cols, q[2], data)
      OBVIOUS
    <2>1. Keeps(t.columns, p[2], data)
      BY <1>2 DEF Certain
    <2>2. CASE st.from = p[2]
      <3>1. q[2] = st.to /\ \A c \in t.columns : c.name # st.to
        BY <2>2 DEF Columns, t
      <3> QED BY <1>3, <2>1, <2>2, <3>1 DEF Keeps
    <2>3. CASE st.from # p[2]
      BY <1>3, <2>1, <2>3 DEF Keeps
    <2> QED BY <2>2, <2>3
  <1> HIDE DEF cols, its
  <1>6. IsStored(own) /\ own.name = st.table /\ own.columns = cols
    <2>1. own.name = t.name /\ own.columns = cols /\ DOMAIN own = DOMAIN t
      BY <1>2 DEF IsStored
    <2> HIDE DEF own
    <2> QED BY <1>2, <1>4, <2>1 DEF IsStored
  <1> HIDE DEF own
  <1>7. IsDatabase(Put(db, own)) /\ Certain(Put(db, own), q, data)
    <2>1. CASE st.table = p[1]
      BY <1>5, <1>6, <2>1, PutAt
    <2>2. CASE st.table # p[1]
      <3>1. Certain(db, q, data)
        BY <2>2 DEF Certain
      <3> QED BY <1>6, <2>2, <3>1, PutFacts
    <2> QED BY <2>1, <2>2
  <1> HIDE DEF items
  <1>8. \A u \in Put(db, own) : IsStored(whole(u)) /\ whole(u).name = u.name /\ whole(u).columns = u.columns
    BY <1>7, ItemsChanged DEF IsDatabase
  <1> HIDE DEF whole
  <1>9. Keeping(q, data, after)
    <2> DEFINE now == Put(db, own)
    <2>1. after = {whole(u) : u \in now}
      OBVIOUS
    <2>2. /\ \A v \in after : \E u \in now : v.name = u.name /\ v.columns = u.columns /\ IsStored(v)
          /\ \A u \in now : u.name = q[1] => \E v \in after : v.name = u.name
      BY <1>8
    <2> HIDE DEF now, after
    <2> QED BY <1>7, <2>2, OtherItems DEF now
  <1> QED BY <1>1, <1>9

\* A recreation keeps the columns that it copies.
LEMMA DoneRebuild ==
  ASSUME NEW dialect, NEW db, NEW st, NEW place, NEW data, IsDatabase(db), Certain(db, place, data),
         st.do = "rebuild", Has(db, st.table), st.def.name = st.table,
         st.table = place[1] => place[2] \in Names(st.def.columns) /\ place[2] \in st.copied
  PROVE  Keeping(place, data, Done(dialect, db, st))
  <1> DEFINE t       == At(db, st.table)
             old(c)  == CHOOSE d \in t.columns : d.name = c.name
             new(c)  == Stored(c, IF c.name \in st.copied THEN old(c).data ELSE <<>>)
             bare    == Created(st.def)
             cols    == {new(c) : c \in bare.columns}
             u       == [bare EXCEPT !.columns = cols]
  <1>1. Done(dialect, db, st) = Put(db, u)
    BY ItemKinds DEF Done
  <1>2. t \in db /\ t.name = st.table
    BY AtFacts
  <1>3. IsStored(bare) /\ bare.name = st.table
    BY CreatedFacts
  <1>4. \A n \in Names(st.def.columns) : \E c \in bare.columns : c.name = n
    <2>1. bare.columns = {Stored(c, <<>>) : c \in Range(st.def.columns)}
      BY DEF Created
    <2>2. \A n \in Names(st.def.columns) : \E c \in Range(st.def.columns) : c.name = n
      BY DEF Names, Range
    <2> HIDE DEF bare
    <2> QED BY <2>1, <2>2, StoredFacts
  <1> HIDE DEF bare, t
  <1>5. /\ \A c \in cols : c = Stored(c, c.data)
        /\ \A c \in bare.columns : new(c).name = c.name
    <2> DEFINE value(c) == IF c.name \in st.copied THEN old(c).data ELSE <<>>
    <2>1. \A c : new(c) = Stored(c, value(c))
      OBVIOUS
    <2> HIDE DEF value, new
    <2>2. \A c : new(c) = Stored(new(c), new(c).data) /\ new(c).name = c.name
      BY <2>1, StoredFacts
    <2> QED BY <2>2
  <1>6. st.table = place[1] => Keeps(cols, place[2], data)
    <2> SUFFICES ASSUME st.table = place[1] PROVE Keeps(cols, place[2], data)
      OBVIOUS
    <2>1. Keeps(t.columns, place[2], data)
      BY <1>2 DEF Certain
    <2>2. \A c : c.name = place[2] => old(c).data = data
      BY <2>1 DEF Keeps
    <2> HIDE DEF old
    <2>3. \A c \in bare.columns : c.name = place[2] => new(c).data = data
      BY <2>2, StoredFacts
    <2> HIDE DEF new
    <2> QED BY <1>4, <1>5, <2>3 DEF Keeps
  <1> HIDE DEF cols
  <1>7. IsStored(u) /\ u.name = st.table /\ u.columns = cols
    <2>2. /\ u.name = bare.name /\ u.columns = cols
          /\ DOMAIN u = {"name", "items", "columns"}
      BY <1>3 DEF IsStored
    <2> HIDE DEF u
    <2> QED BY <1>3, <1>5, <2>2 DEF IsStored
  <1> HIDE DEF u
  <1> QED BY <1>1, <1>6, <1>7, PutFacts DEF Keeping

(***************************************************************************)
(* An operation that runs as its own statement.                            *)
(***************************************************************************)

\* What a statement that is not refused finds in the database.
LEMMA RunsThere ==
  ASSUME NEW dialect, NEW db, NEW st, NEW lifted, ~Refused(dialect, db, st, lifted)
  PROVE  /\ st.do # "throw"
         /\ st.do = "renameTable" => ~Has(db, st.to)
         /\ st.do \notin {"createTable", "renameTable"} => Has(db, st.table)
         /\ st.do = "renameColumn" => st.to \notin Columns(At(db, st.table))
  <1>1. st.do # "throw"
    BY ItemKinds DEF Refused
  <1>2. CASE st.do = "renameTable"
    BY <1>2 DEF Refused
  <1>3. CASE st.do = "createTable"
    BY <1>3
  <1>4. CASE st.do \notin {"throw", "createTable", "renameTable"}
    <2>1. Has(db, st.table)
      BY <1>4 DEF Refused
    <2>2. CASE st.do = "renameColumn"
      BY <1>4, <2>1, <2>2, ItemKinds DEF Refused
    <2> QED BY <1>4, <2>1, <2>2
  <1> QED BY <1>1, <1>2, <1>3, <1>4

\* The two ends of one column's way; only the table or only the column is renamed.
IsWay(p, q) == p[1] # q[1] => p[2] = q[2]

\* An operation that is its own statement takes the column along its way, or leaves it.
LEMMA OpStep ==
  ASSUME NEW dialect, NEW db, NEW op, NEW lifted, NEW p, NEW q, NEW now, NEW data,
         IsOp(op), Leaves(op, p, q), IsWay(p, q), now = p \/ now = q,
         IsDatabase(db), Certain(db, now, data), ~Refused(dialect, db, op, lifted)
  PROVE  Keeping(IF IsMove(op, p, q) THEN q ELSE now, data, Done(dialect, db, op))
  <1> DEFINE here == {p[1], q[1]}  names == {p[2], q[2]}
  <1>1. now[1] \in here /\ now[2] \in names
    OBVIOUS
  <1>2. /\ op.do = "renameTable" => IsMove(op, p, q) \/ (op.from \notin here /\ op.to \notin here)
        /\ p[1] # q[1] => op.do = "renameTable" \/ op.table \notin here
        /\ op.do \in {"createTable", "dropTable"} => op.table \notin here
        /\ op.table \in here =>
             /\ op.do \in {"addColumn", "dropColumn"} => op.column.name \notin names
             /\ op.do = "renameColumn" => IsMove(op, p, q) \/ (op.from \notin names /\ op.to \notin names)
    BY DEF Leaves
  <1>3. IsMove(op, p, q) => op.do \in {"renameTable", "renameColumn"}
    BY DEF IsMove
  <1>4. /\ op.do = "renameTable" => ~Has(db, op.to)
        /\ op.do \notin {"createTable", "renameTable"} => Has(db, op.table)
        /\ op.do = "renameColumn" => op.to \notin Columns(At(db, op.table))
    BY RunsThere
  <1>5. Has(db, now[1])
    BY DEF Certain
  <1> HIDE DEF here, names
  <1>a. CASE op.do = "createTable"
    <2>1. op.def.name = op.table
      BY <1>a DEF IsOp, TableOp
    <2>2. op.def.name # now[1]
      BY <1>1, <1>2, <1>a, <2>1
    <2> QED BY <1>3, <1>a, <2>2, DoneCreateTable
  <1>b. CASE op.do = "dropTable"
    <2>2. op.table # now[1]
      BY <1>1, <1>2, <1>b
    <2> QED BY <1>3, <1>b, <2>2, DoneDropTable
  <1>c. CASE op.do = "renameTable"
    <2>1. CASE IsMove(op, p, q)
      <3>1. op.from = p[1] /\ op.to = q[1] /\ p[2] = q[2]
        BY <1>c, <2>1 DEF IsMove, IsWay
      <3>2. now = p
        BY <1>4, <1>5, <1>c, <3>1
      <3> QED BY <1>4, <1>c, <2>1, <3>1, <3>2, DoneRenameMove
    <2>2. CASE ~IsMove(op, p, q)
      <3>1. op.from # now[1] /\ op.to # now[1]
        BY <1>1, <1>2, <1>c, <2>2
      <3> QED BY <1>c, <2>2, <3>1, DoneRenameOther
    <2> QED BY <2>1, <2>2
  <1>d. CASE op.do = "addColumn"
    <2>1. op.table = now[1] => op.column.name # now[2]
      BY <1>1, <1>2, <1>d
    <2> QED BY <1>3, <1>4, <1>d, <2>1, DoneAddColumn
  <1>e. CASE op.do = "dropColumn"
    <2>1. op.table = now[1] => op.column.name # now[2]
      BY <1>1, <1>2, <1>e
    <2> QED BY <1>3, <1>4, <1>e, <2>1, DoneDropColumn
  <1>f. CASE op.do = "alterColumn"
    BY <1>3, <1>4, <1>f, DoneAlterColumn
  <1>g. CASE op.do = "renameColumn"
    <2>0. Has(db, op.table) /\ op.to \notin Columns(At(db, op.table))
      BY <1>4, <1>g
    <2>1. CASE IsMove(op, p, q)
      <3>1. /\ op.table = p[1] /\ p[1] = q[1] /\ op.from = p[2] /\ op.to = q[2]
        BY <1>g, <2>1 DEF IsMove
      <3>2. now = p
        <4>1. SUFFICES ASSUME now = q PROVE FALSE
          BY <4>1
        <4>2. At(db, q[1]) \in db /\ At(db, q[1]).name = q[1]
          BY <2>0, <3>1, AtFacts
        <4>3. Keeps(At(db, q[1]).columns, q[2], data)
          BY <4>1, <4>2 DEF Certain
        <4> QED BY <2>0, <3>1, <4>3 DEF Keeps, Columns
      <3> QED BY <1>g, <2>0, <2>1, <3>1, <3>2, DoneRenameColumn
    <2>2. CASE ~IsMove(op, p, q)
      <3>1. op.table = now[1] => op.from # now[2] /\ op.to # now[2]
        BY <1>1, <1>2, <1>g, <2>2
      <3>2. Keeping(now, data, Done(dialect, db, op))
        BY <1>g, <2>0, <3>1, DoneRenameColumn
      <3> QED BY <2>2, <3>2
    <2> QED BY <2>1, <2>2
  <1>h. CASE op.do \in ItemOps
    <2>1. op.do \notin {"createTable", "renameTable", "renameColumn"}
      BY <1>h DEF ItemOps
    <2> QED BY <1>3, <1>4, <1>h, <2>1, DoneItem
  <1> QED BY <1>a, <1>b, <1>c, <1>d, <1>e, <1>f, <1>g, <1>h DEF IsOp, OpKinds

(***************************************************************************)
(* The replayed definition that a recreation starts from.                  *)
(***************************************************************************)

\* A definition of a table on its way.
IsDefinition(def) == /\ DOMAIN def = {"name", "columns", "items"}
                     /\ IsList(def.columns) /\ \A c \in Range(def.columns) : IsColumn(c)

\* Names, over the range.
LEMMA NamesOfList == ASSUME NEW s PROVE Names(s) = {c.name : c \in Range(s)}
  BY DEF Names, Range

\* What an operation makes of the columns of a table.
LEMMA AppliedColumns ==
  ASSUME NEW def, IsDefinition(def), NEW op, IsOp(op), op.do \notin {"createTable", "renameTable"}
  PROVE  LET new == ApplyToTable(def, op) IN
         /\ IsDefinition(new) /\ new.name = def.name
         /\ \A n \in Names(def.columns) :
              IF op.do = "dropColumn" /\ n = op.column.name THEN TRUE
              ELSE IF op.do = "renameColumn" /\ n = op.from THEN op.to \in Names(new.columns)
              ELSE n \in Names(new.columns)
  <1> DEFINE new == ApplyToTable(def, op)
             cols == def.columns
  <1>1. DOMAIN def = {"name", "columns", "items"} /\ IsList(cols) /\ \A c \in Range(cols) : IsColumn(c)
    BY DEF IsDefinition
  <1>a. CASE op.do = "addColumn"
    <2> DEFINE after == Append(cols, op.column)
    <2>1. new = [def EXCEPT !.columns = after]
      BY <1>a, ItemKinds DEF ApplyToTable
    <2>2. IsList(after) /\ Range(after) = Range(cols) \cup {op.column}
      BY <1>1, AppendList
    <2>3. IsColumn(op.column)
      BY <1>a DEF IsOp
    <2> HIDE DEF after
    <2>4. DOMAIN new = DOMAIN def /\ new.name = def.name /\ new.columns = after
      BY <1>1, <2>1
    <2> HIDE DEF new
    <2> QED BY <1>1, <1>a, <2>2, <2>3, <2>4, NamesOfList DEF IsDefinition, new
  <1>b. CASE op.do = "dropColumn"
    <2> DEFINE rest == {c \in Range(cols) : c.name # op.column.name}
               after == Among(cols, rest)
    <2>1. new = [def EXCEPT !.columns = after]
      BY <1>b, ItemKinds DEF ApplyToTable
    <2>2. IsList(after) /\ Range(after) = Range(cols) \cap rest
      BY <1>1, AmongList
    <2> HIDE DEF after
    <2>4. DOMAIN new = DOMAIN def /\ new.name = def.name /\ new.columns = after
      BY <1>1, <2>1
    <2> HIDE DEF new
    <2> QED BY <1>1, <1>b, <2>2, <2>4, NamesOfList DEF IsDefinition, new
  <1>c. CASE op.do = "renameColumn"
    <2> DEFINE ren(c) == IF c.name = op.from THEN [c EXCEPT !.name = op.to] ELSE c
               after == [i \in DOMAIN cols |-> ren(cols[i])]
    <2>1. new = [def EXCEPT !.columns = after]
      BY <1>c, ItemKinds DEF ApplyToTable
    <2>2. \A c \in Range(cols) : /\ IsColumn(ren(c))
                                 /\ ren(c).name = IF c.name = op.from THEN op.to ELSE c.name
      BY <1>1 DEF IsColumn
    <2> HIDE DEF ren
    <2>3. IsList(after) /\ Range(after) = {ren(c) : c \in Range(cols)}
      <3>1. IsList(after) /\ DOMAIN after = DOMAIN cols
        BY <1>1, MapList
      <3> QED BY <3>1 DEF Range
    <2> HIDE DEF after
    <2>4. DOMAIN new = DOMAIN def /\ new.name = def.name /\ new.columns = after
      BY <1>1, <2>1
    <2> HIDE DEF new
    <2>5. IsDefinition(new)
      BY <1>1, <2>2, <2>3, <2>4 DEF IsDefinition
    <2> QED BY <1>c, <2>2, <2>3, <2>4, <2>5, NamesOfList DEF new
  <1>d. CASE op.do = "alterColumn"
    <2> DEFINE alt(c) == IF c.name = op.to.name THEN op.to ELSE c
               after == [i \in DOMAIN cols |-> alt(cols[i])]
    <2>1. new = [def EXCEPT !.columns = after]
      BY <1>d, ItemKinds DEF ApplyToTable
    <2>2. \A c \in Range(cols) : IsColumn(alt(c)) /\ alt(c).name = c.name
      BY <1>1, <1>d DEF IsOp
    <2> HIDE DEF alt
    <2>3. IsList(after) /\ Range(after) = {alt(c) : c \in Range(cols)}
      <3>1. IsList(after) /\ DOMAIN after = DOMAIN cols
        BY <1>1, MapList
      <3> QED BY <3>1 DEF Range
    <2> HIDE DEF after
    <2>4. DOMAIN new = DOMAIN def /\ new.name = def.name /\ new.columns = after
      BY <1>1, <2>1
    <2> HIDE DEF new
    <2>5. IsDefinition(new)
      BY <1>1, <2>2, <2>3, <2>4 DEF IsDefinition
    <2> QED BY <1>d, <2>2, <2>3, <2>4, <2>5, NamesOfList DEF new
  <1>e. CASE op.do \in ItemOps
    <2>1. \E x : new = [def EXCEPT !.items = x]
      <3>1. CASE op.do \in Range(AddOf)
        BY <3>1, ItemKinds DEF ApplyToTable
      <3>2. CASE op.do \in Range(DropOf)
        BY <3>2, ItemKinds DEF ApplyToTable
      <3> QED BY <1>e, <3>1, <3>2, ItemKinds DEF ItemOps
    <2>2. DOMAIN new = DOMAIN def /\ new.name = def.name /\ new.columns = def.columns
      BY <1>1, <2>1
    <2>3. op.do \notin {"dropColumn", "renameColumn"}
      BY <1>e DEF ItemOps
    <2> HIDE DEF new
    <2> QED BY <1>1, <2>2, <2>3 DEF IsDefinition, new
  <1>f. CASE op.do = "dropTable"
    <2>1. new = def
      BY <1>f, ItemKinds DEF ApplyToTable
    <2> QED BY <1>f, <2>1
  <1> HIDE DEF new
  <1> QED BY <1>a, <1>b, <1>c, <1>d, <1>e, <1>f DEF IsOp, OpKinds, new

\* The recursion in GetCurrentTable, up to n, and one step of it.
Replayed(def, t, op) ==
  IF op.do \in {"createTable", "renameTable"} \/ op.table # t THEN def ELSE ApplyToTable(def, op)

ReplayTo(n, f, def, t, before) ==
  f = [i \in 0..n |-> IF i = 0 THEN def ELSE Replayed(f[i - 1], t, before[i])]

\* There is such a function, so GetCurrentTable is what the recursion says.
LEMMA ReplayExists ==
  ASSUME NEW def, NEW t, NEW before, NEW N \in Nat
  PROVE  \E f : ReplayTo(N, f, def, t, before)
  <1> DEFINE G == {n \in 0..N : \E f : ReplayTo(n, f, def, t, before)}
  <1>1. 0 \in G
    <2> DEFINE f == [i \in 0..0 |-> def]
    <2>1. ReplayTo(0, f, def, t, before)
      BY DEF ReplayTo
    <2> HIDE DEF f
    <2>2. \E g : ReplayTo(0, g, def, t, before)
      BY <2>1
    <2> QED BY <2>2
  <1>2. ASSUME NEW n \in 0..N, n \in G, n # N PROVE n + 1 \in G
    <2>1. PICK f : ReplayTo(n, f, def, t, before)
      BY <1>2
    <2>2. \A i \in 0..n : f[i] = IF i = 0 THEN def ELSE Replayed(f[i - 1], t, before[i])
      BY <2>1 DEF ReplayTo
    <2> DEFINE last == Replayed(f[n], t, before[n + 1])
               g == [i \in 0..(n + 1) |-> IF i # n + 1 THEN f[i] ELSE last]
    <2>e. last = Replayed(f[n], t, before[n + 1])
      OBVIOUS
    <2> HIDE DEF last
    <2>3. /\ g = [i \in 0..(n + 1) |-> g[i]]
          /\ \A i \in 0..n : g[i] = f[i]
          /\ g[n + 1] = last
      OBVIOUS
    <2> HIDE DEF g
    <2>4. ASSUME NEW i \in 0..(n+1)
          PROVE  g[i] = IF i = 0 THEN def ELSE Replayed(g[i - 1], t, before[i])
      <3>1. CASE i = n + 1
        <4>1. n + 1 # 0 /\ (n + 1) - 1 = n /\ n \in 0..n
          OBVIOUS
        <4> QED BY <2>3, <2>e, <3>1, <4>1
      <3>2. CASE i # n + 1
        <4>1. i \in 0..n /\ (i # 0 => i - 1 \in 0..n)
          BY <3>2
        <4> QED BY <2>2, <2>3, <4>1
      <3> QED BY <3>1, <3>2
    <2>5. ReplayTo(n + 1, g, def, t, before)
      BY <2>3, <2>4 DEF ReplayTo
    <2>6. \E h : ReplayTo(n + 1, h, def, t, before)
      BY <2>5
    <2> QED BY <2>6, <1>2
  <1>3. N \in G
    <2> HIDE DEF G
    <2>1. 0..N \subseteq G
      BY <1>1, <1>2, Induction
    <2> QED BY <2>1
  <1> QED BY <1>3

\* Where the column is after the first n operations.
Now(ops, n, p, q) == IF \E i \in 1..n : IsMove(ops[i], p, q) THEN q ELSE p

\* One operation on.
LEMMA NowNext ==
  ASSUME NEW ops, NEW n \in Nat, NEW p, NEW q
  PROVE  /\ Now(ops, n + 1, p, q) = IF IsMove(ops[n + 1], p, q) THEN q ELSE Now(ops, n, p, q)
         /\ Now(ops, 0, p, q) = p
         /\ Now(ops, n, p, q) \in {p, q}
  <1>1. 1..(n + 1) = (1..n) \cup {n + 1}
    OBVIOUS
  <1>2. 1..0 = {}
    OBVIOUS
  <1> QED BY <1>1, <1>2 DEF Now

\* The table that the recreation starts from has the column, where it is by then.
LEMMA ReplayKeeps ==
  ASSUME NEW schema, IsSchema(schema), NEW t \in Names(schema), NEW before, IsList(before),
         \A op \in Range(before) : IsOp(op)
  PROVE  LET def == GetCurrentTable(schema, t, before) IN
         /\ IsDefinition(def) /\ def.name = t
         /\ \A p, q : p[1] = t /\ p[1] = q[1] /\ p[2] \in Names(Named(schema, t).columns)
                      /\ (\A op \in Range(before) : Leaves(op, p, q))
                      => Now(before, Len(before), p, q)[2] \in Names(def.columns)
  <1> DEFINE N == Len(before)
             def == Named(schema, t)
  <1>1. N \in Nat /\ \A i \in 1..N : before[i] \in Range(before)
    BY ListElements
  <1>2. IsTable(def) /\ def.name = t
    BY NamedFacts DEF IsSchema
  <1> HIDE DEF def
  <1> DEFINE f == CHOOSE f : f = [i \in 0..N |->
        IF i = 0 THEN def
        ELSE IF before[i].do \in {"createTable", "renameTable"} \/ before[i].table # t
        THEN f[i - 1] ELSE ApplyToTable(f[i - 1], before[i])]
  <1>3. ReplayTo(N, f, def, t, before)
    <2>1. \E g : ReplayTo(N, g, def, t, before)
      <3> HIDE DEF N
      <3> QED BY <1>1, ReplayExists
    <2> QED BY <2>1 DEF ReplayTo, Replayed
  <1>4. GetCurrentTable(schema, t, before) = f[N]
    BY DEF GetCurrentTable, def
  <1> HIDE DEF f, N
  <1>5. \A i \in 0..N : f[i] = IF i = 0 THEN def ELSE Replayed(f[i - 1], t, before[i])
    BY <1>3 DEF ReplayTo
  <1> DEFINE Way(p, q) == /\ p[1] = t /\ p[1] = q[1] /\ p[2] \in Names(def.columns)
                          /\ \A op \in Range(before) : Leaves(op, p, q)
             Good(n) == /\ IsDefinition(f[n]) /\ f[n].name = t
                        /\ \A p, q : Way(p, q) => Now(before, n, p, q)[2] \in Names(f[n].columns)
             G == {n \in 0..N : Good(n)}
  <1>6. 0 \in G
    <2>1. f[0] = def /\ 0 \in 0..N
      BY <1>1, <1>5
    <2>2. IsDefinition(def)
      BY <1>2 DEF IsTable, IsDefinition
    <2>3. \A p, q : Now(before, 0, p, q) = p
      BY NowNext
    <2> QED BY <1>2, <2>1, <2>2, <2>3
  <1>7. ASSUME NEW n \in 0..N, n \in G, n # N PROVE n + 1 \in G
    <2>1. n \in Nat /\ n + 1 \in 1..N /\ n + 1 \in 0..N /\ (n + 1) - 1 = n /\ n + 1 # 0
      <3> HIDE DEF G
      <3> QED BY <1>1, <1>7
    <2>2. Good(n)
      BY <1>7
    <2> DEFINE op == before[n + 1]
    <2>3. f[n + 1] = Replayed(f[n], t, op)
      BY <1>5, <2>1
    <2>4. op \in Range(before) /\ IsOp(op)
      BY <1>1, <2>1
    <2>5. \A p, q : Now(before, n + 1, p, q) = IF IsMove(op, p, q) THEN q ELSE Now(before, n, p, q)
      BY <2>1, NowNext
    <2>6. \A p, q : Now(before, n, p, q) \in {p, q}
      BY <2>1, NowNext
    <2> HIDE DEF op
    <2>7. CASE op.do \in {"createTable", "renameTable"} \/ op.table # t
      <3>1. f[n + 1] = f[n]
        BY <2>3, <2>7 DEF Replayed
      <3>2. \A p, q : Way(p, q) => ~IsMove(op, p, q)
        BY <2>7 DEF IsMove
      <3>3. Good(n + 1)
        BY <2>2, <2>5, <3>1, <3>2
      <3> QED BY <2>1, <3>3
    <2>8. CASE ~(op.do \in {"createTable", "renameTable"} \/ op.table # t)
      <3>1. f[n + 1] = ApplyToTable(f[n], op) /\ op.table = t
        BY <2>3, <2>8 DEF Replayed
      <3>2. /\ IsDefinition(f[n + 1]) /\ f[n + 1].name = t
            /\ \A c \in Names(f[n].columns) :
                 IF op.do = "dropColumn" /\ c = op.column.name THEN TRUE
                 ELSE IF op.do = "renameColumn" /\ c = op.from THEN op.to \in Names(f[n + 1].columns)
                 ELSE c \in Names(f[n + 1].columns)
        <4>1. IsDefinition(f[n]) /\ f[n].name = t /\ op.do \notin {"createTable", "renameTable"}
          BY <2>2, <2>8
        <4> DEFINE old == f[n]
        <4>2. IsDefinition(old) /\ old.name = t
          BY <4>1
        <4>3. f[n + 1] = ApplyToTable(old, op)
          BY <3>1
        <4> HIDE DEF G, Good, old
        <4> DEFINE new == ApplyToTable(old, op)
        <4>4. /\ IsDefinition(new) /\ new.name = old.name
              /\ \A c \in Names(old.columns) :
                   IF op.do = "dropColumn" /\ c = op.column.name THEN TRUE
                   ELSE IF op.do = "renameColumn" /\ c = op.from THEN op.to \in Names(new.columns)
                   ELSE c \in Names(new.columns)
          BY <2>4, <4>1, <4>2, AppliedColumns
        <4> HIDE DEF new
        <4>5. f[n + 1] = new
          BY <4>3 DEF new
        <4> QED BY <4>2, <4>4, <4>5 DEF old
      <3>3. ASSUME NEW p, NEW q, Way(p, q)
            PROVE  Now(before, n + 1, p, q)[2] \in Names(f[n + 1].columns)
        <4> DEFINE now == Now(before, n, p, q)
        <4>1. now[2] \in Names(f[n].columns) /\ now[2] \in {p[2], q[2]}
          BY <2>2, <2>6, <3>3
        <4>2. Leaves(op, p, q) /\ p[1] = q[1] /\ op.table = p[1]
          BY <2>4, <3>1, <3>3
        <4>3. Now(before, n + 1, p, q) = IF IsMove(op, p, q) THEN q ELSE now
          BY <2>5
        <4> HIDE DEF now
        <4>4. op.do = "dropColumn" => op.column.name # now[2]
          BY <4>1, <4>2 DEF Leaves
        <4>5. CASE IsMove(op, p, q)
          <5>1. op.do = "renameColumn" /\ op.from = p[2] /\ op.to = q[2]
            BY <4>2, <4>5 DEF IsMove
          <5> QED BY <3>2, <4>1, <4>3, <4>5, <5>1
        <4>6. CASE ~IsMove(op, p, q)
          <5>1. op.do = "renameColumn" => op.from # now[2]
            BY <4>1, <4>2, <4>6 DEF Leaves
          <5> QED BY <3>2, <4>1, <4>3, <4>4, <4>6, <5>1
        <4> QED BY <4>5, <4>6
      <3>4. Good(n + 1)
        BY <3>2, <3>3
      <3> QED BY <2>1, <3>4
    <2> QED BY <2>7, <2>8
  <1>8. Good(N)
    <2> HIDE DEF G
    <2>1. 0..N \subseteq G
      BY <1>1, <1>6, <1>7, Induction
    <2>2. N \in G
      BY <1>1, <2>1
    <2> QED BY <2>2 DEF G
  <1> QED BY <1>4, <1>8 DEF N, def

(***************************************************************************)
(* The statements of a script, and those of its inversion.                 *)
(***************************************************************************)

\* A list of operations that carries the column at p to q.
Carries(ops, p, q) ==
  /\ IsList(ops) /\ IsWay(p, q)
  /\ \A op \in Range(ops) : IsOp(op) /\ Leaves(op, p, q)
  /\ p # q => \E op \in Range(ops) : IsMove(op, p, q)

\* The schema that a script starts from has the column.
StartsAt(schema, p) == p[1] \in Names(schema) /\ p[2] \in Names(Named(schema, p[1]).columns)

\* The recreation copies the column: the definitions before and after both have it.
LEMMA RebuildStep ==
  ASSUME NEW dialect, NEW schema, IsSchema(schema), NEW before, IsList(before),
         NEW op, NEW lifted, NEW db, NEW p, NEW q, NEW data, IsWay(p, q), StartsAt(schema, p),
         IsOp(op), Leaves(op, p, q), \A o \in Range(before) : IsOp(o) /\ Leaves(o, p, q),
         op.do \in Rebuilt, op.table \in Names(schema), IsDatabase(db),
         NEW now, now = Now(before, Len(before), p, q), Certain(db, now, data),
         NEW old, old = GetCurrentTable(schema, op.table, before),
         NEW st, st = GenerateTableRecreation(op.table, ApplyToTable(old, op), old),
         Has(db, st.table)
  PROVE  Keeping(now, data, Done(dialect, db, st))
  <1> DEFINE new == ApplyToTable(old, op)
  <1>1. op.do \in {"alterColumn"} \cup ItemOps
    BY ItemKinds DEF Rebuilt, ItemOps
  <1>2. /\ IsDefinition(old) /\ old.name = op.table
        /\ op.table = p[1] /\ p[1] = q[1] => now[2] \in Names(old.columns)
    BY ReplayKeeps DEF StartsAt
  <1>3. /\ IsDefinition(new) /\ new.name = old.name
        /\ \A n \in Names(old.columns) : n \in Names(new.columns)
    BY <1>1, <1>2, AppliedColumns DEF ItemOps
  <1> HIDE DEF new
  <1>4. /\ st.do = "rebuild" /\ st.table = op.table /\ st.def = new
        /\ st.copied = Names(new.columns) \cap Names(old.columns)
    BY DEF GenerateTableRecreation, new
  <1>5. now \in {p, q}
    <2>1. Len(before) \in Nat
      BY ListElements
    <2> QED BY <2>1, NowNext
  <1>6. op.table = now[1] => p[1] = q[1]
    <2>1. op.do # "renameTable"
      BY <1>1 DEF ItemOps
    <2> QED BY <1>5, <2>1 DEF Leaves
  <1>7. op.table = now[1] => now[2] \in Names(new.columns) /\ now[2] \in st.copied
    BY <1>2, <1>3, <1>4, <1>5, <1>6
  <1> QED BY <1>2, <1>3, <1>4, <1>7, DoneRebuild

\* The operations before the one at hand.
LEMMA PrefixFacts ==
  ASSUME NEW ops, IsList(ops), NEW n \in Nat, n <= Len(ops)
  PROVE  LET before == SubSeq(ops, 1, n) IN
         /\ IsList(before) /\ Len(before) = n /\ Range(before) \subseteq Range(ops)
         /\ \A i \in 1..n : before[i] = ops[i]
  <1> DEFINE before == SubSeq(ops, 1, n)
  <1>1. Len(ops) \in Nat /\ \A i \in 1..Len(ops) : ops[i] \in Range(ops)
    BY ListElements
  <1>2. ops \in Seq(Range(ops))
    BY DEF IsList
  <1>3. Len(before) = n /\ DOMAIN before = 1..n /\ \A i \in 1..n : before[i] = ops[i]
    BY <1>1, <1>2
  <1>4. before = [i \in 1..n |-> before[i]]
    BY <1>1, <1>2
  <1>5. \A i \in 1..n : i \in 1..Len(ops)
    BY <1>1
  <1> HIDE DEF before
  <1>6. IsList(before)
    BY <1>4, FunctionIsList
  <1>7. Range(before) \subseteq Range(ops)
    BY <1>1, <1>3, <1>5 DEF Range
  <1> QED BY <1>3, <1>6, <1>7 DEF before

\* A statement of the script takes the column along its way, or leaves it.
LEMMA StatementStep ==
  ASSUME NEW dialect, NEW schema, IsSchema(schema), NEW ops, NEW n \in Nat, n + 1 <= Len(ops),
         NEW lifted, NEW db, NEW p, NEW q, NEW data, Carries(ops, p, q), StartsAt(schema, p),
         IsDatabase(db), Certain(db, Now(ops, n, p, q), data),
         NEW st, st = GenerateDDL(dialect, schema, SubSeq(ops, 1, n), ops[n + 1]),
         ~Refused(dialect, db, st, lifted)
  PROVE  Keeping(Now(ops, n + 1, p, q), data, Done(dialect, db, st))
  <1> DEFINE before == SubSeq(ops, 1, n)
             op     == ops[n + 1]
             now    == Now(ops, n, p, q)
             old    == GetCurrentTable(schema, op.table, before)
  <1>1. IsList(ops) /\ IsWay(p, q) /\ \A o \in Range(ops) : IsOp(o) /\ Leaves(o, p, q)
    BY DEF Carries
  <1>2. Len(ops) \in Nat /\ \A i \in 1..Len(ops) : ops[i] \in Range(ops)
    BY <1>1, ListElements
  <1>3. op \in Range(ops) /\ IsOp(op) /\ Leaves(op, p, q)
    <2>1. n + 1 \in 1..Len(ops)
      BY <1>2
    <2> QED BY <1>1, <1>2, <2>1
  <1>4. /\ IsList(before) /\ Len(before) = n /\ Range(before) \subseteq Range(ops)
        /\ \A i \in 1..n : before[i] = ops[i]
    <2>1. n <= Len(ops)
      BY <1>2
    <2> QED BY <1>1, <2>1, PrefixFacts
  <1>5. Now(ops, n + 1, p, q) = IF IsMove(op, p, q) THEN q ELSE now
    BY NowNext
  <1>6. now = p \/ now = q
    BY DEF Now
  <1>7. now = Now(before, n, p, q)
    <2> HIDE DEF before
    <2> QED BY <1>4 DEF Now
  <1> HIDE DEF before, now
  <1>8. st = GenerateDDL(dialect, schema, before, op)
    BY DEF before
  <1> HIDE DEF op
  <1>9. CASE dialect # "sqlite" \/ op.do \notin Rebuilt
    <2>1. st = op
      BY <1>8, <1>9 DEF GenerateDDL
    <2> QED BY <1>1, <1>3, <1>5, <1>6, <2>1, OpStep DEF now
  <1>10. CASE ~(dialect # "sqlite" \/ op.do \notin Rebuilt)
    <2>1. op.table \in Names(schema)
      <3>1. SUFFICES ASSUME op.table \notin Names(schema) PROVE FALSE
        BY <3>1
      <3>2. st = Op("throw", op.table)
        BY <1>8, <1>10, <3>1 DEF GenerateDDL
      <3>3. st.do = "throw"
        BY <3>2 DEF Op
      <3> QED BY <3>3, RunsThere
    <2>2. st = GenerateTableRecreation(op.table, ApplyToTable(old, op), old)
      BY <1>8, <1>10, <2>1 DEF GenerateDDL
    <2>3. ~IsMove(op, p, q)
      BY <1>10, ItemKinds DEF IsMove, Rebuilt
    <2>4. st.do = "rebuild"
      BY <2>2 DEF GenerateTableRecreation
    <2>5. Has(db, st.table)
      BY <2>4, RunsThere
    <2>6. \A o \in Range(before) : IsOp(o) /\ Leaves(o, p, q)
      BY <1>1, <1>4
    <2>7. Keeping(now, data, Done(dialect, db, st))
      <3> HIDE DEF old
      <3>1. old = GetCurrentTable(schema, op.table, before)
        BY DEF old
      <3>2. Certain(db, now, data) /\ now = Now(before, Len(before), p, q) /\ op.do \in Rebuilt
        BY <1>4, <1>7, <1>10 DEF now
      <3> QED BY <1>1, <1>3, <1>4, <2>1, <2>2, <2>5, <2>6, <3>1, <3>2, RebuildStep
    <2> QED BY <1>5, <2>3, <2>7
  <1> QED BY <1>9, <1>10

\* When all operations are done the column has arrived.
LEMMA EndOfWay ==
  ASSUME NEW ops, NEW p, NEW q, Carries(ops, p, q)
  PROVE  Now(ops, Len(ops), p, q) = q
  <1>1. \A op \in Range(ops) : \E i \in 1..Len(ops) : ops[i] = op
    BY ListElements DEF Carries
  <1> QED BY <1>1 DEF Carries, Now

\* One statement for every operation, made with those before it in mind.
LEMMA StatementsFacts ==
  ASSUME NEW dialect, NEW schema, NEW ops, IsList(ops)
  PROVE  /\ Len(Statements(dialect, schema, ops)) = Len(ops)
         /\ \A i \in 1..Len(ops) :
              Statements(dialect, schema, ops)[i] = GenerateDDL(dialect, schema, SubSeq(ops, 1, i - 1), ops[i])
  <1> DEFINE st(i) == GenerateDDL(dialect, schema, SubSeq(ops, 1, i - 1), ops[i])
             s == Statements(dialect, schema, ops)
  <1>1. s = [i \in DOMAIN ops |-> st(i)]
    BY DEF Statements
  <1>2. Len(ops) \in Nat /\ DOMAIN ops = 1..Len(ops)
    BY ListElements
  <1> HIDE DEF st, s
  <1>3. s = [i \in DOMAIN ops |-> s[i]] /\ \A i \in 1..Len(ops) : s[i] = st(i)
    BY <1>1, <1>2
  <1>4. Len(s) = Len(ops)
    BY <1>3, MapList
  <1> QED BY <1>3, <1>4 DEF s, st

\* invertOperations, element by element.
LEMMA InvertedOperations ==
  ASSUME NEW ops, IsList(ops)
  PROVE  /\ IsList(InvertOperations(ops)) /\ Len(InvertOperations(ops)) = Len(ops)
         /\ Range(InvertOperations(ops)) = {InvertOperation(op) : op \in Range(ops)}
  <1> DEFINE s == InvertOperations(ops)
             N == Len(ops)
             inv(i) == InvertOperation(ops[N + 1 - i])
  <1>1. N \in Nat /\ DOMAIN ops = 1..N
    BY ListElements
  <1>2. s = [i \in DOMAIN ops |-> inv(i)]
    BY DEF InvertOperations
  <1> HIDE DEF s
  <1>3. s = [i \in DOMAIN ops |-> s[i]] /\ \A i \in 1..N : s[i] = InvertOperation(ops[N + 1 - i])
    BY <1>1, <1>2
  <1> HIDE DEF N, inv
  <1>4. IsList(s) /\ Len(s) = N /\ DOMAIN s = 1..N
    BY <1>1, <1>3, MapList DEF N
  <1>5. \A i \in 1..N : N + 1 - i \in 1..N /\ N + 1 - (N + 1 - i) = i
    BY <1>1
  <1>6. Range(s) = {InvertOperation(op) : op \in Range(ops)}
    <2>1. Range(s) = {s[i] : i \in 1..N} /\ Range(ops) = {ops[i] : i \in 1..N}
      BY <1>1, <1>4 DEF Range
    <2>2. ASSUME NEW op \in Range(ops) PROVE InvertOperation(op) \in Range(s)
      <3>1. PICK i \in 1..N : op = ops[i]
        BY <2>1
      <3>2. N + 1 - i \in 1..N /\ s[N + 1 - i] = InvertOperation(ops[i])
        BY <1>3, <1>5
      <3> QED BY <2>1, <3>1, <3>2
    <2>3. ASSUME NEW x \in Range(s) PROVE \E op \in Range(ops) : x = InvertOperation(op)
      <3>1. PICK i \in 1..N : x = s[i]
        BY <2>1
      <3> QED BY <1>3, <1>5, <2>1, <3>1
    <2> QED BY <2>2, <2>3
  <1> QED BY <1>4, <1>6 DEF s, N

\* What carries a column there carries it back when inverted.
LEMMA InvertedCarries ==
  ASSUME NEW ops, NEW p, NEW q, Carries(ops, p, q)
  PROVE  Carries(InvertOperations(ops), q, p)
  BY InvertedOperations, InvertedOp, InvertedLeaves, InvertedMove DEF Carries, IsWay

(***************************************************************************)
(* The operations of a workload leave alone what survives.                 *)
(***************************************************************************)

\* What is in none of the pairs.
LEMMA UnpairedFacts ==
  ASSUME NEW s, IsList(s), NEW pairs, NEW side
  PROVE  /\ IsList(Unpaired(s, pairs, side))
         /\ \A x : x \in Range(Unpaired(s, pairs, side))
                   <=> x \in Range(s) /\ \A p \in Range(pairs) : p[side] # x
  BY AmongList DEF Unpaired

\* A column that is in both tables, or is taken for a renamed one.
ColumnWay(cur, des, answer, c, d) ==
  \/ c = d /\ c \in Names(cur.columns) /\ c \in Names(des.columns)
  \/ answer = "rename" /\ \E p \in Range(ColumnPairs(cur, des)) : c = p[1].name /\ d = p[2].name

\* Renamed columns are pairs of one dropped and one added, each in one pair only.
LEMMA ColumnPairsFacts ==
  ASSUME NEW cur, NEW des, IsTable(cur), IsTable(des)
  PROVE  LET pairs == ColumnPairs(cur, des) IN
         /\ IsList(pairs)
         /\ \A p \in Range(pairs) :
              /\ p[1] \in Range(cur.columns) /\ p[1].name \notin Names(des.columns)
              /\ p[2] \in Range(des.columns) /\ p[2].name \notin Names(cur.columns)
         /\ \A p, o \in Range(pairs) : p[1] = o[1] \/ p[2] = o[2] => p = o
  <1> DEFINE D == Without(cur.columns, des.columns)
             A == Without(des.columns, cur.columns)
             alike == {p \in Range(cur.columns) \X Range(des.columns) : SameType(p[1], p[2])}
             pairs == ColumnPairs(cur, des)
  <1>1. /\ IsList(D) /\ Distinct(D)
        /\ \A x : x \in Range(D) <=> x \in Range(cur.columns) /\ x.name \notin Names(des.columns)
    BY WithoutFacts DEF IsTable
  <1>2. /\ IsList(A)
        /\ \A x : x \in Range(A) <=> x \in Range(des.columns) /\ x.name \notin Names(cur.columns)
    BY WithoutFacts DEF IsTable
  <1>3. pairs = Pairs(D, A, alike)
    BY DEF ColumnPairs
  <1> HIDE DEF D, A, alike, pairs
  <1>4. AreMatched(pairs, Range(D), Range(A), alike)
    BY <1>1, <1>2, <1>3, PairsFacts
  <1> QED BY <1>1, <1>2, <1>4 DEF AreMatched, pairs

\* Renamed tables are pairs of one dropped and one added, each in one pair only.
LEMMA TablePairsFacts ==
  ASSUME NEW from, NEW to, IsSchema(from), IsSchema(to)
  PROVE  LET pairs == TablePairs(from, to) IN
         /\ IsList(pairs)
         /\ \A p \in Range(pairs) :
              /\ p[1] \in Range(from) /\ p[1].name \notin Names(to)
              /\ p[2] \in Range(to) /\ p[2].name \notin Names(from)
         /\ \A p, o \in Range(pairs) : p[1] = o[1] \/ p[2] = o[2] => p = o
  <1> DEFINE D == Without(from, to)
             A == Without(to, from)
             alike == {p \in Range(from) \X Range(to) : Similar(p[1], p[2])}
             pairs == TablePairs(from, to)
  <1>1. /\ IsList(D) /\ Distinct(D)
        /\ \A x : x \in Range(D) <=> x \in Range(from) /\ x.name \notin Names(to)
    BY WithoutFacts DEF IsSchema
  <1>2. /\ IsList(A)
        /\ \A x : x \in Range(A) <=> x \in Range(to) /\ x.name \notin Names(from)
    BY WithoutFacts DEF IsSchema
  <1>3. pairs = Pairs(D, A, alike)
    BY DEF TablePairs
  <1> HIDE DEF D, A, alike, pairs
  <1>4. AreMatched(pairs, Range(D), Range(A), alike)
    BY <1>1, <1>2, <1>3, PairsFacts
  <1> QED BY <1>1, <1>2, <1>4 DEF AreMatched, pairs

\* The operations of one table: what they drop or add, nothing takes for renamed.
LEMMA DiffTableFacts ==
  ASSUME NEW cur, NEW des, IsTable(cur), IsTable(des)
  PROVE  /\ IsList(DiffTable(cur, des))
         /\ \A op \in Range(DiffTable(cur, des)) :
              /\ IsOp(op) /\ op.table = cur.name
              /\ op.do \in {"dropColumn", "addColumn", "alterColumn"} \cup ItemOps
              /\ \A answer, c, d : op.do \in {"dropColumn", "addColumn"} /\ ColumnWay(cur, des, answer, c, d)
                                   => op.column.name \notin {c, d}
  <1> DEFINE pairs   == ColumnPairs(cur, des)
             t       == cur.name
             gone    == Unpaired(Without(cur.columns, des.columns), pairs, 1)
             new     == Unpaired(Without(des.columns, cur.columns), pairs, 2)
             altered == Among(des.columns, {c \in Range(des.columns) :
                          c.name \in Names(cur.columns) /\ c \notin Range(cur.columns)})
             dropped == Among(cur.items, Range(cur.items) \ Range(des.items))
             added   == Among(des.items, Range(des.items) \ Range(cur.items))
             s1 == [i \in DOMAIN gone |-> ColumnOp("dropColumn", t, gone[i])]
             s2 == [i \in DOMAIN new |-> ColumnOp("addColumn", t, new[i])]
             s3 == [i \in DOMAIN altered |->
                     ChangeOp("alterColumn", t, Named(cur.columns, altered[i].name), altered[i])]
             s4 == [i \in DOMAIN dropped |-> ItemOp(DropOf[dropped[i].kind], t, dropped[i])]
             s5 == [i \in DOMAIN added |-> ItemOp(AddOf[added[i].kind], t, added[i])]
             Fine(op) ==
               /\ IsOp(op) /\ op.table = cur.name
               /\ op.do \in {"dropColumn", "addColumn", "alterColumn"} \cup ItemOps
               /\ \A answer, c, d : op.do \in {"dropColumn", "addColumn"} /\ ColumnWay(cur, des, answer, c, d)
                                   => op.column.name \notin {c, d}
             AllFine(s) == IsList(s) /\ \A op \in Range(s) : Fine(op)
  <1>0. DiffTable(cur, des) = s1 \o s2 \o s3 \o s4 \o s5
    BY DEF DiffTable
  <1>1. /\ IsList(cur.columns) /\ NamesDiffer(cur.columns) /\ IsList(cur.items)
        /\ IsList(des.columns) /\ NamesDiffer(des.columns) /\ IsList(des.items)
        /\ \A c \in Range(cur.columns) \cup Range(des.columns) : IsColumn(c)
        /\ \A k \in Range(cur.items) \cup Range(des.items) : k.kind \in Kinds
    BY DEF IsTable
  <1>2. /\ \A p \in Range(pairs) :
              /\ p[1] \in Range(cur.columns) /\ p[1].name \notin Names(des.columns)
              /\ p[2] \in Range(des.columns) /\ p[2].name \notin Names(cur.columns)
    BY ColumnPairsFacts
  <1> HIDE DEF pairs, Fine
  <1>3. AllFine(s1)
    <2>1. /\ IsList(gone)
          /\ \A x \in Range(gone) : /\ x \in Range(cur.columns) /\ x.name \notin Names(des.columns)
                                    /\ \A p \in Range(pairs) : p[1] # x
      BY <1>1, WithoutFacts, UnpairedFacts
    <2> HIDE DEF gone
    <2>2. ASSUME NEW x \in Range(gone) PROVE Fine(ColumnOp("dropColumn", t, x))
      <3>1. x \in Range(cur.columns) /\ x.name \in Names(cur.columns) /\ IsColumn(x)
        BY <1>1, <2>1, NamesFacts
      <3>2. \A p \in Range(pairs) : p[1].name # x.name
        BY <1>1, <1>2, <2>1, <3>1, SameName
      <3>3. \A answer, c, d : ColumnWay(cur, des, answer, c, d) => x.name # c /\ x.name # d
        <4>1. \A p \in Range(pairs) : p[2].name # x.name
          BY <1>2, <3>1
        <4> QED BY <2>1, <3>2, <4>1 DEF ColumnWay, pairs
      <3> QED BY <3>1, <3>3 DEF Fine, ColumnOp, IsOp, OpKinds, ItemOps
    <2>3. IsList(s1) /\ \A op \in Range(s1) : \E i \in DOMAIN gone : op = s1[i]
      BY <2>1, MapList
    <2>4. \A i \in DOMAIN gone : gone[i] \in Range(gone)
      BY DEF Range
    <2> QED BY <2>2, <2>3, <2>4
  <1>4. AllFine(s2)
    <2>1. /\ IsList(new)
          /\ \A x \in Range(new) : /\ x \in Range(des.columns) /\ x.name \notin Names(cur.columns)
                                   /\ \A p \in Range(pairs) : p[2] # x
      BY <1>1, WithoutFacts, UnpairedFacts
    <2> HIDE DEF new
    <2>2. ASSUME NEW x \in Range(new) PROVE Fine(ColumnOp("addColumn", t, x))
      <3>1. x \in Range(des.columns) /\ x.name \in Names(des.columns) /\ IsColumn(x)
        BY <1>1, <2>1, NamesFacts
      <3>2. \A p \in Range(pairs) : p[2].name # x.name
        BY <1>1, <1>2, <2>1, <3>1, SameName
      <3>3. \A answer, c, d : ColumnWay(cur, des, answer, c, d) => x.name # c /\ x.name # d
        <4>1. \A p \in Range(pairs) : p[1].name # x.name
          BY <1>2, <3>1
        <4> QED BY <2>1, <3>2, <4>1 DEF ColumnWay, pairs
      <3> QED BY <3>1, <3>3 DEF Fine, ColumnOp, IsOp, OpKinds, ItemOps
    <2>3. IsList(s2) /\ \A op \in Range(s2) : \E i \in DOMAIN new : op = s2[i]
      BY <2>1, MapList
    <2>4. \A i \in DOMAIN new : new[i] \in Range(new)
      BY DEF Range
    <2> QED BY <2>2, <2>3, <2>4
  <1>5. AllFine(s3)
    <2>1. /\ IsList(altered)
          /\ \A x \in Range(altered) : x \in Range(des.columns) /\ x.name \in Names(cur.columns)
      BY <1>1, AmongList
    <2> HIDE DEF altered
    <2>2. ASSUME NEW x \in Range(altered)
          PROVE  Fine(ChangeOp("alterColumn", t, Named(cur.columns, x.name), x))
      <3>1. IsColumn(x) /\ IsColumn(Named(cur.columns, x.name))
        BY <1>1, <2>1, NamedFacts
      <3> QED BY <3>1 DEF Fine, ChangeOp, IsOp, OpKinds, ItemOps
    <2>3. IsList(s3) /\ \A op \in Range(s3) : \E i \in DOMAIN altered : op = s3[i]
      BY <2>1, MapList
    <2>4. \A i \in DOMAIN altered : altered[i] \in Range(altered)
      BY DEF Range
    <2> QED BY <2>2, <2>3, <2>4
  <1>6. ASSUME NEW k \in Range(cur.items) \cup Range(des.items)
        PROVE  Fine(ItemOp(DropOf[k.kind], t, k)) /\ Fine(ItemOp(AddOf[k.kind], t, k))
    <2>1. k.kind \in Kinds
      BY <1>1
    <2>2. DropOf[k.kind] \in Range(DropOf) /\ AddOf[k.kind] \in Range(AddOf)
      BY <2>1, ItemKinds DEF Range
    <2>3. DropOf[k.kind] \in ItemOps /\ AddOf[k.kind] \in ItemOps
      BY <2>2, ItemKinds DEF ItemOps
    <2> DEFINE a == AddOf[k.kind]  d == DropOf[k.kind]
    <2> HIDE DEF a, d
    <2>4. \A do \in ItemOps : Fine(ItemOp(do, t, k))
      BY <2>1 DEF Fine, ItemOp, IsOp, OpKinds, ItemOps
    <2> QED BY <2>3, <2>4
  <1>7. AllFine(s4)
    <2>1. IsList(dropped) /\ \A x \in Range(dropped) : x \in Range(cur.items)
      BY <1>1, AmongList
    <2> HIDE DEF dropped
    <2>3. IsList(s4) /\ \A op \in Range(s4) : \E i \in DOMAIN dropped : op = s4[i]
      BY <2>1, MapList
    <2>4. \A i \in DOMAIN dropped : dropped[i] \in Range(dropped)
      BY DEF Range
    <2> QED BY <1>6, <2>1, <2>3, <2>4
  <1>8. AllFine(s5)
    <2>1. IsList(added) /\ \A x \in Range(added) : x \in Range(des.items)
      BY <1>1, AmongList
    <2> HIDE DEF added
    <2>3. IsList(s5) /\ \A op \in Range(s5) : \E i \in DOMAIN added : op = s5[i]
      BY <2>1, MapList
    <2>4. \A i \in DOMAIN added : added[i] \in Range(added)
      BY DEF Range
    <2> QED BY <1>6, <2>1, <2>3, <2>4
  <1> HIDE DEF s1, s2, s3, s4, s5
  <1>9. \A s, u : AllFine(s) /\ AllFine(u) => AllFine(s \o u)
    BY ConcatList
  <1> HIDE DEF AllFine
  <1>10. AllFine(s1 \o s2 \o s3 \o s4 \o s5)
    BY <1>3, <1>4, <1>5, <1>7, <1>8, <1>9
  <1> QED BY <1>0, <1>10 DEF AllFine, Fine

\* A column of both schemas, in a table of both, or in one that is taken for renamed.
TableWay(from, to, answer, p, q) ==
  \/ /\ p[1] = q[1] /\ p[1] \in Names(from) /\ p[1] \in Names(to)
     /\ ColumnWay(Named(from, p[1]), Named(to, p[1]), answer, p[2], q[2])
  \/ /\ answer = "rename" /\ p[2] = q[2]
     /\ \E pair \in Range(TablePairs(from, to)) :
          /\ p[1] = pair[1].name /\ p[2] \in Names(pair[1].columns)
          /\ q[1] = pair[2].name /\ q[2] \in Names(pair[2].columns)

\* The column is in the one schema at p and in the other at q, and only one of table
\* and column changes its name.
LEMMA WayFacts ==
  ASSUME NEW from, NEW to, IsSchema(from), IsSchema(to), NEW answer, NEW p, NEW q,
         TableWay(from, to, answer, p, q)
  PROVE  /\ IsWay(p, q) /\ StartsAt(from, p) /\ StartsAt(to, q)
         /\ \/ p[1] = q[1] /\ p[1] \in Names(from) /\ p[1] \in Names(to)
            \/ p[1] # q[1] /\ p[1] \notin Names(to) /\ q[1] \notin Names(from)
  <1>1. CASE /\ p[1] = q[1] /\ p[1] \in Names(from) /\ p[1] \in Names(to)
             /\ ColumnWay(Named(from, p[1]), Named(to, p[1]), answer, p[2], q[2])
    <2> DEFINE cur == Named(from, p[1])  des == Named(to, p[1])
    <2>1. IsTable(cur) /\ IsTable(des)
      BY <1>1, NamedFacts DEF IsSchema
    <2>2. /\ \A c \in Range(ColumnPairs(cur, des)) :
              c[1] \in Range(cur.columns) /\ c[2] \in Range(des.columns)
      BY <2>1, ColumnPairsFacts
    <2> HIDE DEF cur, des
    <2>3. p[2] \in Names(cur.columns) /\ q[2] \in Names(des.columns)
      BY <1>1, <2>2, NamesFacts DEF ColumnWay, cur, des
    <2> QED BY <1>1, <2>3 DEF IsWay, StartsAt, cur, des
  <1>2. ASSUME NEW pair \in Range(TablePairs(from, to)), p[2] = q[2],
               p[1] = pair[1].name, p[2] \in Names(pair[1].columns),
               q[1] = pair[2].name, q[2] \in Names(pair[2].columns)
        PROVE  /\ IsWay(p, q) /\ StartsAt(from, p) /\ StartsAt(to, q)
               /\ p[1] # q[1] /\ p[1] \notin Names(to) /\ q[1] \notin Names(from)
    <2>1. /\ pair[1] \in Range(from) /\ pair[1].name \notin Names(to)
          /\ pair[2] \in Range(to) /\ pair[2].name \notin Names(from)
      BY TablePairsFacts
    <2>2. p[1] \in Names(from) /\ q[1] \in Names(to)
      BY <1>2, <2>1, NamesFacts
    <2>3. pair[1] = Named(from, p[1]) /\ pair[2] = Named(to, q[1])
      BY <1>2, <2>1, <2>2, NamedFacts DEF IsSchema
    <2> QED BY <1>2, <2>1, <2>2, <2>3 DEF IsWay, StartsAt
  <1> QED BY <1>1, <1>2 DEF TableWay

\* Where the operations of the diff come from.
LEMMA DiffFacts ==
  ASSUME NEW from, NEW to, IsSchema(from), IsSchema(to)
  PROVE  /\ IsList(Diff(from, to))
         /\ \A op \in Range(Diff(from, to)) :
              \/ \E g \in Range(from) : /\ op = TableOp("dropTable", g) /\ g.name \notin Names(to)
                                        /\ \A p \in Range(TablePairs(from, to)) : p[1] # g
              \/ \E g \in Range(to) : /\ op = TableOp("createTable", g) /\ g.name \notin Names(from)
                                      /\ \A p \in Range(TablePairs(from, to)) : p[2] # g
              \/ \E k \in Range(to) : /\ k.name \in Names(from)
                                      /\ op \in Range(DiffTable(Named(from, k.name), k))
  <1> DEFINE pairs == TablePairs(from, to)
             gone  == Unpaired(Without(from, to), pairs, 1)
             new   == Unpaired(Without(to, from), pairs, 2)
             kept  == Kept(from, to)
             s1 == [i \in DOMAIN gone |-> TableOp("dropTable", gone[i])]
             s2 == [i \in DOMAIN new |-> TableOp("createTable", new[i])]
             ss == [i \in DOMAIN kept |-> DiffTable(Named(from, kept[i].name), kept[i])]
             s3 == FlattenSeq(ss)
  <1>0. Diff(from, to) = s1 \o s2 \o s3
    BY DEF Diff
  <1>1. /\ IsList(from) /\ NamesDiffer(from) /\ IsList(to) /\ NamesDiffer(to)
        /\ \A t \in Range(from) \cup Range(to) : IsTable(t)
    BY DEF IsSchema
  <1>2. /\ IsList(gone)
        /\ \A x \in Range(gone) : /\ x \in Range(from) /\ x.name \notin Names(to)
                                  /\ \A p \in Range(pairs) : p[1] # x
    BY <1>1, WithoutFacts, UnpairedFacts
  <1>3. /\ IsList(new)
        /\ \A x \in Range(new) : /\ x \in Range(to) /\ x.name \notin Names(from)
                                 /\ \A p \in Range(pairs) : p[2] # x
    BY <1>1, WithoutFacts, UnpairedFacts
  <1>4. IsList(kept) /\ \A x \in Range(kept) : x \in Range(to) /\ x.name \in Names(from)
    BY <1>1, AmongList DEF Kept
  <1> HIDE DEF gone, new, kept
  <1>5. /\ IsList(s1)
        /\ \A op \in Range(s1) : \E g \in Range(gone) : op = TableOp("dropTable", g)
    <2>1. IsList(s1) /\ \A op \in Range(s1) : \E i \in DOMAIN gone : op = s1[i]
      BY <1>2, MapList
    <2>2. \A i \in DOMAIN gone : gone[i] \in Range(gone)
      BY DEF Range
    <2> QED BY <2>1, <2>2
  <1>6. /\ IsList(s2)
        /\ \A op \in Range(s2) : \E g \in Range(new) : op = TableOp("createTable", g)
    <2>1. IsList(s2) /\ \A op \in Range(s2) : \E i \in DOMAIN new : op = s2[i]
      BY <1>3, MapList
    <2>2. \A i \in DOMAIN new : new[i] \in Range(new)
      BY DEF Range
    <2> QED BY <2>1, <2>2
  <1>7. /\ IsList(s3)
        /\ \A op \in Range(s3) : \E k \in Range(kept) : op \in Range(DiffTable(Named(from, k.name), k))
    <2>1. IsList(ss) /\ DOMAIN ss = DOMAIN kept
      BY <1>4, MapList
    <2>2. \A i \in DOMAIN kept : /\ kept[i] \in Range(kept)
                                 /\ ss[i] = DiffTable(Named(from, kept[i].name), kept[i])
      BY DEF Range
    <2>3. \A i \in DOMAIN kept : IsList(ss[i])
      <3>1. \A i \in DOMAIN kept : IsTable(kept[i]) /\ IsTable(Named(from, kept[i].name))
        BY <1>1, <1>4, <2>2, NamedFacts
      <3> HIDE DEF ss
      <3> QED BY <2>2, <3>1, DiffTableFacts
    <2> HIDE DEF ss
    <2>4. IsList(s3) /\ \A x : x \in Range(s3) => \E i \in DOMAIN ss : x \in Range(ss[i])
      BY <2>1, <2>3, FlattenList
    <2> HIDE DEF s3
    <2> QED BY <2>1, <2>2, <2>4
  <1> HIDE DEF s1, s2, s3, pairs
  <1>8. /\ IsList(s1 \o s2 \o s3)
        /\ Range(s1 \o s2 \o s3) = Range(s1) \cup Range(s2) \cup Range(s3)
    <2>1. IsList(s1 \o s2) /\ Range(s1 \o s2) = Range(s1) \cup Range(s2)
      BY <1>5, <1>6, ConcatList
    <2> QED BY <1>7, <2>1, ConcatList
  <1>9. ASSUME NEW op \in Range(s1) \cup Range(s2) \cup Range(s3)
        PROVE  \/ \E g \in Range(from) : /\ op = TableOp("dropTable", g) /\ g.name \notin Names(to)
                                        /\ \A p \in Range(pairs) : p[1] # g
               \/ \E g \in Range(to) : /\ op = TableOp("createTable", g) /\ g.name \notin Names(from)
                                      /\ \A p \in Range(pairs) : p[2] # g
               \/ \E k \in Range(to) : /\ k.name \in Names(from)
                                       /\ op \in Range(DiffTable(Named(from, k.name), k))
    <2>1. CASE op \in Range(s1)
      BY <1>2, <1>5, <2>1
    <2>2. CASE op \in Range(s2)
      BY <1>3, <1>6, <2>2
    <2>3. CASE op \in Range(s3)
      BY <1>4, <1>7, <2>3
    <2> QED BY <2>1, <2>2, <2>3
  <1> QED BY <1>0, <1>8, <1>9 DEF pairs

\* The diff drops and adds nothing that survives.
LEMMA DiffLeaves ==
  ASSUME NEW from, NEW to, IsSchema(from), IsSchema(to), NEW op \in Range(Diff(from, to))
  PROVE  /\ IsOp(op)
         /\ \A answer, p, q : TableWay(from, to, answer, p, q) => Leaves(op, p, q)
  <1>1. /\ NamesDiffer(from) /\ NamesDiffer(to)
        /\ \A t \in Range(from) \cup Range(to) : IsTable(t)
    BY DEF IsSchema
  <1>2. \A pair \in Range(TablePairs(from, to)) : pair[1] \in Range(from) /\ pair[2] \in Range(to)
    BY TablePairsFacts
  <1>3. CASE \E g \in Range(from) : /\ op = TableOp("dropTable", g) /\ g.name \notin Names(to)
                                    /\ \A p \in Range(TablePairs(from, to)) : p[1] # g
    <2>1. PICK g \in Range(from) : /\ op = TableOp("dropTable", g) /\ g.name \notin Names(to)
                                   /\ \A p \in Range(TablePairs(from, to)) : p[1] # g
      BY <1>3
    <2>2. IsOp(op)
      BY <1>1, <2>1 DEF TableOp, IsOp, OpKinds, ItemOps
    <2>3. ASSUME NEW answer, NEW p, NEW q, TableWay(from, to, answer, p, q)
          PROVE  g.name # p[1] /\ g.name # q[1]
      <3>1. g.name \in Names(from)
        BY NamesFacts
      <3>2. \A pair \in Range(TablePairs(from, to)) : pair[1].name # g.name
        BY <1>1, <1>2, <2>1, SameName
      <3> QED BY <2>1, <2>3, <3>1, <3>2, WayFacts DEF TableWay
    <2> QED BY <2>1, <2>2, <2>3 DEF TableOp, Leaves
  <1>4. CASE \E g \in Range(to) : /\ op = TableOp("createTable", g) /\ g.name \notin Names(from)
                                  /\ \A p \in Range(TablePairs(from, to)) : p[2] # g
    <2>1. PICK g \in Range(to) : /\ op = TableOp("createTable", g) /\ g.name \notin Names(from)
                                 /\ \A p \in Range(TablePairs(from, to)) : p[2] # g
      BY <1>4
    <2>2. IsOp(op)
      BY <1>1, <2>1 DEF TableOp, IsOp, OpKinds, ItemOps
    <2>3. ASSUME NEW answer, NEW p, NEW q, TableWay(from, to, answer, p, q)
          PROVE  g.name # p[1] /\ g.name # q[1]
      <3>1. g.name \in Names(to)
        BY NamesFacts
      <3>2. \A pair \in Range(TablePairs(from, to)) : pair[2].name # g.name
        BY <1>1, <1>2, <2>1, SameName
      <3> QED BY <2>1, <2>3, <3>1, <3>2, WayFacts DEF TableWay
    <2> QED BY <2>1, <2>2, <2>3 DEF TableOp, Leaves
  <1>5. CASE \E k \in Range(to) : /\ k.name \in Names(from)
                                  /\ op \in Range(DiffTable(Named(from, k.name), k))
    <2>1. PICK k \in Range(to) : /\ k.name \in Names(from)
                                 /\ op \in Range(DiffTable(Named(from, k.name), k))
      BY <1>5
    <2> DEFINE cur == Named(from, k.name)
    <2>2. IsTable(cur) /\ IsTable(k) /\ cur.name = k.name /\ k.name \in Names(to) /\ k = Named(to, k.name)
      BY <1>1, <2>1, NamedFacts, NamesFacts
    <2>3. /\ IsOp(op) /\ op.table = k.name
          /\ op.do \in {"dropColumn", "addColumn", "alterColumn"} \cup ItemOps
          /\ \A answer, c, d : op.do \in {"dropColumn", "addColumn"} /\ ColumnWay(cur, k, answer, c, d)
                               => op.column.name \notin {c, d}
      BY <2>1, <2>2, DiffTableFacts
    <2>4. op.do \notin {"createTable", "dropTable", "renameTable", "renameColumn"}
      BY <2>3 DEF ItemOps
    <2>5. ASSUME NEW answer, NEW p, NEW q, TableWay(from, to, answer, p, q)
          PROVE  Leaves(op, p, q)
      <3>1. CASE p[1] # q[1]
        <4>1. op.table \notin {p[1], q[1]}
          BY <2>1, <2>2, <2>3, <2>5, <3>1, WayFacts
        <4> QED BY <2>4, <4>1 DEF Leaves
      <3>2. CASE p[1] = q[1]
        <4>1. op.table = p[1] => ColumnWay(cur, k, answer, p[2], q[2])
          <5>1. p[1] \in Names(from) /\ p[1] \in Names(to)
            BY <2>5, <3>2, WayFacts
          <5>2. ~(\E pair \in Range(TablePairs(from, to)) : p[1] = pair[1].name /\ q[1] = pair[2].name)
            BY <3>2, <5>1, TablePairsFacts
          <5> QED BY <2>2, <2>3, <2>5, <5>2 DEF TableWay
        <4> QED BY <2>3, <2>4, <3>2, <4>1 DEF Leaves
      <3> QED BY <3>1, <3>2
    <2> QED BY <2>3, <2>5
  <1> QED BY <1>3, <1>4, <1>5, DiffFacts

\* Operations given as a list of two.
LEMMA PairList == ASSUME NEW x, NEW y PROVE IsList(<<x, y>>) /\ Range(<<x, y>>) = {x, y}
  BY DEF IsList, Range

\* The answer for one pair of columns: what it drops, adds or renames.
LEMMA ResolveColumnFacts ==
  ASSUME NEW cur, NEW des, IsTable(cur), IsTable(des),
         NEW pair \in Range(ColumnPairs(cur, des)), NEW t, NEW answer
  PROVE  /\ IsList(ResolveColumn(t, pair, answer))
         /\ \A op \in Range(ResolveColumn(t, pair, answer)) :
              /\ IsOp(op) /\ op.table = t
              /\ op.do \in {"dropColumn", "addColumn", "alterColumn", "renameColumn"}
              /\ \A c, d : ColumnWay(cur, des, answer, c, d) =>
                   /\ op.do \in {"dropColumn", "addColumn"} => op.column.name \notin {c, d}
                   /\ op.do = "renameColumn" =>
                        \/ op.from = c /\ op.to = d /\ c # d
                        \/ op.from \notin {c, d} /\ op.to \notin {c, d}
         /\ answer = "rename" =>
              ChangeOp("renameColumn", t, pair[1].name, pair[2].name)
                \in Range(ResolveColumn(t, pair, answer))
  <1> DEFINE pairs == ColumnPairs(cur, des)
             drop  == ColumnOp("dropColumn", t, pair[1])
             add   == ColumnOp("addColumn", t, pair[2])
             move  == ChangeOp("renameColumn", t, pair[1].name, pair[2].name)
             named == [pair[1] EXCEPT !.name = pair[2].name]
             alter == ChangeOp("alterColumn", t, named, pair[2])
             after == IF pair[1].rest = pair[2].rest THEN <<>> ELSE <<alter>>
             ops   == ResolveColumn(t, pair, answer)
  <1>1. /\ \A p \in Range(pairs) :
              /\ p[1] \in Range(cur.columns) /\ p[1].name \notin Names(des.columns)
              /\ p[2] \in Range(des.columns) /\ p[2].name \notin Names(cur.columns)
        /\ \A p, o \in Range(pairs) : p[1] = o[1] \/ p[2] = o[2] => p = o
    BY ColumnPairsFacts
  <1>2. /\ IsColumn(pair[1]) /\ IsColumn(pair[2])
        /\ pair[1].name \in Names(cur.columns) /\ pair[2].name \in Names(des.columns)
        /\ pair[1].name # pair[2].name
    BY <1>1, NamesFacts DEF IsTable
  <1>3. ops = IF answer = "rename" THEN <<move>> \o after ELSE <<drop, add>>
    BY DEF ResolveColumn
  <1>4. IsColumn(named)
    BY <1>2 DEF IsColumn
  <1>5. /\ IsList(ops)
        /\ answer # "rename" => Range(ops) = {drop, add}
        /\ answer = "rename" => Range(ops) \subseteq {move, alter} /\ move \in Range(ops)
    <2>1. IsList(after) /\ Range(after) \subseteq {alter}
      <3> HIDE DEF alter
      <3> QED BY SingleList, EmptyList
    <2> HIDE DEF after, move, drop, add, alter, ops
    <2>2. IsList(<<move>> \o after) /\ Range(<<move>> \o after) = {move} \cup Range(after)
      BY <2>1, SingleList, ConcatList
    <2> QED BY <1>3, <2>1, <2>2, PairList
  <1>6. /\ IsOp(drop) /\ IsOp(add) /\ IsOp(move) /\ IsOp(alter)
    <2> HIDE DEF named
    <2> QED BY <1>2, <1>4 DEF IsOp, ColumnOp, ChangeOp, OpKinds, ItemOps
  <1>7. /\ drop.table = t /\ add.table = t /\ move.table = t /\ alter.table = t
        /\ drop.do = "dropColumn" /\ add.do = "addColumn" /\ move.do = "renameColumn"
        /\ alter.do = "alterColumn" /\ drop.column = pair[1] /\ add.column = pair[2]
        /\ move.from = pair[1].name /\ move.to = pair[2].name
    BY DEF ColumnOp, ChangeOp
  <1>8. ASSUME NEW p \in Range(pairs)
        PROVE  /\ p[1].name = pair[1].name \/ p[2].name = pair[2].name => p = pair
               /\ p[1].name # pair[2].name /\ p[2].name # pair[1].name
    <2>1. /\ p[1] \in Range(cur.columns) /\ pair[1] \in Range(cur.columns)
          /\ p[2] \in Range(des.columns) /\ pair[2] \in Range(des.columns)
          /\ NamesDiffer(cur.columns) /\ NamesDiffer(des.columns)
      BY <1>1 DEF IsTable
    <2>2. /\ p[1].name = pair[1].name => p[1] = pair[1]
          /\ p[2].name = pair[2].name => p[2] = pair[2]
      BY <2>1, SameName
    <2>3. p[1].name \in Names(cur.columns) /\ p[2].name \in Names(des.columns)
      BY <2>1, NamesFacts
    <2> QED BY <1>1, <2>2, <2>3
  <1> HIDE DEF drop, add, move, alter, ops
  <1>9. ASSUME NEW c, NEW d, ColumnWay(cur, des, answer, c, d)
        PROVE  /\ answer # "rename" => pair[1].name \notin {c, d} /\ pair[2].name \notin {c, d}
               /\ \/ pair[1].name = c /\ pair[2].name = d
                  \/ pair[1].name \notin {c, d} /\ pair[2].name \notin {c, d}
    <2>1. CASE c = d /\ c \in Names(cur.columns) /\ c \in Names(des.columns)
      BY <1>1, <2>1
    <2>2. CASE answer = "rename" /\ \E p \in Range(pairs) : c = p[1].name /\ d = p[2].name
      BY <1>8, <2>2
    <2> QED BY <1>9, <2>1, <2>2 DEF ColumnWay
  <1>10. ASSUME NEW op \in Range(ops)
         PROVE  /\ IsOp(op) /\ op.table = t
                /\ op.do \in {"dropColumn", "addColumn", "alterColumn", "renameColumn"}
                /\ \A c, d : ColumnWay(cur, des, answer, c, d) =>
                     /\ op.do \in {"dropColumn", "addColumn"} => op.column.name \notin {c, d}
                     /\ op.do = "renameColumn" =>
                          \/ op.from = c /\ op.to = d /\ c # d
                          \/ op.from \notin {c, d} /\ op.to \notin {c, d}
    <2>1. IF answer = "rename" THEN op = move \/ op = alter ELSE op = drop \/ op = add
      BY <1>5
    <2>2. /\ IsOp(op) /\ op.table = t
          /\ op.do \in {"dropColumn", "addColumn", "alterColumn", "renameColumn"}
      BY <1>6, <1>7, <2>1
    <2>3. ASSUME NEW c, NEW d, ColumnWay(cur, des, answer, c, d)
          PROVE  /\ op.do \in {"dropColumn", "addColumn"} => op.column.name \notin {c, d}
                 /\ op.do = "renameColumn" =>
                          \/ op.from = c /\ op.to = d /\ c # d
                          \/ op.from \notin {c, d} /\ op.to \notin {c, d}
      <3>1. /\ answer # "rename" => pair[1].name \notin {c, d} /\ pair[2].name \notin {c, d}
            /\ \/ pair[1].name = c /\ pair[2].name = d
               \/ pair[1].name \notin {c, d} /\ pair[2].name \notin {c, d}
        BY <1>9, <2>3
      <3>2. CASE op = move
        BY <1>2, <1>7, <3>1, <3>2
      <3>3. CASE op = alter
        BY <1>7, <3>3
      <3>4. CASE answer # "rename" /\ op = drop
        BY <1>7, <3>1, <3>4
      <3>5. CASE answer # "rename" /\ op = add
        BY <1>7, <3>1, <3>5
      <3> QED BY <2>1, <3>2, <3>3, <3>4, <3>5
    <2> QED BY <2>2, <2>3
  <1> QED BY <1>5, <1>10 DEF ops, move

\* The answer for one pair of tables: what it drops, adds or renames.
LEMMA ResolveTableFacts ==
  ASSUME NEW from, NEW to, IsSchema(from), IsSchema(to),
         NEW pair \in Range(TablePairs(from, to)), NEW answer
  PROVE  /\ IsList(ResolveTable(pair, answer))
         /\ \A op \in Range(ResolveTable(pair, answer)) :
              /\ IsOp(op)
              /\ \A p, q : TableWay(from, to, answer, p, q) => Leaves(op, p, q)
         /\ answer = "rename" =>
              ChangeOp("renameTable", pair[1].name, pair[1].name, pair[2].name)
                \in Range(ResolveTable(pair, answer))
  <1> DEFINE pairs == TablePairs(from, to)
             def   == IF answer = "addAndDrop" THEN pair[2]
                      ELSE [pair[2] EXCEPT !.columns = <<>>, !.items = <<>>]
             drop  == TableOp("dropTable", pair[1])
             add   == TableOp("createTable", def)
             move  == ChangeOp("renameTable", pair[1].name, pair[1].name, pair[2].name)
             ops   == ResolveTable(pair, answer)
  <1>1. /\ \A p \in Range(pairs) :
              /\ p[1] \in Range(from) /\ p[1].name \notin Names(to)
              /\ p[2] \in Range(to) /\ p[2].name \notin Names(from)
        /\ \A p, o \in Range(pairs) : p[1] = o[1] \/ p[2] = o[2] => p = o
    BY TablePairsFacts
  <1>2. /\ IsTable(pair[1]) /\ IsTable(pair[2])
        /\ pair[1].name \in Names(from) /\ pair[2].name \in Names(to)
    BY <1>1, NamesFacts DEF IsSchema
  <1>3. IsTable(def) /\ def.name = pair[2].name
    <2>1. CASE answer = "addAndDrop"
      BY <1>2, <2>1
    <2>2. CASE answer # "addAndDrop"
      <3> DEFINE bare == [pair[2] EXCEPT !.columns = <<>>, !.items = <<>>]
      <3>1. /\ DOMAIN bare = DOMAIN pair[2] /\ bare.name = pair[2].name
            /\ bare.columns = <<>> /\ bare.items = <<>>
        BY <1>2 DEF IsTable
      <3>2. def = bare
        BY <2>2
      <3>3. NamesDiffer(<<>>)
        BY DEF NamesDiffer
      <3> HIDE DEF bare, def
      <3> QED BY <1>2, <3>1, <3>2, <3>3, EmptyList DEF IsTable
    <2> QED BY <2>1, <2>2
  <1>4. ops = IF answer = "rename" THEN <<move>> ELSE <<drop, add>>
    BY DEF ResolveTable
  <1> HIDE DEF def
  <1>5. /\ IsOp(drop) /\ IsOp(add) /\ IsOp(move)
    BY <1>2, <1>3 DEF IsOp, TableOp, ChangeOp, OpKinds, ItemOps
  <1>6. /\ drop.table = pair[1].name /\ add.table = pair[2].name
        /\ drop.do = "dropTable" /\ add.do = "createTable" /\ move.do = "renameTable"
        /\ move.table = pair[1].name /\ move.from = pair[1].name /\ move.to = pair[2].name
    BY <1>3 DEF TableOp, ChangeOp
  <1>7. ASSUME NEW p \in Range(pairs)
        PROVE  /\ p[1].name = pair[1].name \/ p[2].name = pair[2].name => p = pair
               /\ p[1].name # pair[2].name /\ p[2].name # pair[1].name
    <2>1. /\ p[1] \in Range(from) /\ pair[1] \in Range(from)
          /\ p[2] \in Range(to) /\ pair[2] \in Range(to)
          /\ NamesDiffer(from) /\ NamesDiffer(to)
      BY <1>1 DEF IsSchema
    <2>2. /\ p[1].name = pair[1].name => p[1] = pair[1]
          /\ p[2].name = pair[2].name => p[2] = pair[2]
      BY <2>1, SameName
    <2>3. p[1].name \in Names(from) /\ p[2].name \in Names(to)
      BY <2>1, NamesFacts
    <2> QED BY <1>1, <2>2, <2>3
  <1> HIDE DEF drop, add, move, ops
  <1>8. ASSUME NEW p, NEW q, TableWay(from, to, answer, p, q)
        PROVE  /\ answer # "rename" => pair[1].name \notin {p[1], q[1]} /\ pair[2].name \notin {p[1], q[1]}
               /\ \/ pair[1].name = p[1] /\ pair[2].name = q[1] /\ p[1] # q[1]
                  \/ pair[1].name \notin {p[1], q[1]} /\ pair[2].name \notin {p[1], q[1]}
    <2>1. CASE p[1] = q[1] /\ p[1] \in Names(from) /\ p[1] \in Names(to)
      BY <1>1, <2>1
    <2>2. CASE answer = "rename" /\ \E o \in Range(pairs) : p[1] = o[1].name /\ q[1] = o[2].name
      BY <1>1, <1>2, <1>7, <2>2
    <2> QED BY <1>8, <2>1, <2>2 DEF TableWay
  <1>9. ASSUME NEW op \in Range(ops)
        PROVE  /\ IsOp(op)
               /\ \A p, q : TableWay(from, to, answer, p, q) => Leaves(op, p, q)
    <2>1. CASE answer = "rename"
      <3>1. op = move
        BY <1>4, <2>1, SingleList
      <3>2. ASSUME NEW p, NEW q, TableWay(from, to, answer, p, q) PROVE Leaves(op, p, q)
        BY <1>6, <1>8, <3>1, <3>2 DEF Leaves, IsMove
      <3> QED BY <1>5, <3>1, <3>2
    <2>2. CASE answer # "rename"
      <3>1. op \in {drop, add}
        BY <1>4, <2>2, PairList
      <3>2. ASSUME NEW p, NEW q, TableWay(from, to, answer, p, q) PROVE Leaves(op, p, q)
        BY <1>6, <1>8, <2>2, <3>1, <3>2 DEF Leaves
      <3> QED BY <1>5, <3>1, <3>2
    <2> QED BY <2>1, <2>2
  <1>10. IsList(ops) /\ (answer = "rename" => move \in Range(ops))
    BY <1>4, SingleList, PairList
  <1> QED BY <1>9, <1>10 DEF ops, move

(***************************************************************************)
(* The operations of a workload, resolved, sorted and with the forward     *)
(* references moved: none is lost and none is added that matters.          *)
(***************************************************************************)

\* The operations that resolve what is renamed, and the renames among them.
LEMMA ResolutionsFacts ==
  ASSUME NEW from, NEW to, IsSchema(from), IsSchema(to), NEW answer
  PROVE  /\ IsList(Resolutions(from, to, answer))
         /\ \A op \in Range(Resolutions(from, to, answer)) :
              /\ IsOp(op)
              /\ \A p, q : TableWay(from, to, answer, p, q) => Leaves(op, p, q)
         /\ \A p, q : TableWay(from, to, answer, p, q) /\ (p[1] # q[1] \/ p[2] # q[2]) =>
              \E op \in Range(Resolutions(from, to, answer)) : IsMove(op, p, q)
  <1> DEFINE pairs == TablePairs(from, to)
             kept  == Kept(from, to)
             ps(t) == ColumnPairs(Named(from, t.name), t)
             list(t) == [i \in DOMAIN ps(t) |-> ResolveColumn(t.name, ps(t)[i], answer)]
             columns(t) == FlattenSeq(list(t))
             ss1 == [i \in DOMAIN pairs |-> ResolveTable(pairs[i], answer)]
             ss2 == [i \in DOMAIN kept |-> columns(kept[i])]
             s1  == FlattenSeq(ss1)
             s2  == FlattenSeq(ss2)
  <1>0. Resolutions(from, to, answer) = s1 \o s2
    BY DEF Resolutions
  <1>1. /\ IsList(from) /\ NamesDiffer(from) /\ IsList(to) /\ NamesDiffer(to)
        /\ \A t \in Range(from) \cup Range(to) : IsTable(t)
    BY DEF IsSchema
  <1>2. IsList(pairs)
    BY TablePairsFacts
  <1>3. IsList(kept) /\ \A x : x \in Range(kept) <=> x \in Range(to) /\ x.name \in Names(from)
    BY <1>1, AmongList DEF Kept
  <1> HIDE DEF kept, pairs
  <1>4. /\ IsList(s1)
        /\ \A op : op \in Range(s1) <=> \E pair \in Range(pairs) : op \in Range(ResolveTable(pair, answer))
    <2>1. IsList(ss1) /\ DOMAIN ss1 = DOMAIN pairs
      BY <1>2, MapList
    <2>2. \A i \in DOMAIN pairs : pairs[i] \in Range(pairs) /\ ss1[i] = ResolveTable(pairs[i], answer)
      BY DEF Range
    <2>3. \A pair \in Range(pairs) : \E i \in DOMAIN pairs : pairs[i] = pair
      BY DEF Range
    <2> HIDE DEF ss1
    <2>4. \A i \in DOMAIN ss1 : IsList(ss1[i])
      BY <2>1, <2>2, ResolveTableFacts DEF pairs
    <2>5. IsList(s1) /\ \A x : x \in Range(s1) <=> \E i \in DOMAIN ss1 : x \in Range(ss1[i])
      BY <2>1, <2>4, FlattenList
    <2> HIDE DEF s1
    <2> QED BY <2>1, <2>2, <2>3, <2>5
  <1>5. ASSUME NEW t \in Range(kept)
        PROVE  /\ IsTable(Named(from, t.name)) /\ IsTable(t) /\ IsList(columns(t))
               /\ \A op : op \in Range(columns(t))
                          <=> \E pair \in Range(ps(t)) : op \in Range(ResolveColumn(t.name, pair, answer))
    <2> DEFINE cur == Named(from, t.name)
    <2>1. IsTable(cur) /\ IsTable(t)
      BY <1>1, <1>3, NamedFacts
    <2>2. ps(t) = ColumnPairs(cur, t) /\ IsList(ps(t))
      BY <2>1, ColumnPairsFacts
    <2>3. IsList(list(t)) /\ DOMAIN list(t) = DOMAIN ps(t)
      BY <2>2, MapList
    <2>4. \A i \in DOMAIN ps(t) : /\ ps(t)[i] \in Range(ps(t))
                                  /\ list(t)[i] = ResolveColumn(t.name, ps(t)[i], answer)
      BY DEF Range
    <2>5. \A pair \in Range(ps(t)) : \E i \in DOMAIN ps(t) : ps(t)[i] = pair
      BY DEF Range
    <2> HIDE DEF cur, ps, list
    <2>6. \A i \in DOMAIN list(t) : IsList(list(t)[i])
      BY <2>1, <2>2, <2>3, <2>4, ResolveColumnFacts
    <2>7. /\ IsList(columns(t))
          /\ \A x : x \in Range(columns(t)) <=> \E i \in DOMAIN list(t) : x \in Range(list(t)[i])
      BY <2>3, <2>6, FlattenList
    <2> HIDE DEF columns
    <2> QED BY <2>1, <2>3, <2>4, <2>5, <2>7 DEF cur
  <1> HIDE DEF columns
  <1>6. /\ IsList(s2)
        /\ \A op : op \in Range(s2) <=> \E t \in Range(kept) : op \in Range(columns(t))
    <2>1. IsList(ss2) /\ DOMAIN ss2 = DOMAIN kept
      BY <1>3, MapList
    <2>2. \A i \in DOMAIN kept : kept[i] \in Range(kept) /\ ss2[i] = columns(kept[i])
      BY DEF Range
    <2>3. \A t \in Range(kept) : \E i \in DOMAIN kept : kept[i] = t
      BY DEF Range
    <2> HIDE DEF ss2
    <2>4. \A i \in DOMAIN ss2 : IsList(ss2[i])
      BY <1>5, <2>1, <2>2
    <2>5. IsList(s2) /\ \A x : x \in Range(s2) <=> \E i \in DOMAIN ss2 : x \in Range(ss2[i])
      BY <2>1, <2>4, FlattenList
    <2> HIDE DEF s2
    <2> QED BY <2>1, <2>2, <2>3, <2>5
  <1> HIDE DEF s1, s2
  <1>7. IsList(s1 \o s2) /\ Range(s1 \o s2) = Range(s1) \cup Range(s2)
    BY <1>4, <1>6, ConcatList
  <1>8. ASSUME NEW op \in Range(s1)
        PROVE  IsOp(op) /\ \A p, q : TableWay(from, to, answer, p, q) => Leaves(op, p, q)
    BY <1>4, ResolveTableFacts DEF pairs
  <1>9. ASSUME NEW op \in Range(s2)
        PROVE  IsOp(op) /\ \A p, q : TableWay(from, to, answer, p, q) => Leaves(op, p, q)
    <2>1. PICK t \in Range(kept) : op \in Range(columns(t))
      BY <1>6
    <2>2. PICK pair \in Range(ps(t)) : op \in Range(ResolveColumn(t.name, pair, answer))
      BY <1>5, <2>1
    <2> DEFINE cur == Named(from, t.name)
    <2>3. /\ t \in Range(to) /\ t.name \in Names(from) /\ t.name \in Names(to)
          /\ t = Named(to, t.name) /\ IsTable(cur) /\ IsTable(t)
      BY <1>1, <1>3, <1>5, NamedFacts, NamesFacts
    <2>4. /\ IsOp(op) /\ op.table = t.name
          /\ op.do \in {"dropColumn", "addColumn", "alterColumn", "renameColumn"}
          /\ \A c, d : ColumnWay(cur, t, answer, c, d) =>
               /\ op.do \in {"dropColumn", "addColumn"} => op.column.name \notin {c, d}
               /\ op.do = "renameColumn" =>
                    \/ op.from = c /\ op.to = d /\ c # d
                    \/ op.from \notin {c, d} /\ op.to \notin {c, d}
      BY <2>2, <2>3, ResolveColumnFacts
    <2>5. ASSUME NEW p, NEW q, TableWay(from, to, answer, p, q)
          PROVE  Leaves(op, p, q)
      <3>1. CASE p[1] # q[1]
        <4>1. op.table \notin {p[1], q[1]}
          BY <2>3, <2>4, <2>5, <3>1, WayFacts
        <4> QED BY <2>4, <4>1 DEF Leaves
      <3>2. CASE p[1] = q[1]
        <4>1. op.table = p[1] => ColumnWay(cur, t, answer, p[2], q[2])
          <5>1. p[1] \in Names(from) /\ p[1] \in Names(to)
            BY <2>5, <3>2, WayFacts
          <5>2. ~(\E o \in Range(TablePairs(from, to)) : p[1] = o[1].name /\ q[1] = o[2].name)
            BY <3>2, <5>1, TablePairsFacts
          <5> QED BY <2>3, <2>4, <2>5, <5>2 DEF TableWay
        <4>2. op.table = p[1] =>
                /\ op.do \in {"dropColumn", "addColumn"} => op.column.name \notin {p[2], q[2]}
                /\ op.do = "renameColumn" =>
                     \/ op.from = p[2] /\ op.to = q[2] /\ p[2] # q[2]
                     \/ op.from \notin {p[2], q[2]} /\ op.to \notin {p[2], q[2]}
          BY <2>4, <4>1
        <4> QED BY <2>4, <3>2, <4>2 DEF Leaves, IsMove
      <3> QED BY <3>1, <3>2
    <2> QED BY <2>4, <2>5
  <1>10. ASSUME NEW p, NEW q, TableWay(from, to, answer, p, q), p[1] # q[1] \/ p[2] # q[2]
         PROVE  \E op \in Range(s1) \cup Range(s2) : IsMove(op, p, q)
    <2>1. CASE p[1] = q[1]
      <3>1. p[1] \in Names(from) /\ p[1] \in Names(to)
        BY <1>10, <2>1, WayFacts
      <3> DEFINE cur == Named(from, p[1])  t == Named(to, p[1])
      <3>2. ~(\E o \in Range(TablePairs(from, to)) : p[1] = o[1].name /\ q[1] = o[2].name)
        BY <2>1, <3>1, TablePairsFacts
      <3>3. t.name = p[1] /\ t \in Range(kept) /\ IsTable(cur) /\ IsTable(t)
        BY <1>1, <1>3, <3>1, NamedFacts
      <3>4. ps(t) = ColumnPairs(cur, t)
        BY <3>3
      <3>5. answer = "rename" /\ \E pair \in Range(ps(t)) : p[2] = pair[1].name /\ q[2] = pair[2].name
        BY <1>10, <2>1, <3>2, <3>4 DEF TableWay, ColumnWay
      <3> HIDE DEF t, cur, ps
      <3>6. PICK pair \in Range(ps(t)) : p[2] = pair[1].name /\ q[2] = pair[2].name
        BY <3>5
      <3> DEFINE op == ChangeOp("renameColumn", t.name, pair[1].name, pair[2].name)
      <3>7. op \in Range(ResolveColumn(t.name, pair, answer))
        BY <3>3, <3>4, <3>5, <3>6, ResolveColumnFacts
      <3>8. IsMove(op, p, q)
        BY <1>10, <2>1, <3>3, <3>6 DEF IsMove, ChangeOp
      <3> HIDE DEF op
      <3>9. op \in Range(columns(t))
        BY <1>5, <3>3, <3>6, <3>7
      <3>10. op \in Range(s2)
        BY <1>6, <3>3, <3>9
      <3> QED BY <3>8, <3>10
    <2>2. CASE p[1] # q[1]
      <3>1. answer = "rename" /\ \E pair \in Range(pairs) : p[1] = pair[1].name /\ q[1] = pair[2].name
        BY <1>10, <2>2 DEF TableWay, pairs
      <3>2. PICK pair \in Range(pairs) : p[1] = pair[1].name /\ q[1] = pair[2].name
        BY <3>1
      <3> DEFINE op == ChangeOp("renameTable", pair[1].name, pair[1].name, pair[2].name)
      <3>3. op \in Range(ResolveTable(pair, answer))
        BY <3>1, ResolveTableFacts DEF pairs
      <3>4. IsMove(op, p, q)
        BY <2>2, <3>2 DEF IsMove, ChangeOp
      <3> HIDE DEF op
      <3> QED BY <1>4, <3>3, <3>4
    <2> QED BY <2>1, <2>2
  <1> QED BY <1>0, <1>7, <1>8, <1>9, <1>10

\* Sorting keeps all operations, whichever index drops wait.
LEMMA SortKeeps ==
  ASSUME NEW ops, IsList(ops), \A op \in Range(ops) : IsOp(op)
  PROVE  IsList(SortOperations(ops)) /\ Range(SortOperations(ops)) = Range(ops)
  <1> DEFINE slot(op) == IF Superseded(ops, op) THEN "supersededIndexDrop" ELSE op.do
             class(i) == Among(ops, {op \in Range(ops) : slot(op) = Order[i]})
             ss == [i \in DOMAIN Order |-> class(i)]
  <1>0. SortOperations(ops) = FlattenSeq(ss)
    BY DEF SortOperations
  <1>1. IsList(Order) /\ DOMAIN Order = 1..16
    BY DEF Order, IsList, Range
  <1>2. \A i \in DOMAIN Order :
          IsList(class(i)) /\ Range(class(i)) = {op \in Range(ops) : slot(op) = Order[i]}
    <2> HIDE DEF slot
    <2> QED BY AmongList
  <1> HIDE DEF class
  <1>3. IsList(ss) /\ DOMAIN ss = DOMAIN Order
    BY <1>1, MapList
  <1>4. \A i \in DOMAIN ss : IsList(ss[i])
    BY <1>2, <1>3
  <1>5. /\ IsList(FlattenSeq(ss))
        /\ \A op : op \in Range(FlattenSeq(ss)) <=> \E i \in DOMAIN ss : op \in Range(ss[i])
    BY <1>3, <1>4, FlattenList
  <1>6. \A do \in OpKinds \cup {"supersededIndexDrop"} : \E i \in DOMAIN Order : Order[i] = do
    <2>1. \A i \in 1..16 : i \in DOMAIN Order
      BY <1>1
    <2>2. /\ Order[1] = "dropForeignKey" /\ Order[2] = "dropIndex" /\ Order[3] = "dropUniqueConstraint"
          /\ Order[4] = "dropPrimaryKey" /\ Order[5] = "dropColumn" /\ Order[6] = "dropTable"
          /\ Order[7] = "createTable" /\ Order[8] = "addColumn" /\ Order[9] = "alterColumn"
          /\ Order[10] = "renameTable" /\ Order[11] = "renameColumn" /\ Order[12] = "addPrimaryKey"
          /\ Order[13] = "addUniqueConstraint" /\ Order[14] = "createIndex"
          /\ Order[15] = "supersededIndexDrop" /\ Order[16] = "addForeignKey"
      BY DEF Order
    <2> QED BY <2>1, <2>2 DEF OpKinds, ItemOps
  <1>7. ASSUME NEW op \in Range(ops) PROVE \E i \in DOMAIN Order : slot(op) = Order[i]
    BY <1>6 DEF IsOp
  <1> HIDE DEF slot
  <1>8. \A op : op \in Range(FlattenSeq(ss)) <=> op \in Range(ops)
    BY <1>2, <1>3, <1>5, <1>7
  <1> QED BY <1>0, <1>5, <1>8

\* Moving foreign keys out of the tables that are created first.
LEMMA ExtractKeeps ==
  ASSUME NEW dialect, NEW ops, IsList(ops), \A op \in Range(ops) : IsOp(op)
  PROVE  LET after == ExtractForwardReferenceForeignKeys(dialect, ops) IN
         /\ IsList(after)
         /\ \A op \in Range(after) :
              /\ IsOp(op)
              /\ \A p, q : (\A o \in Range(ops) : Leaves(o, p, q)) => Leaves(op, p, q)
         /\ \A op \in Range(ops) : op.do # "createTable" => op \in Range(after)
  <1> DEFINE items(i) == ops[i].def.items
             forward(i) == Among(ops[i].def.items, {k \in Range(ops[i].def.items) :
               k.kind = "fk" /\ \E j \in DOMAIN ops :
                 j > i /\ ops[j].do = "createTable" /\ ops[j].table = k.to[1]})
             rest(i) == Among(items(i), Range(items(i)) \ Range(forward(i)))
             create(i) == [ops[i] EXCEPT !.def.items = rest(i)]
             positions == [i \in DOMAIN ops |-> i]
             created == Among(positions, {i \in DOMAIN ops : ops[i].do = "createTable"})
             lifted(i) == [j \in DOMAIN forward(i) |->
                             ItemOp("addForeignKey", ops[i].table, forward(i)[j])]
             s1 == [i \in DOMAIN ops |-> IF ops[i].do = "createTable" THEN create(i) ELSE ops[i]]
             ss == [i \in DOMAIN created |-> lifted(created[i])]
             s2 == FlattenSeq(ss)
             after == ExtractForwardReferenceForeignKeys(dialect, ops)
             Fine(op) == /\ IsOp(op)
                         /\ \A p, q : (\A o \in Range(ops) : Leaves(o, p, q)) => Leaves(op, p, q)
  <1>1. CASE dialect = "sqlite"
    BY <1>1 DEF ExtractForwardReferenceForeignKeys
  <1>2. CASE dialect # "sqlite"
    <2>0. after = s1 \o s2
      BY <1>2 DEF ExtractForwardReferenceForeignKeys
    <2>1. Len(ops) \in Nat /\ DOMAIN ops = 1..Len(ops)
      BY ListElements
    <2>2. \A i \in DOMAIN ops : ops[i] \in Range(ops)
      BY DEF Range
    <2>3. ASSUME NEW i \in DOMAIN ops, ops[i].do = "createTable"
          PROVE  /\ Fine(create(i)) /\ IsList(forward(i))
                 /\ \A k \in Range(forward(i)) : Fine(ItemOp("addForeignKey", ops[i].table, k))
      <3> DEFINE def == ops[i].def
      <3>1. /\ DOMAIN ops[i] = {"do", "table", "def"} /\ ops[i].table = def.name /\ IsTable(def)
        BY <2>2, <2>3 DEF IsOp
      <3>2. IsList(forward(i)) /\ Range(forward(i)) \subseteq Range(def.items)
        BY <3>1, AmongList DEF IsTable
      <3> HIDE DEF forward
      <3>3. IsList(rest(i)) /\ Range(rest(i)) \subseteq Range(def.items)
        BY <3>1, AmongList DEF IsTable
      <3> HIDE DEF rest
      <3> DEFINE new == [def EXCEPT !.items = rest(i)]
      <3>4. /\ DOMAIN new = DOMAIN def /\ new.name = def.name /\ new.columns = def.columns
            /\ new.items = rest(i)
        BY <3>1 DEF IsTable
      <3>5. /\ DOMAIN create(i) = DOMAIN ops[i] /\ create(i).do = ops[i].do
            /\ create(i).table = ops[i].table /\ create(i).def = new
        <4> HIDE DEF def
        <4>1. create(i) = [ops[i] EXCEPT !.def = new]
          BY DEF def
        <4> HIDE DEF new, create
        <4> QED BY <3>1, <4>1
      <3> HIDE DEF new, create, def
      <3>6. IsTable(new)
        BY <3>1, <3>3, <3>4 DEF IsTable
      <3>7. IsOp(create(i))
        BY <2>3, <3>1, <3>4, <3>5, <3>6 DEF IsOp, OpKinds, ItemOps
      <3>8. Fine(create(i))
        BY <2>2, <2>3, <3>5, <3>7 DEF Leaves
      <3>9. ASSUME NEW k \in Range(forward(i)) PROVE Fine(ItemOp("addForeignKey", ops[i].table, k))
        <4> DEFINE op == ItemOp("addForeignKey", ops[i].table, k)
        <4>1. op.do = "addForeignKey" /\ op.table = ops[i].table /\ op.item = k
          BY DEF ItemOp
        <4> HIDE DEF op
        <4>2. k.kind \in Kinds
          BY <3>1, <3>2 DEF IsTable
        <4>3. IsOp(op)
          BY <4>1, <4>2 DEF IsOp, OpKinds, ItemOps
        <4>4. ASSUME NEW p, NEW q, \A o \in Range(ops) : Leaves(o, p, q)
              PROVE  Leaves(op, p, q)
          <5>1. op.table \notin {p[1], q[1]}
            BY <2>2, <2>3, <4>1, <4>4 DEF Leaves
          <5> QED BY <4>1, <5>1 DEF Leaves
        <4> QED BY <4>3, <4>4 DEF op
      <3> QED BY <3>2, <3>8, <3>9
    <2> HIDE DEF create, forward, Fine
    <2>4. /\ IsList(s1) /\ \A op \in Range(s1) : Fine(op)
          /\ \A op \in Range(ops) : op.do # "createTable" => op \in Range(s1)
      <3>1. /\ IsList(s1) /\ DOMAIN s1 = DOMAIN ops
            /\ \A y \in Range(s1) : \E i \in DOMAIN ops : y = s1[i]
            /\ \A i \in DOMAIN ops : s1[i] \in Range(s1)
        <4> DEFINE place(i) == IF ops[i].do = "createTable" THEN create(i) ELSE ops[i]
        <4>1. s1 = [i \in DOMAIN ops |-> place(i)]
          OBVIOUS
        <4> HIDE DEF place, s1
        <4>2. s1 = [i \in DOMAIN ops |-> s1[i]]
          BY <4>1
        <4> QED BY <4>2, MapList
      <3>2. \A i \in DOMAIN ops : s1[i] = IF ops[i].do = "createTable" THEN create(i) ELSE ops[i]
        OBVIOUS
      <3>3. \A op \in Range(ops) : \E i \in DOMAIN ops : op = ops[i]
        BY DEF Range
      <3>4. \A op \in Range(ops) : Fine(op)
        BY DEF Fine
      <3> HIDE DEF s1
      <3> QED BY <2>2, <2>3, <3>1, <3>2, <3>3, <3>4
    <2>5. IsList(created) /\ \A i \in Range(created) : i \in DOMAIN ops /\ ops[i].do = "createTable"
      <3>1. IsList(positions)
        BY MapList
      <3> HIDE DEF positions
      <3> QED BY <3>1, AmongList
    <2> HIDE DEF created
    <2>6. \A i \in Range(created) : IsList(lifted(i)) /\ \A op \in Range(lifted(i)) : Fine(op)
      <3> SUFFICES ASSUME NEW i \in Range(created)
                   PROVE  IsList(lifted(i)) /\ \A op \in Range(lifted(i)) : Fine(op)
        OBVIOUS
      <3>1. /\ IsList(forward(i))
            /\ \A k \in Range(forward(i)) : Fine(ItemOp("addForeignKey", ops[i].table, k))
        BY <2>3, <2>5
      <3> DEFINE l == lifted(i)
      <3>2. \A j \in DOMAIN forward(i) : /\ forward(i)[j] \in Range(forward(i))
                                         /\ l[j] = ItemOp("addForeignKey", ops[i].table, forward(i)[j])
        BY DEF Range
      <3>3. IsList(l) /\ \A y \in Range(l) : \E j \in DOMAIN forward(i) : y = l[j]
        BY <3>1, MapList
      <3> HIDE DEF l
      <3>4. IsList(l) /\ \A op \in Range(l) : Fine(op)
        BY <3>1, <3>2, <3>3
      <3> QED BY <3>4 DEF l
    <2> HIDE DEF lifted
    <2>7. IsList(s2) /\ \A op \in Range(s2) : Fine(op)
      <3>1. IsList(ss) /\ DOMAIN ss = DOMAIN created
        BY <2>5, MapList
      <3>2. \A i \in DOMAIN created : created[i] \in Range(created) /\ ss[i] = lifted(created[i])
        BY DEF Range
      <3> HIDE DEF ss
      <3>3. \A i \in DOMAIN ss : IsList(ss[i])
        BY <2>6, <3>1, <3>2
      <3>4. IsList(s2) /\ \A x : x \in Range(s2) => \E i \in DOMAIN ss : x \in Range(ss[i])
        BY <3>1, <3>3, FlattenList
      <3> HIDE DEF s2
      <3> QED BY <2>6, <3>1, <3>2, <3>4
    <2> HIDE DEF s1, s2, after
    <2>8. IsList(after) /\ Range(after) = Range(s1) \cup Range(s2)
      BY <2>0, <2>4, <2>7, ConcatList
    <2> QED BY <2>4, <2>7, <2>8 DEF Fine, after
  <1> QED BY <1>1, <1>2

\* The script of every workload carries every column there that both schemas have.
THEOREM OperationsCarry ==
  ASSUME NEW w, IsSchema(Schema(w.from)), IsSchema(Schema(w.to)),
         NEW p, NEW q, p = <<p[1], p[2]>>, q = <<q[1], q[2]>>,
         TableWay(Schema(w.from), Schema(w.to), w.answer, p, q)
  PROVE  Carries(Operations(w), p, q)
  <1> DEFINE from == Schema(w.from)
             to   == Schema(w.to)
             s1   == Diff(from, to)
             s2   == SortOperations(s1)
             s3   == Resolutions(from, to, w.answer)
             s4   == s2 \o s3
             s5   == SortOperations(s4)
             ops  == Operations(w)
  <1>0. ops = ExtractForwardReferenceForeignKeys(w.dialect, s5)
    BY DEF Operations
  <1>1. IsList(s1) /\ \A op \in Range(s1) : IsOp(op) /\ Leaves(op, p, q)
    BY DiffFacts, DiffLeaves
  <1>2. /\ IsList(s3) /\ \A op \in Range(s3) : IsOp(op) /\ Leaves(op, p, q)
        /\ p[1] # q[1] \/ p[2] # q[2] => \E op \in Range(s3) : IsMove(op, p, q)
    BY ResolutionsFacts
  <1>3. IsWay(p, q)
    BY WayFacts
  <1> HIDE DEF s1, s3, from, to
  <1>4. IsList(s2) /\ Range(s2) = Range(s1)
    BY <1>1, SortKeeps
  <1> HIDE DEF s2
  <1>5. IsList(s4) /\ Range(s4) = Range(s1) \cup Range(s3)
    BY <1>2, <1>4, ConcatList
  <1> HIDE DEF s4
  <1>6. IsList(s5) /\ Range(s5) = Range(s1) \cup Range(s3)
    BY <1>1, <1>2, <1>5, SortKeeps
  <1>7. \A op \in Range(s5) : IsOp(op) /\ Leaves(op, p, q)
    BY <1>1, <1>2, <1>6
  <1> HIDE DEF s5
  <1>8. /\ IsList(ops) /\ \A op \in Range(ops) : IsOp(op) /\ Leaves(op, p, q)
        /\ \A op \in Range(s5) : op.do # "createTable" => op \in Range(ops)
    <2> HIDE DEF ops
    <2> QED BY <1>0, <1>6, <1>7, ExtractKeeps
  <1> HIDE DEF ops
  <1>9. \A op : IsMove(op, p, q) => op.do # "createTable"
    BY DEF IsMove
  <1>10. p # q => \E op \in Range(ops) : IsMove(op, p, q)
    BY <1>2, <1>6, <1>8, <1>9
  <1> QED BY <1>3, <1>8, <1>10 DEF Carries, ops

(***************************************************************************)
(* The invariant.                                                          *)
(***************************************************************************)

\* A column survives as a column of both schemas, or as one taken for renamed.
LEMMA SurvivingWays ==
  ASSUME work \in Workloads, NEW s, s \in Surviving
  PROVE  LET p == s[1]  q == s[2] IN
         /\ p = <<p[1], p[2]>> /\ q = <<q[1], q[2]>>
         /\ TableWay(Schema(work.from), Schema(work.to), work.answer, p, q)
  <1> DEFINE from == Schema(work.from)
             to   == Schema(work.to)
             both == {<<Named(from, t), Named(to, t)>> : t \in Names(from) \cap Names(to)}
             renamed(pairs) == IF work.answer = "rename" THEN Range(pairs) ELSE {}
             all  == both \cup renamed(TablePairs(from, to))
             kept(o) == {<<<<o[1].name, c>>, <<o[2].name, c>>>> :
                           c \in Names(o[1].columns) \cap Names(o[2].columns)}
             moved(o) == {<<<<o[1].name, c[1].name>>, <<o[2].name, c[2].name>>>> :
                            c \in renamed(ColumnPairs(o[1], o[2]))}
  <1>1. IsSchema(from) /\ IsSchema(to)
    BY WorkloadsAssumption, SchemaFacts
  <1>2. Surviving = (UNION {kept(o) : o \in all}) \cup UNION {moved(o) : o \in both}
    BY DEF Surviving
  <1>3. ASSUME NEW o \in both
        PROVE  \E t \in Names(from) \cap Names(to) :
                 o = <<Named(from, t), Named(to, t)>> /\ o[1].name = t /\ o[2].name = t
    BY <1>1, NamedFacts DEF IsSchema
  <1> HIDE DEF from, to, both
  <1>4. CASE \E o \in both : s \in kept(o)
    <2>1. PICK o \in both : s \in kept(o)
      BY <1>4
    <2>2. PICK c \in Names(o[1].columns) \cap Names(o[2].columns) :
            s = <<<<o[1].name, c>>, <<o[2].name, c>>>>
      BY <2>1
    <2>3. PICK t \in Names(from) \cap Names(to) :
            o = <<Named(from, t), Named(to, t)>> /\ o[1].name = t /\ o[2].name = t
      BY <1>3
    <2>4. TableWay(from, to, work.answer, <<t, c>>, <<t, c>>)
      BY <2>2, <2>3 DEF TableWay, ColumnWay
    <2>5. s[1] = <<t, c>> /\ s[2] = <<t, c>>
      BY <2>2, <2>3
    <2> QED BY <2>4, <2>5 DEF from, to
  <1>5. CASE \E o \in both : s \in moved(o)
    <2>1. PICK o \in both : s \in moved(o)
      BY <1>5
    <2>2. PICK c \in renamed(ColumnPairs(o[1], o[2])) :
            s = <<<<o[1].name, c[1].name>>, <<o[2].name, c[2].name>>>>
      BY <2>1
    <2>3. PICK t \in Names(from) \cap Names(to) :
            o = <<Named(from, t), Named(to, t)>> /\ o[1].name = t /\ o[2].name = t
      BY <1>3
    <2>4. work.answer = "rename" /\ c \in Range(ColumnPairs(Named(from, t), Named(to, t)))
      BY <2>2, <2>3
    <2>5. TableWay(from, to, work.answer, <<t, c[1].name>>, <<t, c[2].name>>)
      BY <2>3, <2>4 DEF TableWay, ColumnWay
    <2>6. s[1] = <<t, c[1].name>> /\ s[2] = <<t, c[2].name>>
      BY <2>2, <2>3
    <2> QED BY <2>5, <2>6 DEF from, to
  <1>6. CASE \E o \in renamed(TablePairs(from, to)) : s \in kept(o)
    <2>1. PICK o \in renamed(TablePairs(from, to)) : s \in kept(o)
      BY <1>6
    <2>2. PICK c \in Names(o[1].columns) \cap Names(o[2].columns) :
            s = <<<<o[1].name, c>>, <<o[2].name, c>>>>
      BY <2>1
    <2>3. work.answer = "rename" /\ o \in Range(TablePairs(from, to))
      BY <2>1
    <2>4. TableWay(from, to, work.answer, <<o[1].name, c>>, <<o[2].name, c>>)
      BY <2>2, <2>3 DEF TableWay
    <2>5. s[1] = <<o[1].name, c>> /\ s[2] = <<o[2].name, c>>
      BY <2>2
    <2> QED BY <2>4, <2>5 DEF from, to
  <1>7. \/ \E o \in all : s \in kept(o)
        \/ \E o \in both : s \in moved(o)
    <2> HIDE DEF kept, moved, all
    <2> QED BY <1>2
  <1> HIDE DEF kept, moved, renamed
  <1> QED BY <1>4, <1>5, <1>6, <1>7

Ops == Operations(work)

\* Every column that survives is where the statements that ran have put it, with its values.
Upwards(s)   == /\ at \in 1..(Len(Ops) + 1)
                /\ Keeping(Now(Ops, at - 1, s[1], s[2]), s[1], tables)
Downwards(s) == /\ at \in 1..(Len(Ops) + 1)
                /\ Keeping(Now(InvertOperations(Ops), at - 1, s[2], s[1]), s[1], tables)

Tracked ==
  /\ work \in Workloads
  /\ pc \in {"generate", "up", "applied", "down", "reverted", "failed"}
  /\ pc = "up"   => script = UpScript(work)
  /\ pc = "down" => script = DownScript(work)
  /\ \A s \in Surviving :
       /\ pc = "generate" => at = 1 /\ Keeping(s[1], s[1], tables)
       /\ pc = "up"       => Upwards(s)
       /\ pc = "applied"  => Keeping(s[2], s[1], tables)
       /\ pc = "down"     => Downwards(s)
       /\ pc = "reverted" => Keeping(s[1], s[1], tables)

\* Both scripts carry every surviving column, the one there and the other back.
LEMMA SurvivingCarried ==
  ASSUME work \in Workloads, NEW s, s \in Surviving
  PROVE  /\ IsSchema(Schema(work.from)) /\ IsSchema(Schema(work.to))
         /\ Carries(Ops, s[1], s[2]) /\ Carries(InvertOperations(Ops), s[2], s[1])
         /\ StartsAt(Schema(work.from), s[1]) /\ StartsAt(Schema(work.to), s[2])
  <1>1. IsSchema(Schema(work.from)) /\ IsSchema(Schema(work.to))
    BY WorkloadsAssumption, SchemaFacts
  <1>2. Carries(Ops, s[1], s[2])
    BY <1>1, SurvivingWays, OperationsCarry DEF Ops
  <1>3. StartsAt(Schema(work.from), s[1]) /\ StartsAt(Schema(work.to), s[2])
    BY <1>1, SurvivingWays, WayFacts
  <1> QED BY <1>1, <1>2, <1>3, InvertedCarries

\* In the populated database every column holds its own values.
LEMMA TrackedInit == Init => Tracked
  <1> SUFFICES ASSUME Init PROVE Tracked
    OBVIOUS
  <1>1. /\ work \in Workloads /\ pc = "generate" /\ at = 1
        /\ tables = {Populated(t) : t \in Range(Schema(work.from))}
    BY DEF Init
  <1>2. ASSUME NEW s \in Surviving PROVE Keeping(s[1], s[1], tables)
    <2> DEFINE from == Schema(work.from)  p == s[1]
               cols(t) == {Stored(c, <<t.name, c.name>>) : c \in Range(t.columns)}
    <2>1. IsSchema(from) /\ StartsAt(from, p) /\ p = <<p[1], p[2]>>
      BY <1>1, SurvivingCarried, SurvivingWays
    <2> HIDE DEF from, p
    <2>2. ASSUME NEW t \in Range(from)
          PROVE  IsStored(Populated(t)) /\ Populated(t).name = t.name /\ Populated(t).columns = cols(t)
      <3> DEFINE v == Populated(t)
      <3>1. /\ DOMAIN v = {"name", "items", "columns"} /\ v.name = t.name
            /\ v.columns = cols(t)
        BY DEF Populated, Created
      <3>2. ASSUME NEW c \in cols(t) PROVE c = Stored(c, c.data)
        <4>1. PICK x \in Range(t.columns) : c = Stored(x, <<t.name, x.name>>)
          OBVIOUS
        <4> QED BY <4>1, StoredFacts
      <3> HIDE DEF v, cols
      <3> QED BY <3>1, <3>2 DEF IsStored, v
    <2>3. IsDatabase(tables)
      BY <1>1, <2>2 DEF IsDatabase, from
    <2> DEFINE t == Named(from, p[1])
    <2>4. /\ t \in Range(from) /\ t.name = p[1] /\ \A x \in Range(from) : x.name = p[1] => x = t
      BY <2>1, NamedFacts DEF IsSchema, StartsAt
    <2>5. Keeps(cols(t), p[2], p)
      <3> DEFINE new(c) == Stored(c, <<t.name, c.name>>)
      <3>3. cols(t) = {new(c) : c \in Range(t.columns)}
        OBVIOUS
      <3>4. \A c : new(c).name = c.name /\ new(c).data = <<t.name, c.name>>
        BY StoredFacts
      <3>1. \E c \in Range(t.columns) : c.name = p[2]
        BY <2>1 DEF StartsAt, Names, Range
      <3>2. \A c \in Range(t.columns) : c.name = p[2] => <<t.name, c.name>> = p
        BY <2>1, <2>4
      <3> HIDE DEF t, new, cols
      <3> QED BY <3>1, <3>2, <3>3, <3>4 DEF Keeps
    <2> HIDE DEF t, cols
    <2>6. Certain(tables, p, p)
      <3>1. Has(tables, p[1])
        BY <1>1, <2>2, <2>4 DEF Has, from
      <3>2. ASSUME NEW u \in tables, u.name = p[1] PROVE Keeps(u.columns, p[2], p)
        <4>1. PICK x \in Range(from) : u = Populated(x)
          BY <1>1 DEF from
        <4> QED BY <2>2, <2>4, <2>5, <3>2, <4>1
      <3> QED BY <3>1, <3>2 DEF Certain
    <2> QED BY <2>3, <2>6 DEF Keeping, p
  <1> QED BY <1>1, <1>2 DEF Tracked

\* What a script's statements do, one after the other, to a column that survives.
LEMMA ScriptStep ==
  ASSUME NEW dialect, NEW schema, IsSchema(schema), NEW ops, NEW p, NEW q, NEW data,
         Carries(ops, p, q), StartsAt(schema, p), NEW n, n \in 1..(Len(ops) + 1),
         NEW db, Keeping(Now(ops, n - 1, p, q), data, db), NEW lifted,
         n <= Len(Statements(dialect, schema, ops)), NEW st, st = Statements(dialect, schema, ops)[n],
         ~Refused(dialect, db, st, lifted)
  PROVE  n + 1 \in 1..(Len(ops) + 1) /\ Keeping(Now(ops, (n + 1) - 1, p, q), data, Done(dialect, db, st))
  <1> DEFINE m == n - 1
  <1>1. IsList(ops) /\ Len(ops) \in Nat
    BY ListElements DEF Carries
  <1>2. /\ Len(Statements(dialect, schema, ops)) = Len(ops)
        /\ \A i \in 1..Len(ops) :
             Statements(dialect, schema, ops)[i] = GenerateDDL(dialect, schema, SubSeq(ops, 1, i - 1), ops[i])
    BY <1>1, StatementsFacts
  <1>3. n \in 1..Len(ops) /\ m \in Nat /\ n = m + 1 /\ m + 1 <= Len(ops) /\ (n + 1) - 1 = m + 1
    BY <1>1, <1>2
  <1>4. st = GenerateDDL(dialect, schema, SubSeq(ops, 1, m), ops[m + 1])
    BY <1>2, <1>3
  <1>5. IsDatabase(db) /\ Certain(db, Now(ops, m, p, q), data)
    BY DEF Keeping
  <1> HIDE DEF m
  <1>6. Keeping(Now(ops, m + 1, p, q), data, Done(dialect, db, st))
    BY <1>3, <1>4, <1>5, StatementStep
  <1> QED BY <1>1, <1>3, <1>6

\* Before the first statement.
LEMMA ScriptStart ==
  ASSUME NEW ops, NEW p, NEW q, Carries(ops, p, q), NEW data, NEW db, Keeping(p, data, db)
  PROVE  1 \in 1..(Len(ops) + 1) /\ Keeping(Now(ops, 1 - 1, p, q), data, db)
  <1>1. Len(ops) \in Nat
    BY ListElements DEF Carries
  <1>2. Now(ops, 0, p, q) = p
    BY NowNext
  <1>3. 1 - 1 = 0
    OBVIOUS
  <1> QED BY <1>1, <1>2, <1>3

\* After the last statement.
LEMMA ScriptEnd ==
  ASSUME NEW ops, NEW p, NEW q, Carries(ops, p, q), NEW data, NEW db,
         NEW n, n \in 1..(Len(ops) + 1), Keeping(Now(ops, n - 1, p, q), data, db),
         NEW dialect, NEW schema, n > Len(Statements(dialect, schema, ops))
  PROVE  Keeping(q, data, db)
  <1>1. IsList(ops) /\ Len(ops) \in Nat
    BY ListElements DEF Carries
  <1>2. n - 1 = Len(ops)
    BY <1>1, StatementsFacts
  <1> QED BY <1>2, EndOfWay

\* Each step takes the invariant on.
LEMMA TrackedNext == Tracked /\ [Next]_vars => Tracked'
  <1> SUFFICES ASSUME Tracked, [Next]_vars PROVE Tracked'
    OBVIOUS
  <1>1. work \in Workloads /\ pc \in {"generate", "up", "applied", "down", "reverted", "failed"}
    BY DEF Tracked
  <1>2. ASSUME NEW s, s \in Surviving
        PROVE  /\ IsSchema(Schema(work.from)) /\ IsSchema(Schema(work.to))
               /\ Carries(Ops, s[1], s[2]) /\ Carries(InvertOperations(Ops), s[2], s[1])
               /\ StartsAt(Schema(work.from), s[1]) /\ StartsAt(Schema(work.to), s[2])
    BY <1>1, <1>2, SurvivingCarried
  <1>3. work' = work => Surviving' = Surviving /\ Ops' = Ops
    <2>1. work' = work => Surviving' = Surviving
      BY DEF Surviving
    <2>2. work' = work => Ops' = Ops
      BY DEF Ops
    <2> QED BY <2>1, <2>2
  <1>4. CASE Generate
    <2>1. /\ pc = "generate" /\ pc' = "up" /\ script' = UpScript(work)
          /\ work' = work /\ at' = at /\ tables' = tables
      BY <1>4 DEF Generate
    <2>2. script' = UpScript(work')
      BY <2>1
    <2>3. ASSUME NEW s, s \in Surviving PROVE Upwards(s)'
      <3>1. at = 1 /\ Keeping(s[1], s[1], tables)
        BY <2>1, <2>3 DEF Tracked
      <3>2. 1 \in 1..(Len(Ops) + 1) /\ Keeping(Now(Ops, 1 - 1, s[1], s[2]), s[1], tables)
        BY <1>2, <2>3, <3>1, ScriptStart
      <3> QED BY <1>3, <2>1, <3>1, <3>2 DEF Upwards
    <2> QED BY <1>1, <1>3, <2>1, <2>2, <2>3 DEF Tracked
  <1>5. CASE Execute
    <2>1. /\ pc \in {"up", "down"} /\ at <= Len(script)
          /\ work' = work /\ script' = script
      BY <1>5 DEF Execute
    <2>2. CASE Refused(work.dialect, tables, script[at], Lifted)
      <3>1. pc' = "failed"
        BY <1>5, <2>2 DEF Execute
      <3> QED BY <1>1, <2>1, <3>1 DEF Tracked
    <2>3. CASE ~Refused(work.dialect, tables, script[at], Lifted)
      <3>1. /\ tables' = Done(work.dialect, tables, script[at]) /\ at' = at + 1 /\ pc' = pc
        BY <1>5, <2>3 DEF Execute
      <3>2. ASSUME pc = "up", NEW s, s \in Surviving PROVE Upwards(s)'
        <4>1. script = Statements(work.dialect, Schema(work.from), Ops)
          BY <3>2 DEF Tracked, UpScript, Ops
        <4>2. at \in 1..(Len(Ops) + 1) /\ Keeping(Now(Ops, at - 1, s[1], s[2]), s[1], tables)
          BY <3>2 DEF Tracked, Upwards
        <4>3. /\ at + 1 \in 1..(Len(Ops) + 1)
              /\ Keeping(Now(Ops, (at + 1) - 1, s[1], s[2]), s[1], Done(work.dialect, tables, script[at]))
          BY <1>2, <2>1, <2>3, <3>2, <4>1, <4>2, ScriptStep
        <4> QED BY <1>3, <2>1, <3>1, <4>3 DEF Upwards
      <3>3. ASSUME pc = "down", NEW s, s \in Surviving PROVE Downwards(s)'
        <4>1. script = Statements(work.dialect, Schema(work.to), InvertOperations(Ops))
          BY <3>3 DEF Tracked, DownScript, Ops
        <4>2. /\ at \in 1..(Len(InvertOperations(Ops)) + 1)
              /\ Keeping(Now(InvertOperations(Ops), at - 1, s[2], s[1]), s[1], tables)
          BY <1>2, <3>3, InvertedOperations DEF Tracked, Downwards, Carries
        <4>3. /\ at + 1 \in 1..(Len(InvertOperations(Ops)) + 1)
              /\ Keeping(Now(InvertOperations(Ops), (at + 1) - 1, s[2], s[1]), s[1],
                         Done(work.dialect, tables, script[at]))
          BY <1>2, <2>1, <2>3, <3>3, <4>1, <4>2, ScriptStep
        <4>4. Len(InvertOperations(Ops)) = Len(Ops)
          BY <1>2, <3>3, InvertedOperations DEF Carries
        <4>5. InvertOperations(Ops)' = InvertOperations(Ops)
          BY <1>3, <2>1
        <4> QED BY <1>3, <2>1, <3>1, <4>3, <4>4, <4>5 DEF Downwards
      <3>4. /\ pc' = "up"   => script' = UpScript(work')
            /\ pc' = "down" => script' = DownScript(work')
        BY <2>1, <3>1 DEF Tracked
      <3> QED BY <1>1, <1>3, <2>1, <3>1, <3>2, <3>3, <3>4 DEF Tracked
    <2> QED BY <2>2, <2>3
  <1>6. CASE Finish
    <2>1. /\ pc \in {"up", "down"} /\ at > Len(script)
          /\ pc' = IF Lifted /\ ~Intact THEN "failed" ELSE IF pc = "up" THEN "applied" ELSE "reverted"
          /\ work' = work /\ tables' = tables
      BY <1>6 DEF Finish
    <2>2. ASSUME pc = "up", NEW s, s \in Surviving PROVE Keeping(s[2], s[1], tables)
      <3>1. script = Statements(work.dialect, Schema(work.from), Ops)
        BY <2>2 DEF Tracked, UpScript, Ops
      <3>2. at \in 1..(Len(Ops) + 1) /\ Keeping(Now(Ops, at - 1, s[1], s[2]), s[1], tables)
        BY <2>2 DEF Tracked, Upwards
      <3> QED BY <1>2, <2>1, <2>2, <3>1, <3>2, ScriptEnd
    <2>3. ASSUME pc = "down", NEW s, s \in Surviving PROVE Keeping(s[1], s[1], tables)
      <3>1. script = Statements(work.dialect, Schema(work.to), InvertOperations(Ops))
        BY <2>3 DEF Tracked, DownScript, Ops
      <3>2. /\ at \in 1..(Len(InvertOperations(Ops)) + 1)
            /\ Keeping(Now(InvertOperations(Ops), at - 1, s[2], s[1]), s[1], tables)
        BY <1>2, <2>3, InvertedOperations DEF Tracked, Downwards, Carries
      <3> QED BY <1>2, <2>1, <2>3, <3>1, <3>2, ScriptEnd
    <2> QED BY <1>1, <1>3, <2>1, <2>2, <2>3 DEF Tracked
  <1>7. CASE RollBack
    <2>1. /\ pc = "applied" /\ pc' = "down" /\ script' = DownScript(work) /\ at' = 1
          /\ work' = work /\ tables' = tables
      BY <1>7 DEF RollBack
    <2>2. script' = DownScript(work')
      BY <2>1
    <2>3. ASSUME NEW s, s \in Surviving PROVE Downwards(s)'
      <3>1. Keeping(s[2], s[1], tables)
        BY <2>1, <2>3 DEF Tracked
      <3>2. /\ 1 \in 1..(Len(InvertOperations(Ops)) + 1)
            /\ Keeping(Now(InvertOperations(Ops), 1 - 1, s[2], s[1]), s[1], tables)
        BY <1>2, <2>3, <3>1, ScriptStart
      <3>3. Len(InvertOperations(Ops)) = Len(Ops)
        BY <1>2, <2>3, InvertedOperations DEF Carries
      <3>4. InvertOperations(Ops)' = InvertOperations(Ops)
        BY <1>3, <2>1
      <3> QED BY <1>3, <2>1, <3>2, <3>3, <3>4 DEF Downwards
    <2> QED BY <1>1, <1>3, <2>1, <2>2, <2>3 DEF Tracked
  <1>8. CASE UNCHANGED vars
    <2>1. work' = work /\ pc' = pc /\ script' = script /\ at' = at /\ tables' = tables
      BY <1>8 DEF vars
    <2>2. ASSUME NEW s PROVE Upwards(s)' = Upwards(s) /\ Downwards(s)' = Downwards(s)
      BY <1>3, <2>1 DEF Upwards, Downwards
    <2> QED BY <1>3, <2>1, <2>2 DEF Tracked
  <1> QED BY <1>4, <1>5, <1>6, <1>7, <1>8 DEF Next

\* In every reachable state, whatever the workloads are.
THEOREM TrackedHolds == Spec => []Tracked
  <1>1. Init => Tracked
    BY TrackedInit
  <1>2. Tracked /\ [Next]_vars => Tracked'
    BY TrackedNext
  <1> QED BY <1>1, <1>2, PTL DEF Spec

\* A column that is kept holds its values.
LEMMA KeptHolds ==
  ASSUME NEW place, NEW data, Keeping(place, data, tables)
  PROVE  Holds(place, data)
  BY DEF Keeping, Certain, Keeps, Has, Holds

\* No generated script, run to its end, loses a value of a column that both schemas
\* have or that was renamed: not in a recreated table, and not on the way back.
THEOREM DataKeptHolds == Spec => []DataKept
  <1>1. Tracked => DataKept
    BY KeptHolds DEF Tracked, DataKept
  <1> QED BY <1>1, TrackedHolds, PTL
===============================================================================
