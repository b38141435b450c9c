-------------------------------- MODULE Lists --------------------------------
(***************************************************************************)
(* Selecting from a sequence by a set of elements.  SelectSeq takes an     *)
(* operator, which the prover cannot be told about.                        *)
(***************************************************************************)
EXTENDS Naturals, SequencesExt

IsList(s) == s \in Seq(Range(s))

\* The elements of s that are in S, in their order.
Among(s, S) ==
  LET kept[i \in 0..Len(s)] == IF i = 0 THEN <<>>
                               ELSE IF s[i] \in S THEN Append(kept[i - 1], s[i]) ELSE kept[i - 1]
  IN  kept[Len(s)]
=============================================================================
