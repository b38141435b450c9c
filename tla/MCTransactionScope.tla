-------------------------- MODULE MCTransactionScope --------------------------
(* Small trees of scopes for TLC: a root with a nested transaction inside a    *)
(* nested transaction, and a root with one nested transaction.                 *)
EXTENDS TransactionScope

CONSTANTS root, outer, inner, onRoot, onOuter, onInner

ChainScopes == {root, outer, inner}
ChainParent == [n \in {outer, inner} |-> IF n = outer THEN root ELSE outer]
ChainAbove == [s \in ChainScopes |-> CASE s = root -> {}
                                       [] s = outer -> {root}
                                       [] OTHER -> {root, outer}]
ChainOps == {onOuter, onInner}
ChainScopeOf == [o \in ChainOps |-> IF o = onOuter THEN outer ELSE inner]

PairScopes == {root, outer}
PairParent == [n \in {outer} |-> root]
PairAbove == [s \in PairScopes |-> IF s = root THEN {} ELSE {root}]
PairOps == {onRoot, onOuter}
PairScopeOf == [o \in PairOps |-> IF o = onRoot THEN root ELSE outer]
=============================================================================
