-------------------------- MODULE MCDriverConnection --------------------------
(* A driver with one connection and a pooled one, each with five calls.       *)
EXTENDS DriverConnection

CONSTANTS k1, k2, k3, k4, k5

Kinds5(v, w, x, y, z) ==
  [c \in Calls |-> CASE c = k1 -> v [] c = k2 -> w [] c = k3 -> x [] c = k4 -> y [] c = k5 -> z]

MCDrivers == {
  [serialized |-> TRUE, bounded |-> {k3},
   kind |-> Kinds5("query", "transaction", "transaction", "disconnect", "disconnect")],
  [serialized |-> FALSE, bounded |-> {},
   kind |-> Kinds5("query", "query", "connect", "disconnect", "disconnect")]}
=============================================================================
