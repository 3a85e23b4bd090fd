------------------------------ MODULE MCNetLib ------------------------------
(* A small instance of NetLib for TLC. *)
EXTENDS NetLib

\* The long message is over the limit on its own, and far over it behind
\* another one.
MCSize == [m \in Msgs |-> IF m = "long" THEN 2 ELSE 1]
=============================================================================
