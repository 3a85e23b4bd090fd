---------------------------- MODULE MCNetSession ----------------------------
(* Small instances of NetSession for TLC. *)
EXTENDS NetSession, TLC

\* Workers are interchangeable.
WorkerSymmetry == Permutations(Workers)
=============================================================================
