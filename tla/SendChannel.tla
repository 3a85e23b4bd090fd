---------------------------- MODULE SendChannel ----------------------------
(***************************************************************************)
(* What the send side of a session promises: messages go to the network in *)
(* the order in which they were accepted, each at most once, and nothing   *)
(* is sent or kept once the session is closed.                             *)
(***************************************************************************)
EXTENDS Sequences

CONSTANT Msgs   \* the messages that may be posted, each of them once

VARIABLES
  up,       \* the session is open
  pending,  \* messages accepted and not yet given to the network, in order
  wire      \* messages given to the network, in order

channelVars == <<up, pending, wire>>

Init == up \in BOOLEAN /\ pending = <<>> /\ wire = <<>>

In(m, q) == \E i \in DOMAIN q : q[i] = m

Send(q) ==
  /\ q # <<>>
  /\ wire' = Append(wire, Head(q))
  /\ pending' = Tail(q)

Accept(m) ==
  LET q == Append(pending, m) IN
  /\ up
  /\ ~In(m, pending) /\ ~In(m, wire)
  /\ \/ pending' = q /\ UNCHANGED wire
     \/ Send(q)
  /\ UNCHANGED up

Transmit == up /\ Send(pending) /\ UNCHANGED up

Open == ~up /\ wire = <<>> /\ up' = TRUE /\ UNCHANGED <<pending, wire>>

Break == up /\ up' = FALSE /\ pending' = <<>> /\ UNCHANGED wire

Next == Transmit \/ Open \/ Break \/ \E m \in Msgs : Accept(m)

Spec == Init /\ [][Next]_channelVars
=============================================================================
