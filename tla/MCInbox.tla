------------------------------ MODULE MCInbox -------------------------------
(***************************************************************************)
(* Small instances of Inbox for TLC: alice's transactions a1 and a2 are    *)
(* the two halves of a transfer, b1 is bob's.                              *)
(***************************************************************************)
EXTENDS Inbox, TLC

CONSTANTS alice, bob, a1, a2, b1, full, part, h1, h2

MCOwner == [t \in Txs |-> IF t = b1 THEN bob ELSE alice]
OneTransfer == {{a1, a2}}
NoTransfer == {}

Handlers == Permutations(Procs)
=============================================================================
