--------------------------- MODULE MCLockOrdering ---------------------------
(* A small instance of LockOrdering for TLC. *)
EXTENDS LockOrdering, TLC

CONSTANTS n1, w1

MCThreadNode == (w1 :> n1)

\* The requests are named after what they ask for.
MCKindOf == [r \in Requests |-> r]

MCNodeOf == [r \in Requests |-> n1]
=============================================================================
