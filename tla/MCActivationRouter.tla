------------------------- MODULE MCActivationRouter -------------------------
(* Small instances of ActivationRouter for TLC. *)
EXTENDS ActivationRouter, TLC

CONSTANTS r1, r2, w1, w2

MCResources == {r1, r2}

MCThreads == {w1, w2}

\* Two Nodes with one resource each, so that two threads wait at once.
MCThreadOf == (r1 :> w1) @@ (r2 :> w2)
=============================================================================
