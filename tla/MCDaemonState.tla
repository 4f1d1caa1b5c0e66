--------------------------- MODULE MCDaemonState ---------------------------
(* Small instances of DaemonState for TLC. *)
EXTENDS DaemonState, TLC

\* Handlers, seeds, objects and ports are interchangeable, and no property tells
\* them apart.
Symmetry ==
    Permutations(Rpcs) \cup Permutations(Seeds) \cup Permutations(Objects)
        \cup Permutations(Ports)
=============================================================================
