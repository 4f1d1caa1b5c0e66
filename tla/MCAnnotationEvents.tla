------------------------- MODULE MCAnnotationEvents -------------------------
EXTENDS AnnotationEvents, TLC

MCObjects == {[side |-> "sender", name |-> "a"]}

\* No entry, or one.
MCCheckpoints ==
    {[k \in S |-> [BlankAnnotation EXCEPT !.tags = Tags]] :
        S \in {{}} \cup {{k} : k \in Keys \ NodeKeys}}

\* Sessions and handlers are interchangeable.
Symmetry == Permutations(Sessions) \cup Permutations(Handlers)
=============================================================================
