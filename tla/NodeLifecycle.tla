--------------------------- MODULE NodeLifecycle ---------------------------
(***************************************************************************)
(* What nvnmosd promises about the life of a Node, as a client sees it     *)
(* (rust/nvnmosd/src/state.rs, Lifetime; proto OpenSession, CloseSession,  *)
(* AddNode, RemoveNode): a session-refcounted Node exists exactly while a  *)
(* session is attached to it, a persistent one from AddNode to RemoveNode. *)
(* There is no count, only the set of the sessions themselves.             *)
(***************************************************************************)
EXTENDS Naturals

CONSTANT Seeds

VARIABLES
    node,      \* seed -> "absent" | "refcounted" | "persistent"
    attached,  \* seed -> the open sessions on its Node
    issued     \* how many session handles were given out

vars == <<node, attached, issued>>

Init ==
    /\ node = [s \in Seeds |-> "absent"]
    /\ attached = [s \in Seeds |-> {}]
    /\ issued = 0

\* OpenSession creates the Node or joins the one that is there.
Open(s) ==
    /\ node' = [node EXCEPT ![s] = IF @ = "absent" THEN "refcounted" ELSE @]
    /\ attached' = [attached EXCEPT ![s] = @ \cup {issued}]
    /\ issued' = issued + 1

\* CloseSession, by the client or by a watchdog; the last one out takes a
\* session-refcounted Node with it.
Close(s, h) ==
    /\ h \in attached[s]
    /\ attached' = [attached EXCEPT ![s] = @ \ {h}]
    /\ node' = [node EXCEPT ![s] =
                   IF @ = "refcounted" /\ attached[s] = {h} THEN "absent" ELSE @]
    /\ UNCHANGED issued

AddNode(s) ==
    /\ node[s] = "absent"
    /\ node' = [node EXCEPT ![s] = "persistent"]
    /\ UNCHANGED <<attached, issued>>

RemoveNode(s) ==
    /\ node[s] = "persistent"
    /\ attached[s] = {}
    /\ node' = [node EXCEPT ![s] = "absent"]
    /\ UNCHANGED <<attached, issued>>

Next ==
    \E s \in Seeds :
        \/ Open(s)
        \/ \E h \in attached[s] : Close(s, h)
        \/ AddNode(s)
        \/ RemoveNode(s)

Spec == Init /\ [][Next]_vars
=============================================================================
