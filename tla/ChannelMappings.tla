--------------------------- MODULE ChannelMappings ---------------------------
(***************************************************************************)
(* IS-08 channel mappings of one Node: the phases of AddChannelMapping, the*)
(* deferred libnvnmos calls, the inputs and outputs that libnvnmos keeps   *)
(* and the activations that come back through the router of the daemon     *)
(* (nvnmosd state.rs, main.rs; libnvnmos nvnmos_impl.cpp).                 *)
(***************************************************************************)
EXTENDS ChannelMatrix

CONSTANTS
    Sessions,
    Names,          \* names that a mapping can have
    Requests,       \* AddChannelMapping requests: [name, inputs, outputs], the
                    \* last two sequences of [id, labels]; "" for no id
    BadIds,         \* ids outside the IS-08 pattern
    DefaultIds,     \* DefaultIds[type][n]: the id given to the n-th without one
    ActiveMaps,     \* active maps an output can be given
    Handlers,
    SUBSCRIPTION_BUFFER,
    MaxAdds,        \* bound on AddChannelMapping requests
    MaxActivations  \* bound on IS-08 activations

ASSUME RequestsAssumption ==
    \A r \in Requests : r.name \in Names /\ Len(r.inputs) \in Nat /\ Len(r.outputs) \in Nat

IsInput == [c \in {} |-> Unrouted]
NoThread == [pc |-> "idle"]
Idle == [pc |-> "idle"]
EmptyMap == [x \in {} |-> 0]

VARIABLES
    cms,        \* channelmappings: handle -> entry
    byName,     \* channelmappings_by_name
    byOutput,   \* outputs_by_id
    nextCm,     \* next_channelmapping_id
    open,       \* sessions
    slot,       \* channelmapping_subscriptions and the receiving ends
    pending,    \* pending_channelmapping_activations: activation -> session
    nextAct,    \* next_channelmapping_activation_id
    thread,     \* the IS-08 activation thread of libnvnmos
    lib,        \* the model of libnvnmos: config, res and control
    handler,    \* requests between their phases
    removes     \* deferred removes: name -> how many

daemon == <<cms, byName, byOutput, nextCm, open>>
router == <<slot, pending, nextAct, thread>>
vars == <<daemon, router, lib, handler, removes>>

Init ==
    /\ cms = EmptyMap /\ byName = EmptyMap /\ byOutput = EmptyMap /\ nextCm = 1
    /\ open = Sessions
    /\ slot = [s \in Sessions |-> [state |-> "none", queue |-> <<>>]]
    /\ pending = EmptyMap /\ nextAct = 1
    /\ thread = NoThread
    /\ lib = [config |-> EmptyMap, res |-> EmptyMap, control |-> FALSE]
    /\ handler = [h \in Handlers |-> Idle]
    /\ removes = [n \in Names |-> 0]

With(f, k, v) == [j \in DOMAIN f \cup {k} |-> IF j = k THEN v ELSE f[j]]
Without(f, K) == [j \in DOMAIN f \ K |-> f[j]]

-----------------------------------------------------------------------------
\* The resources of libnvnmos.

Ids(ios) == {ios[i].id : i \in 1..Len(ios)}

\* effective_channelmapping_input_ids, effective_channelmapping_output_ids.
Effective(type, ios) ==
    [i \in 1..Len(ios) |-> IF ios[i].id # "" THEN ios[i]
                           ELSE [ios[i] EXCEPT !.id = DefaultIds[type][i]]]

\* channelmapping_ids_contains over all mappings.
IdRecorded(config, type, id) == \E n \in DOMAIN config : id \in config[n][type]

\* The checks of one round of the loops of node_implementation_add_channelmapping_,
\* after the rounds before it.
Refused(config, res, type, ios, i) ==
    \/ IdRecorded(config, type, ios[i].id)
    \/ ios[i].labels = 0
    \/ <<type, ios[i].id>> \in DOMAIN res
    \/ \E j \in 1..(i - 1) : ios[j].id = ios[i].id

NewIo(type, io) ==
    IF type = "inputs" THEN IsInput ELSE [c \in 0..(io.labels - 1) |-> Unrouted]

\* A check that fails throws, with what the rounds before it inserted left in the
\* model.
InsertAll(config, acc, type, ios) ==
    LET put == {i \in 1..Len(ios) :
                   acc.ok /\ \A j \in 1..i : ~Refused(config, acc.res, type, ios, j)}
    IN  [ok |-> acc.ok /\ put = 1..Len(ios),
         res |-> [k \in DOMAIN acc.res \cup {<<type, ios[i].id>> : i \in put} |->
                     IF k \in DOMAIN acc.res THEN acc.res[k]
                     ELSE NewIo(type, ios[CHOOSE i \in put : k = <<type, ios[i].id>>])]]

\* Mutant: a mapping of that name is replaced.
LibAdd_Upsert(l, name, inputs, outputs) ==
    LET done == InsertAll(l.config, InsertAll(l.config, [res |-> l.res, ok |-> TRUE],
                                              "inputs", inputs), "outputs", outputs)
    IN  [ok |-> done.ok,
         lib |-> IF ~done.ok THEN [l EXCEPT !.res = done.res]
                 ELSE [config |-> With(l.config, name, [inputs |-> Ids(inputs),
                                                        outputs |-> Ids(outputs)]),
                       res |-> done.res, control |-> TRUE]]

\* node_implementation_add_channelmapping_.
LibAdd(l, name, inputs, outputs) ==
    LET start == [res |-> l.res,
                  ok |-> name \notin DOMAIN l.config /\ Len(inputs) + Len(outputs) > 0]
        done == InsertAll(l.config, InsertAll(l.config, start, "inputs", inputs),
                          "outputs", outputs)
    IN  [ok |-> done.ok,
         lib |-> IF ~done.ok THEN [l EXCEPT !.res = done.res]
                 ELSE [config |-> With(l.config, name, [inputs |-> Ids(inputs),
                                                        outputs |-> Ids(outputs)]),
                       res |-> done.res,
                       \* maybe_add_device_channelmapping_control
                       control |-> TRUE]]

\* maybe_remove_device_channelmapping_control.
ControlAfterRemove(res, control) == control /\ DOMAIN res # {}

\* node_implementation_remove_channelmapping_: an unknown name throws.
LibRemove(l, name) ==
    IF name \notin DOMAIN l.config THEN l
    ELSE LET c == l.config[name]
             res == Without(l.res, {<<"inputs", i>> : i \in c.inputs}
                                   \cup {<<"outputs", o>> : o \in c.outputs})
         IN  [config |-> Without(l.config, {name}), res |-> res,
              control |-> ControlAfterRemove(res, l.control)]

\* name_for_output; an output id is recorded under at most one name.
NamesForOutput(l, o) == {n \in DOMAIN l.config : o \in l.config[n].outputs}

\* The activation thread is in the callback with the model lock held.
ModelFree == thread.pc = "idle"

-----------------------------------------------------------------------------
\* AddChannelMapping.

Live(s) == slot[s].state = "live"

\* reap_closed_channelmapping_subscription.
Reaped(s) == [slot EXCEPT ![s].state = IF @ = "dropped" THEN "none" ELSE @]

\* Name and ids are free, as far as the daemon's maps go.
IdsFree(req, inputs, outputs) ==
    /\ req.name \notin DOMAIN byName
    /\ \A c \in DOMAIN cms : cms[c].inputs \cap Ids(inputs) = {}
                             /\ cms[c].outputs \cap Ids(outputs) = {}

PrepareAddChannelmapping(h, s, req) ==
    LET inputs == Effective("inputs", req.inputs)
        outputs == Effective("outputs", req.outputs)
    IN  /\ handler[h] = Idle
        /\ s \in open
        /\ nextCm <= MaxAdds
        /\ slot' = Reaped(s)
        /\ IF /\ Live(s)
              /\ (Ids(inputs) \cup Ids(outputs)) \cap BadIds = {}
              /\ IdsFree(req, inputs, outputs)
           THEN handler' = [handler EXCEPT ![h] = [pc |-> "add", name |-> req.name,
                                inputs |-> inputs, outputs |-> outputs, session |-> s]]
           ELSE UNCHANGED handler
        /\ UNCHANGED <<daemon, pending, nextAct, thread, lib, removes>>

\* AddChannelMappingPrep::run_ffi.
AddChannelmappingFfi(h) ==
    /\ handler[h].pc = "add"
    /\ ModelFree
    /\ LET added == LibAdd(lib, handler[h].name, handler[h].inputs, handler[h].outputs)
       IN  /\ lib' = added.lib
           /\ handler' = [handler EXCEPT ![h] = IF added.ok THEN [@ EXCEPT !.pc = "added"]
                                                ELSE Idle]
    /\ UNCHANGED <<daemon, router, removes>>

StillOpen(s) == s \in open

\* Mutant: the mapping stays in libnvnmos.
Compensation_Forgotten(n) == removes

Compensation(n) == [removes EXCEPT ![n] = @ + 1]

\* commit_add_channelmapping, with the compensating remove when the session was
\* closed during the call.
CommitAddChannelmapping(h) ==
    /\ handler[h].pc = "added"
    /\ LET n == handler[h].name
           s == handler[h].session
           ins == Ids(handler[h].inputs)
           outs == Ids(handler[h].outputs)
       IN  IF StillOpen(s)
           THEN /\ cms' = With(cms, nextCm, [name |-> n, session |-> s, inputs |-> ins,
                                             outputs |-> outs])
                /\ byName' = With(byName, n, nextCm)
                /\ byOutput' = [o \in DOMAIN byOutput \cup outs |->
                                   IF o \in outs THEN nextCm ELSE byOutput[o]]
                /\ nextCm' = nextCm + 1
                /\ UNCHANGED <<open, removes>>
           ELSE /\ removes' = Compensation(n)
                /\ UNCHANGED daemon
    /\ handler' = [handler EXCEPT ![h] = Idle]
    /\ UNCHANGED <<router, lib>>

-----------------------------------------------------------------------------
\* RemoveChannelMapping, CloseSession, SyncChannelMappingState.

\* The entries of the indexes go with the mappings C.
Unlisted(C) ==
    /\ cms' = Without(cms, C)
    /\ byName' = Without(byName, {cms[c].name : c \in C})
    /\ byOutput' = Without(byOutput, UNION {cms[c].outputs : c \in C})
    /\ removes' = [n \in Names |-> removes[n] + (IF \E c \in C : cms[c].name = n THEN 1 ELSE 0)]

RemoveChannelmapping(c) ==
    /\ c \in DOMAIN cms
    /\ Unlisted({c})
    /\ UNCHANGED <<nextCm, open, router, lib, handler>>

\* close_session drops the slot and the pending activations of the session.
CloseSession(s) ==
    /\ s \in open
    /\ open' = open \ {s}
    /\ Unlisted({c \in DOMAIN cms : cms[c].session = s})
    /\ slot' = [slot EXCEPT ![s] = [state |-> "none", queue |-> <<>>]]
    /\ pending' = Without(pending, {a \in DOMAIN pending : pending[a] = s})
    /\ UNCHANGED <<nextCm, nextAct, thread, lib, handler>>

\* RemoveChannelMappingFfi::run: best effort.
RemoveChannelmappingFfi(n) ==
    /\ removes[n] > 0
    /\ ModelFree
    /\ lib' = LibRemove(lib, n)
    /\ removes' = [removes EXCEPT ![n] = @ - 1]
    /\ UNCHANGED <<daemon, router, handler>>

SyncChannelmappingState(h, c, o, map) ==
    /\ handler[h] = Idle
    /\ c \in DOMAIN cms
    /\ handler' = [handler EXCEPT ![h] = [pc |-> "sync", name |-> cms[c].name,
                                          output |-> o, map |-> map]]
    /\ UNCHANGED <<daemon, router, lib, removes>>

\* node_implementation_activate_channelmapping_: refused unless the output is in
\* the mapping of that name and the map has its length.
SyncAccepted(h) ==
    /\ handler[h].name \in NamesForOutput(lib, handler[h].output)
    /\ DOMAIN handler[h].map = DOMAIN lib.res[<<"outputs", handler[h].output>>]

SyncChannelmappingFfi(h) ==
    /\ handler[h].pc = "sync"
    /\ ModelFree
    /\ lib' = IF SyncAccepted(h)
              THEN [lib EXCEPT !.res[<<"outputs", handler[h].output>>] = handler[h].map]
              ELSE lib
    /\ handler' = [handler EXCEPT ![h] = Idle]
    /\ UNCHANGED <<daemon, router, removes>>

-----------------------------------------------------------------------------
\* Activations.

\* subscribe_channelmapping_activations.
SubscribeChannelmapping(s) ==
    /\ s \in open
    /\ ~Live(s)
    /\ slot' = [slot EXCEPT ![s] = [state |-> "live", queue |-> <<>>]]
    /\ UNCHANGED <<daemon, pending, nextAct, thread, lib, handler, removes>>

\* The client drops its stream.
StreamDropped(s) ==
    /\ Live(s)
    /\ slot' = [slot EXCEPT ![s] = [state |-> "dropped", queue |-> <<>>]]
    /\ UNCHANGED <<daemon, pending, nextAct, thread, lib, handler, removes>>

\* on_channelmapping_subscription_stream_ended, in the task the Drop spawned.
StreamEnded(s) ==
    /\ slot[s].state = "dropped"
    /\ slot' = Reaped(s)
    /\ UNCHANGED <<daemon, pending, nextAct, thread, lib, handler, removes>>

\* nmos-cpp merges an activation into the active map and calls back, with the
\* model lock held; an output that no mapping records is not reported.
Activate(o, map) ==
    /\ ModelFree
    /\ nextAct <= MaxActivations
    /\ <<"outputs", o>> \in DOMAIN lib.res
    /\ DOMAIN map = DOMAIN lib.res[<<"outputs", o>>]
    /\ lib' = [lib EXCEPT !.res[<<"outputs", o>>] = map]
    /\ thread' = IF NamesForOutput(lib, o) = {} THEN NoThread
                 ELSE [pc |-> "merged", output |-> o, map |-> map,
                       name |-> CHOOSE n \in NamesForOutput(lib, o) : TRUE]
    /\ nextAct' = nextAct + 1
    /\ UNCHANGED <<daemon, slot, pending, handler, removes>>

\* dispatch_channelmapping_activation.  The three refusals answer at once.
Dispatch ==
    /\ thread.pc = "merged"
    /\ LET o == thread.output
           known == o \in DOMAIN byOutput
           s == IF known THEN cms[byOutput[o]].session ELSE "nobody"
       IN  IF known /\ Live(s) /\ Len(slot[s].queue) < SUBSCRIPTION_BUFFER
           THEN /\ slot' = [slot EXCEPT ![s].queue = Append(@, [act |-> nextAct,
                                cm |-> byOutput[o], output |-> o, map |-> thread.map])]
                /\ pending' = With(pending, nextAct, s)
                /\ thread' = [pc |-> "waiting", act |-> nextAct]
           ELSE /\ slot' = IF known THEN Reaped(s) ELSE slot
                /\ thread' = NoThread
                /\ UNCHANGED pending
    /\ UNCHANGED <<daemon, nextAct, lib, handler, removes>>

ReadEvent(s) ==
    /\ Live(s)
    /\ slot[s].queue # <<>>
    /\ slot' = [slot EXCEPT ![s].queue = Tail(@)]
    /\ UNCHANGED <<daemon, pending, nextAct, thread, lib, handler, removes>>

\* complete_channelmapping_activation: the thread gets the answer, whatever it is,
\* and leaves the callback.
AckChannelmappingActivation(s, a) ==
    /\ s \in open
    /\ a \in DOMAIN pending
    /\ pending[a] = s
    /\ pending' = Without(pending, {a})
    /\ UNCHANGED <<daemon, slot, nextAct, thread, lib, handler, removes>>

\* The wait is over when the entry is gone (an answer, or the channel dropped by
\* close_session) or at the timeout; then cleanup_pending_channelmapping_activation.
LeaveCallback ==
    /\ thread.pc = "waiting"
    /\ pending' = Without(pending, {thread.act})
    /\ thread' = NoThread
    /\ UNCHANGED <<daemon, slot, nextAct, lib, handler, removes>>

-----------------------------------------------------------------------------
\* A client of session s that may do anything, at any time; h serves its requests.
ClientStep(s, h) ==
    \/ \E r \in Requests : PrepareAddChannelmapping(h, s, r)
    \/ \E c \in DOMAIN cms :
          /\ cms[c].session = s
          /\ \/ RemoveChannelmapping(c)
             \/ \E m \in ActiveMaps, o \in cms[c].outputs :
                   SyncChannelmappingState(h, c, o, m)
    \/ CloseSession(s)
    \/ SubscribeChannelmapping(s)
    \/ StreamDropped(s)
    \/ ReadEvent(s)
    \/ \E a \in DOMAIN pending : AckChannelmappingActivation(s, a)

-----------------------------------------------------------------------------
\* The maps of the daemon are one relation: a name and an output id lead to the
\* mapping that has them, and no two mappings share an id of a kind, although two
\* adds may pass the checks before either commits.
IndexesAgree ==
    /\ \A c \in DOMAIN cms : /\ cms[c].session \in open
                             /\ byName[cms[c].name] = c
                             /\ \A o \in cms[c].outputs : byOutput[o] = c
    /\ \A n \in DOMAIN byName : byName[n] \in DOMAIN cms /\ cms[byName[n]].name = n
    /\ \A o \in DOMAIN byOutput : byOutput[o] \in DOMAIN cms /\ o \in cms[byOutput[o]].outputs
    /\ \A c, d \in DOMAIN cms : c # d => cms[c].inputs \cap cms[d].inputs = {}

\* What the daemon lists is in libnvnmos under the same name with the same ids: no
\* deferred or compensating remove, aimed by name, takes the mapping of another
\* session.
MappingsBacked ==
    \A c \in DOMAIN cms :
        /\ cms[c].name \in DOMAIN lib.config
        /\ lib.config[cms[c].name] = [inputs |-> cms[c].inputs, outputs |-> cms[c].outputs]
        /\ \A o \in cms[c].outputs : <<"outputs", o>> \in DOMAIN lib.res
        /\ \A i \in cms[c].inputs : <<"inputs", i>> \in DOMAIN lib.res

\* A mapping of libnvnmos is listed, about to be committed or about to be removed,
\* by exactly one of them: none is left behind by a close in mid-add, and none is
\* removed twice.
ConfigClaimed ==
    \A n \in DOMAIN lib.config :
        LET adding == {h \in Handlers : handler[h].pc = "added" /\ handler[h].name = n}
            listed == {c \in DOMAIN cms : cms[c].name = n}
        IN  \/ listed # {} /\ adding = {} /\ removes[n] = 0
            \/ listed = {} /\ (\E h \in adding : adding = {h}) /\ removes[n] = 0
            \/ listed = {} /\ adding = {} /\ removes[n] = 1

\* The Device advertises IS-08 while it has a mapping, and not when it has no IS-08
\* resource.
ControlsFollow == (DOMAIN lib.config # {} => lib.control) /\ (lib.control => DOMAIN lib.res # {})

\* The daemon's indexes, the mappings of libnvnmos and what the Device advertises
\* agree at every point between the phases of concurrent adds and removes.
RegistriesAgree == IndexesAgree /\ MappingsBacked /\ ControlsFollow
=============================================================================
