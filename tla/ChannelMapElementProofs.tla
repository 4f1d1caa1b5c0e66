----------------------- MODULE ChannelMapElementProofs -----------------------
(***************************************************************************)
(* Proofs about the channel mappings of a Node and the element that adds   *)
(* one, for all requests, pads, active maps, sessions and handlers and any *)
(* number of adds and activations: RegistriesAgree and ConfigClaimed, what *)
(* the daemon and libnvnmos keep; FixatedIsRegistered, what the element    *)
(* has when it is fixated; HeardIsMapped, what comes out of it.            *)
(*                                                                         *)
(* The registries agree because a name of libnvnmos has one claim (Claims):*)
(* a mapping that is listed, a handler about to commit it or one deferred  *)
(* remove.  A second add of the name is refused by libnvnmos while there is*)
(* a claim, which is what makes a remove by name safe.                     *)
(*                                                                         *)
(* That a fixated element has its mapping is decided in the phases before: *)
(* EInv says whose request each handler works on (AddsApart), that the     *)
(* daemon lists for the session what the element waits for or has a handle *)
(* for (MineIs), and which of the outputs are published (Published);       *)
(* PadsApart says that the pads of a mapping have distinct ids.            *)
(*                                                                         *)
(* What comes out is followed from the pads to the mixer (HInv): a matrix  *)
(* sounds as the map it was built from (InitialSounds, ActivationSounds,   *)
(* which rest on the place of each input on the bus, BusPlaces); while the *)
(* outputs are published each sounds as its pad asks (Fresh), and then the *)
(* last activation on its way to the mixer, in the thread of libnvnmos, in *)
(* the queue or in the hands of the task, has the map that IS-08 shows     *)
(* (Latest).                                                               *)
(***************************************************************************)
EXTENDS ChannelMapElement, FiniteSetTheorems, TLAPS

-----------------------------------------------------------------------------
(* The inductive invariant of the registries. *)

AddShape(r) ==
    /\ r = [pc |-> r.pc, name |-> r.name, inputs |-> r.inputs, outputs |-> r.outputs,
            session |-> r.session]
    /\ r.name \in Names
    /\ Len(r.inputs) \in Nat /\ Len(r.outputs) \in Nat

LibShape(l) == l = [config |-> l.config, res |-> l.res, control |-> l.control]

Typed ==
    /\ nextCm \in Nat \ {0}
    /\ DOMAIN handler = Handlers
    /\ \A h \in Handlers : handler[h].pc \in {"add", "added"} => AddShape(handler[h])
    /\ removes \in [Names -> Nat]
    /\ LibShape(lib)
    /\ \A c \in DOMAIN cms : c \in Nat /\ c # 0 /\ c < nextCm /\ cms[c].name \in Names
    /\ DOMAIN lib.config \subseteq Names

IsAdding(h, n) == handler[h].pc = "added" /\ handler[h].name = n
NoneAdding(n) == \A h \in Handlers : ~IsAdding(h, n)
NoneListed(n) == \A c \in DOMAIN cms : cms[c].name # n

\* A name in libnvnmos has one claim, a name that is not has none.
Claims(n) ==
    IF n \in DOMAIN lib.config
    THEN \/ ~NoneListed(n) /\ NoneAdding(n) /\ removes[n] = 0
         \/ /\ NoneListed(n)
            /\ \E h \in Handlers : /\ IsAdding(h, n)
                                   /\ \A g \in Handlers : IsAdding(g, n) => g = h
            /\ removes[n] = 0
         \/ NoneListed(n) /\ NoneAdding(n) /\ removes[n] = 1
    ELSE NoneListed(n) /\ NoneAdding(n) /\ removes[n] = 0

\* What libnvnmos has under a name.
Held(l, n) ==
    /\ l.config[n].inputs \cup l.config[n].outputs # {}
    /\ \A i \in l.config[n].inputs : <<"inputs", i>> \in DOMAIN l.res
    /\ \A o \in l.config[n].outputs : <<"outputs", o>> \in DOMAIN l.res

ConfigHeld ==
    /\ \A n \in DOMAIN lib.config : Held(lib, n)
    /\ \A m, n \in DOMAIN lib.config :
          m # n => /\ lib.config[m].inputs \cap lib.config[n].inputs = {}
                   /\ lib.config[m].outputs \cap lib.config[n].outputs = {}

\* A mapping about to be committed and one that is listed are in libnvnmos.
AddedBacked ==
    \A h \in Handlers : handler[h].pc = "added" =>
        lib.config[handler[h].name] = [inputs |-> Ids(handler[h].inputs),
                                       outputs |-> Ids(handler[h].outputs)]

ListedBacked ==
    \A c \in DOMAIN cms :
        lib.config[cms[c].name] = [inputs |-> cms[c].inputs, outputs |-> cms[c].outputs]

Indexed ==
    \A c \in DOMAIN cms : cms[c].name \in DOMAIN byName /\ cms[c].outputs \subseteq DOMAIN byOutput

RInv ==
    /\ Typed
    /\ \A n \in Names : Claims(n)
    /\ ConfigHeld
    /\ AddedBacked
    /\ ListedBacked
    /\ Indexed
    /\ IndexesAgree
    /\ ControlsFollow

-----------------------------------------------------------------------------
(* The calls of libnvnmos. *)

\* A loop over the inputs or the outputs: it keeps what is there, and what it inserts is new.
LEMMA InsertAllFacts ==
    ASSUME NEW config, NEW acc, NEW type, NEW ios, Len(ios) \in Nat,
           NEW done, done = InsertAll(config, acc, type, ios)
    PROVE  /\ DOMAIN acc.res \subseteq DOMAIN done.res
           /\ \A k \in DOMAIN acc.res : done.res[k] = acc.res[k]
           /\ done.ok => /\ acc.ok
                         /\ \A i \in 1..Len(ios) :
                               /\ ~IdRecorded(config, type, ios[i].id)
                               /\ <<type, ios[i].id>> \in DOMAIN done.res
                         /\ \A i, j \in 1..Len(ios) : ios[i].id = ios[j].id => i = j
  <1>. DEFINE put == {i \in 1..Len(ios) :
                        acc.ok /\ \A j \in 1..i : ~Refused(config, acc.res, type, ios, j)}
              res == [k \in DOMAIN acc.res \cup {<<type, ios[i].id>> : i \in put} |->
                        IF k \in DOMAIN acc.res THEN acc.res[k]
                        ELSE NewIo(type, ios[CHOOSE i \in put : k = <<type, ios[i].id>>])]
  <1>1. done.res = res /\ (done.ok <=> acc.ok /\ put = 1..Len(ios))
    BY DEF InsertAll
  <1>2. ASSUME done.ok
        PROVE  /\ acc.ok
               /\ \A i \in 1..Len(ios) : ~Refused(config, acc.res, type, ios, i)
               /\ \A i \in 1..Len(ios) : i \in put
    BY <1>1, <1>2
  <1>3. ASSUME done.ok, NEW i \in 1..Len(ios), NEW j \in 1..Len(ios), i < j
        PROVE  ios[i].id # ios[j].id
    <2>1. ~Refused(config, acc.res, type, ios, j)
      BY <1>2, <1>3
    <2>2. i \in 1..(j - 1)
      BY <1>3
    <2>. HIDE DEF put, res
    <2>. QED  BY <2>1, <2>2 DEF Refused
  <1>4. ASSUME done.ok, NEW i \in 1..Len(ios), NEW j \in 1..Len(ios), ios[i].id = ios[j].id
        PROVE  i = j
    BY <1>3, <1>4
  <1>5. ASSUME done.ok, NEW i \in 1..Len(ios)
        PROVE  ~IdRecorded(config, type, ios[i].id) /\ <<type, ios[i].id>> \in DOMAIN done.res
    <2>1. ~IdRecorded(config, type, ios[i].id)
      BY <1>2, <1>5 DEF Refused
    <2>2. i \in put
      BY <1>2, <1>5
    <2>. HIDE DEF put
    <2>. QED  BY <1>1, <2>1, <2>2
  <1>6. DOMAIN acc.res \subseteq DOMAIN done.res
        /\ \A k \in DOMAIN acc.res : done.res[k] = acc.res[k]
    <2>. HIDE DEF put
    <2>. QED  BY <1>1
  <1>. QED  BY <1>2, <1>4, <1>5, <1>6

\* An add that succeeds enters the name, one that fails enters none.
LEMMA LibAddFacts ==
    ASSUME NEW l, LibShape(l), NEW name, NEW inputs, NEW outputs,
           Len(inputs) \in Nat, Len(outputs) \in Nat,
           NEW a, a = LibAdd(l, name, inputs, outputs)
    PROVE  /\ LibShape(a.lib)
           /\ DOMAIN l.res \subseteq DOMAIN a.lib.res
           /\ \A k \in DOMAIN l.res : a.lib.res[k] = l.res[k]
           /\ ~a.ok => a.lib.config = l.config /\ a.lib.control = l.control
           /\ a.ok => /\ name \notin DOMAIN l.config
                      /\ Ids(inputs) \cup Ids(outputs) # {}
                      /\ a.lib.config = With(l.config, name, [inputs |-> Ids(inputs),
                                                              outputs |-> Ids(outputs)])
                      /\ a.lib.control
                      /\ \A i \in Ids(inputs) : /\ <<"inputs", i>> \in DOMAIN a.lib.res
                                                /\ ~IdRecorded(l.config, "inputs", i)
                      /\ \A o \in Ids(outputs) : /\ <<"outputs", o>> \in DOMAIN a.lib.res
                                                 /\ ~IdRecorded(l.config, "outputs", o)
  <1>. DEFINE start == [res |-> l.res,
                        ok |-> name \notin DOMAIN l.config /\ Len(inputs) + Len(outputs) > 0]
              mid == InsertAll(l.config, start, "inputs", inputs)
              done == InsertAll(l.config, mid, "outputs", outputs)
  <1>1. start.res = l.res
        /\ (start.ok <=> name \notin DOMAIN l.config /\ Len(inputs) + Len(outputs) > 0)
    OBVIOUS
  <1>2. /\ a.ok <=> done.ok
        /\ ~done.ok => a.lib = [l EXCEPT !.res = done.res]
        /\ done.ok => a.lib = [config |-> With(l.config, name, [inputs |-> Ids(inputs),
                                                                 outputs |-> Ids(outputs)]),
                               res |-> done.res, control |-> TRUE]
    <2>1. a = [ok |-> done.ok,
               lib |-> IF ~done.ok THEN [l EXCEPT !.res = done.res]
                       ELSE [config |-> With(l.config, name, [inputs |-> Ids(inputs),
                                                              outputs |-> Ids(outputs)]),
                             res |-> done.res, control |-> TRUE]]
      BY DEF LibAdd
    <2>. HIDE DEF done
    <2>. QED  BY <2>1
  <1>3. /\ DOMAIN start.res \subseteq DOMAIN mid.res
        /\ \A k \in DOMAIN start.res : mid.res[k] = start.res[k]
        /\ mid.ok => /\ start.ok
                     /\ \A i \in 1..Len(inputs) :
                           /\ ~IdRecorded(l.config, "inputs", inputs[i].id)
                           /\ <<"inputs", inputs[i].id>> \in DOMAIN mid.res
    <2>. HIDE DEF start
    <2>. QED  BY InsertAllFacts
  <1>4. /\ DOMAIN mid.res \subseteq DOMAIN done.res
        /\ \A k \in DOMAIN mid.res : done.res[k] = mid.res[k]
        /\ done.ok => /\ mid.ok
                      /\ \A i \in 1..Len(outputs) :
                            /\ ~IdRecorded(l.config, "outputs", outputs[i].id)
                            /\ <<"outputs", outputs[i].id>> \in DOMAIN done.res
    <2>. HIDE DEF mid
    <2>. QED  BY InsertAllFacts
  <1>. HIDE DEF start, mid, done
  <1>5. a.lib.res = done.res /\ LibShape(a.lib)
        /\ (~a.ok => a.lib.config = l.config /\ a.lib.control = l.control)
    BY <1>2 DEF LibShape
  <1>6. DOMAIN l.res \subseteq DOMAIN a.lib.res /\ \A k \in DOMAIN l.res : a.lib.res[k] = l.res[k]
    BY <1>1, <1>3, <1>4, <1>5
  <1>7. ASSUME a.ok
        PROVE  /\ name \notin DOMAIN l.config
               /\ a.lib.config = With(l.config, name, [inputs |-> Ids(inputs),
                                                       outputs |-> Ids(outputs)])
               /\ a.lib.control
               /\ \A i \in Ids(inputs) : /\ <<"inputs", i>> \in DOMAIN a.lib.res
                                         /\ ~IdRecorded(l.config, "inputs", i)
               /\ \A o \in Ids(outputs) : /\ <<"outputs", o>> \in DOMAIN a.lib.res
                                          /\ ~IdRecorded(l.config, "outputs", o)
    <2>1. done.ok /\ mid.ok /\ start.ok
      BY <1>2, <1>3, <1>4, <1>7
    <2>2. name \notin DOMAIN l.config
      BY <1>1, <2>1
    <2>3. /\ a.lib.config = With(l.config, name, [inputs |-> Ids(inputs),
                                                  outputs |-> Ids(outputs)])
          /\ a.lib.control
      BY <1>2, <2>1
    <2>4. \A i \in Ids(inputs) : /\ <<"inputs", i>> \in DOMAIN a.lib.res
                                 /\ ~IdRecorded(l.config, "inputs", i)
      BY <1>3, <1>4, <1>5, <2>1 DEF Ids
    <2>5. \A o \in Ids(outputs) : /\ <<"outputs", o>> \in DOMAIN a.lib.res
                                  /\ ~IdRecorded(l.config, "outputs", o)
      BY <1>4, <1>5, <2>1 DEF Ids
    <2>. QED  BY <2>2, <2>3, <2>4, <2>5
  <1>8. ASSUME a.ok PROVE Ids(inputs) \cup Ids(outputs) # {}
    <2>1. Len(inputs) + Len(outputs) > 0
      BY <1>1, <1>2, <1>3, <1>4, <1>8
    <2>2. CASE Len(inputs) > 0
      <3>1. inputs[1].id \in Ids(inputs)
        BY <2>2 DEF Ids
      <3>. QED  BY <3>1
    <2>3. CASE Len(outputs) > 0
      <3>1. outputs[1].id \in Ids(outputs)
        BY <2>3 DEF Ids
      <3>. QED  BY <3>1
    <2>. QED  BY <2>1, <2>2, <2>3
  <1>. QED  BY <1>5, <1>6, <1>7, <1>8

LEMMA LibAddRes ==
    ASSUME NEW l, LibShape(l), NEW name, NEW inputs, NEW outputs,
           Len(inputs) \in Nat, Len(outputs) \in Nat,
           NEW a, a = LibAdd(l, name, inputs, outputs)
    PROVE  \A k \in DOMAIN l.res : a.lib.res[k] = l.res[k]
  <1>. DEFINE start == [res |-> l.res,
                        ok |-> name \notin DOMAIN l.config /\ Len(inputs) + Len(outputs) > 0]
              mid == InsertAll(l.config, start, "inputs", inputs)
              done == InsertAll(l.config, mid, "outputs", outputs)
  <1>1. start.res = l.res
    OBVIOUS
  <1>2. DOMAIN start.res \subseteq DOMAIN mid.res
        /\ \A k \in DOMAIN start.res : mid.res[k] = start.res[k]
    <2>. HIDE DEF start
    <2>. QED  BY InsertAllFacts
  <1>3. DOMAIN mid.res \subseteq DOMAIN done.res
        /\ \A k \in DOMAIN mid.res : done.res[k] = mid.res[k]
    <2>. HIDE DEF mid
    <2>. QED  BY InsertAllFacts
  <1>4. a.lib.res = done.res
    <2>1. a = [ok |-> done.ok,
               lib |-> IF ~done.ok THEN [l EXCEPT !.res = done.res]
                       ELSE [config |-> With(l.config, name, [inputs |-> Ids(inputs),
                                                              outputs |-> Ids(outputs)]),
                             res |-> done.res, control |-> TRUE]]
      BY DEF LibAdd
    <2>. HIDE DEF done
    <2>. QED  BY <2>1 DEF LibShape
  <1>. HIDE DEF start, mid, done
  <1>. QED  BY <1>1, <1>2, <1>3, <1>4

\* The ids of an add that succeeds are distinct.
LEMMA LibAddApart ==
    ASSUME NEW l, NEW name, NEW inputs, NEW outputs,
           Len(inputs) \in Nat, Len(outputs) \in Nat,
           NEW a, a = LibAdd(l, name, inputs, outputs), a.ok
    PROVE  /\ \A i, j \in 1..Len(inputs) : inputs[i].id = inputs[j].id => i = j
           /\ \A i, j \in 1..Len(outputs) : outputs[i].id = outputs[j].id => i = j
  <1>. DEFINE start == [res |-> l.res,
                        ok |-> name \notin DOMAIN l.config /\ Len(inputs) + Len(outputs) > 0]
              mid == InsertAll(l.config, start, "inputs", inputs)
              done == InsertAll(l.config, mid, "outputs", outputs)
  <1>1. mid.ok => \A i, j \in 1..Len(inputs) : inputs[i].id = inputs[j].id => i = j
    <2>. HIDE DEF start
    <2>. QED  BY InsertAllFacts
  <1>2. done.ok => /\ mid.ok
                   /\ \A i, j \in 1..Len(outputs) : outputs[i].id = outputs[j].id => i = j
    <2>. HIDE DEF mid
    <2>. QED  BY InsertAllFacts
  <1>3. done.ok
    BY DEF LibAdd
  <1>. HIDE DEF start, mid, done
  <1>. QED  BY <1>1, <1>2, <1>3

\* A remove takes the name with its inputs and outputs, and no others.
LEMMA LibRemoveFacts ==
    ASSUME NEW l, LibShape(l), NEW name, NEW r, r = LibRemove(l, name)
    PROVE  /\ LibShape(r)
           /\ name \notin DOMAIN l.config => r = l
           /\ name \in DOMAIN l.config =>
                 /\ DOMAIN r.config = DOMAIN l.config \ {name}
                 /\ \A n \in DOMAIN r.config : r.config[n] = l.config[n]
                 /\ DOMAIN r.res = DOMAIN l.res \
                       ({<<"inputs", i>> : i \in l.config[name].inputs}
                        \cup {<<"outputs", o>> : o \in l.config[name].outputs})
                 /\ \A k \in DOMAIN r.res : r.res[k] = l.res[k]
                 /\ r.control <=> l.control /\ DOMAIN r.res # {}
  <1>. DEFINE R == Without(l.res, {<<"inputs", i>> : i \in l.config[name].inputs}
                                  \cup {<<"outputs", o>> : o \in l.config[name].outputs})
  <1>1. CASE name \notin DOMAIN l.config
    BY <1>1 DEF LibRemove
  <1>2. CASE name \in DOMAIN l.config
    <2>1. r = [config |-> Without(l.config, {name}), res |-> R,
               control |-> ControlAfterRemove(R, l.control)]
      BY <1>2 DEF LibRemove
    <2>2. /\ DOMAIN R = DOMAIN l.res \
                       ({<<"inputs", i>> : i \in l.config[name].inputs}
                        \cup {<<"outputs", o>> : o \in l.config[name].outputs})
          /\ \A k \in DOMAIN R : R[k] = l.res[k]
      BY DEF Without
    <2>. HIDE DEF R
    <2>3. r.config = Without(l.config, {name}) /\ r.res = R
          /\ (r.control <=> ControlAfterRemove(R, l.control))
      BY <2>1
    <2>4. LibShape(r)
      BY <2>1 DEF LibShape
    <2>5. r.control <=> l.control /\ DOMAIN r.res # {}
      BY <2>3 DEF ControlAfterRemove
    <2>6. /\ DOMAIN r.config = DOMAIN l.config \ {name}
          /\ \A n \in DOMAIN r.config : r.config[n] = l.config[n]
      BY <2>3 DEF Without
    <2>. QED  BY <1>2, <2>2, <2>3, <2>4, <2>5, <2>6
  <1>. QED  BY <1>1, <1>2

-----------------------------------------------------------------------------
(* What a step may do to the registries. *)

\* The steps that neither list, unlist, enter nor remove a mapping.
Quiet ==
    /\ UNCHANGED <<cms, byName, byOutput, nextCm, open, removes>>
    /\ LibShape(lib)'
    /\ lib'.config = lib.config
    /\ lib'.control <=> lib.control
    /\ DOMAIN lib.res \subseteq DOMAIN lib'.res
    /\ DOMAIN handler' = Handlers
    /\ \A h \in Handlers :
          \/ handler'[h] = handler[h]
          \/ /\ handler[h].pc # "added" /\ handler'[h].pc # "added"
             /\ handler'[h].pc = "add" => AddShape(handler'[h])

\* Such a step preserves the invariant of the registries.
LEMMA QuietKeeps ==
    ASSUME RInv, Quiet
    PROVE  RInv'
  <1>. USE DEF RInv, Quiet
  <1>1. \A h \in Handlers : (handler'[h].pc = "added" <=> handler[h].pc = "added")
                            /\ (handler[h].pc = "added" => handler'[h] = handler[h])
    OBVIOUS
  <1>2. Typed'
    <2>1. \A h \in Handlers : handler'[h].pc \in {"add", "added"} => AddShape(handler'[h])
      BY DEF Typed
    <2>. QED  BY <2>1 DEF Typed
  <1>3. ASSUME NEW n \in Names PROVE Claims(n)'
    <2>1. Claims(n)
      OBVIOUS
    <2>2. \A h \in Handlers : IsAdding(h, n)' <=> IsAdding(h, n)
      BY <1>1 DEF IsAdding
    <2>3. (NoneListed(n)' <=> NoneListed(n)) /\ (NoneAdding(n)' <=> NoneAdding(n))
      BY <2>2 DEF NoneListed, NoneAdding
    <2>. QED  BY <2>1, <2>2, <2>3 DEF Claims
  <1>4. ConfigHeld'
    BY DEF ConfigHeld, Held
  <1>5. AddedBacked'
    BY <1>1 DEF AddedBacked
  <1>6. ListedBacked' /\ Indexed' /\ IndexesAgree'
    BY DEF ListedBacked, Indexed, IndexesAgree
  <1>7. ControlsFollow'
    BY DEF ControlsFollow
  <1>. QED  BY <1>2, <1>3, <1>4, <1>5, <1>6, <1>7

LEMMA PrepareQuiet ==
    ASSUME RInv, NEW h \in Handlers, NEW s, NEW req, req.name \in Names,
           Len(req.inputs) \in Nat, Len(req.outputs) \in Nat,
           PrepareAddChannelmapping(h, s, req)
    PROVE  Quiet
  <1>. DEFINE inputs == Effective("inputs", req.inputs)
              outputs == Effective("outputs", req.outputs)
              new == [pc |-> "add", name |-> req.name,
                      inputs |-> inputs, outputs |-> outputs, session |-> s]
  <1>1. Len(inputs) \in Nat /\ Len(outputs) \in Nat
    BY DEF Effective
  <1>2. handler' = [handler EXCEPT ![h] = new] \/ handler' = handler
    BY DEF PrepareAddChannelmapping
  <1>. HIDE DEF inputs, outputs
  <1>3. AddShape(new)
    BY <1>1 DEF AddShape
  <1>4. handler[h].pc # "added" /\ new.pc = "add"
    BY DEF PrepareAddChannelmapping, Idle
  <1>5. UNCHANGED <<cms, byName, byOutput, nextCm, open, removes, lib>>
    BY DEF PrepareAddChannelmapping, daemon
  <1>. HIDE DEF new
  <1>. QED  BY <1>2, <1>3, <1>4, <1>5 DEF Quiet, RInv, Typed

\* The call of libnvnmos between prepare and commit: its success is a new claim.
LEMMA AddFfiKeeps ==
    ASSUME RInv, NEW h \in Handlers, AddChannelmappingFfi(h)
    PROVE  RInv'
  <1>. DEFINE r == handler[h]
  <1>1. AddShape(r) /\ r.pc = "add"
    BY DEF RInv, Typed, AddChannelmappingFfi
  <1>2. PICK a : a = LibAdd(lib, r.name, r.inputs, r.outputs)
    OBVIOUS
  <1>3. /\ lib' = a.lib
        /\ a.ok => handler' = [handler EXCEPT ![h] = [r EXCEPT !.pc = "added"]]
        /\ ~a.ok => handler' = [handler EXCEPT ![h] = Idle]
        /\ UNCHANGED <<cms, byName, byOutput, nextCm, open, removes>>
    BY <1>2 DEF AddChannelmappingFfi, daemon
  <1>4. /\ LibShape(a.lib)
        /\ DOMAIN lib.res \subseteq DOMAIN a.lib.res
        /\ ~a.ok => a.lib.config = lib.config /\ a.lib.control = lib.control
        /\ a.ok => /\ r.name \notin DOMAIN lib.config
                   /\ Ids(r.inputs) \cup Ids(r.outputs) # {}
                   /\ a.lib.config = With(lib.config, r.name, [inputs |-> Ids(r.inputs),
                                                               outputs |-> Ids(r.outputs)])
                   /\ a.lib.control
                   /\ \A i \in Ids(r.inputs) : /\ <<"inputs", i>> \in DOMAIN a.lib.res
                                               /\ ~IdRecorded(lib.config, "inputs", i)
                   /\ \A o \in Ids(r.outputs) : /\ <<"outputs", o>> \in DOMAIN a.lib.res
                                                /\ ~IdRecorded(lib.config, "outputs", o)
    <2>1. LibShape(lib) /\ Len(r.inputs) \in Nat /\ Len(r.outputs) \in Nat
      BY <1>1 DEF RInv, Typed, AddShape
    <2>. HIDE DEF r
    <2>. QED  BY <1>2, <2>1, LibAddFacts
  <1>5. CASE ~a.ok
    <2>1. Idle.pc = "idle"
      BY DEF Idle
    <2>2. Quiet
      BY <1>1, <1>3, <1>4, <1>5, <2>1 DEF Quiet, RInv, Typed
    <2>. QED  BY <2>2, QuietKeeps
  <1>6. CASE a.ok
    <2>. DEFINE n == r.name
                ids == [inputs |-> Ids(r.inputs), outputs |-> Ids(r.outputs)]
    <2>1. PICK new : new = [r EXCEPT !.pc = "added"]
      OBVIOUS
    <2>2. /\ new.pc = "added" /\ new.name = n /\ new.inputs = r.inputs
          /\ new.outputs = r.outputs /\ AddShape(new) /\ n \in Names
      BY <1>1, <2>1 DEF AddShape
    <2>3. handler' = [handler EXCEPT ![h] = new]
      BY <1>3, <1>6, <2>1
    <2>4. /\ DOMAIN handler' = Handlers /\ handler'[h] = new
          /\ \A g \in Handlers : g # h => handler'[g] = handler[g]
      BY <2>3 DEF RInv, Typed
    <2>5. /\ DOMAIN lib'.config = DOMAIN lib.config \cup {n} /\ n \notin DOMAIN lib.config
          /\ lib'.config[n] = ids
          /\ \A m \in DOMAIN lib.config : lib'.config[m] = lib.config[m]
      BY <1>3, <1>4, <1>6 DEF With
    <2>6. Claims(n) /\ NoneListed(n) /\ NoneAdding(n) /\ removes[n] = 0
      BY <2>2, <2>5 DEF RInv, Claims
    <2>7. Typed'
      <3>1. \A g \in Handlers : handler'[g].pc \in {"add", "added"} => AddShape(handler'[g])
        BY <2>2, <2>4 DEF RInv, Typed
      <3>2. DOMAIN lib'.config \subseteq Names
        BY <2>2, <2>5 DEF RInv, Typed
      <3>3. LibShape(lib')
        BY <1>3, <1>4
      <3>. QED  BY <1>3, <2>4, <3>1, <3>2, <3>3 DEF RInv, Typed
    <2>8. ASSUME NEW m \in Names PROVE Claims(m)'
      <3>1. Claims(m)
        BY DEF RInv
      <3>2. NoneListed(m)' <=> NoneListed(m)
        BY <1>3 DEF NoneListed
      <3>3. CASE m = n
        <4>1. IsAdding(h, m)' /\ \A g \in Handlers : IsAdding(g, m)' => g = h
          BY <2>2, <2>4, <2>6, <3>3 DEF IsAdding, NoneAdding
        <4>2. m \in DOMAIN lib'.config /\ NoneListed(m)' /\ removes'[m] = 0
          BY <1>3, <2>5, <2>6, <3>2, <3>3
        <4>. QED  BY <4>1, <4>2 DEF Claims
      <3>4. CASE m # n
        <4>1. \A g \in Handlers : IsAdding(g, m)' <=> IsAdding(g, m)
          BY <1>1, <2>2, <2>4, <3>4 DEF IsAdding
        <4>2. NoneAdding(m)' <=> NoneAdding(m)
          BY <4>1 DEF NoneAdding
        <4>3. m \in DOMAIN lib'.config <=> m \in DOMAIN lib.config
          BY <2>5, <3>4
        <4>. QED  BY <1>3, <3>1, <3>2, <4>1, <4>2, <4>3 DEF Claims
      <3>. QED  BY <3>3, <3>4
    <2>9. ConfigHeld'
      <3>1. Held(lib', n)
        BY <1>3, <1>4, <1>6, <2>5 DEF Held
      <3>2. ASSUME NEW m \in DOMAIN lib.config PROVE Held(lib', m)
        BY <1>3, <1>4, <2>5 DEF Held, RInv, ConfigHeld
      <3>3. ASSUME NEW m \in DOMAIN lib.config
            PROVE  /\ lib'.config[m].inputs \cap lib'.config[n].inputs = {}
                   /\ lib'.config[m].outputs \cap lib'.config[n].outputs = {}
        <4>1. /\ \A i \in Ids(r.inputs) : i \notin lib.config[m].inputs
              /\ \A o \in Ids(r.outputs) : o \notin lib.config[m].outputs
          BY <1>4, <1>6 DEF IdRecorded
        <4>. QED  BY <2>5, <4>1
      <3>4. ASSUME NEW m \in DOMAIN lib.config, NEW k \in DOMAIN lib.config, m # k
            PROVE  /\ lib'.config[m].inputs \cap lib'.config[k].inputs = {}
                   /\ lib'.config[m].outputs \cap lib'.config[k].outputs = {}
        BY <2>5, <3>4 DEF RInv, ConfigHeld
      <3>5. \A m \in DOMAIN lib'.config : Held(lib', m)
        BY <2>5, <3>1, <3>2
      <3>6. ASSUME NEW m \in DOMAIN lib'.config, NEW k \in DOMAIN lib'.config, m # k
            PROVE  /\ lib'.config[m].inputs \cap lib'.config[k].inputs = {}
                   /\ lib'.config[m].outputs \cap lib'.config[k].outputs = {}
        <4>1. CASE m = n
          BY <2>5, <3>3, <3>6, <4>1
        <4>2. CASE k = n
          BY <2>5, <3>3, <3>6, <4>2
        <4>3. CASE m # n /\ k # n
          BY <2>5, <3>4, <3>6, <4>3
        <4>. QED  BY <4>1, <4>2, <4>3
      <3>. QED  BY <3>5, <3>6 DEF ConfigHeld
    <2>10. AddedBacked'
      <3>. SUFFICES ASSUME NEW g \in Handlers, handler'[g].pc = "added"
                    PROVE  lib'.config[handler'[g].name]
                             = [inputs |-> Ids(handler'[g].inputs),
                                outputs |-> Ids(handler'[g].outputs)]
        BY DEF AddedBacked
      <3>1. CASE g = h
        BY <2>2, <2>4, <2>5, <3>1
      <3>2. CASE g # h
        <4>1. handler'[g] = handler[g] /\ handler[g].name # n
          BY <2>4, <2>6, <3>2 DEF NoneAdding, IsAdding
        <4>2. handler[g].name \in DOMAIN lib.config
          BY <4>1 DEF RInv, Claims, NoneAdding, IsAdding, Typed, AddShape
        <4>. QED  BY <2>5, <4>1, <4>2 DEF RInv, AddedBacked
      <3>. QED  BY <3>1, <3>2
    <2>11. ListedBacked'
      <3>. SUFFICES ASSUME NEW c \in DOMAIN cms
                    PROVE  lib'.config[cms[c].name] = [inputs |-> cms[c].inputs,
                                                       outputs |-> cms[c].outputs]
        BY <1>3 DEF ListedBacked
      <3>1. cms[c].name \in DOMAIN lib.config
        BY DEF RInv, Claims, NoneListed, Typed
      <3>. QED  BY <2>5, <3>1 DEF RInv, ListedBacked
    <2>12. Indexed' /\ IndexesAgree'
      BY <1>3 DEF RInv, Indexed, IndexesAgree
    <2>13. ControlsFollow'
      <3>1. lib'.control
        BY <1>3, <1>4, <1>6
      <3>2. DOMAIN lib'.res # {}
        BY <1>3, <1>4, <1>6
      <3>. QED  BY <3>1, <3>2 DEF ControlsFollow
    <2>. QED  BY <2>7, <2>8, <2>9, <2>10, <2>11, <2>12, <2>13 DEF RInv
  <1>. QED  BY <1>5, <1>6

\* The claim of the handler becomes that of the listed mapping, or of a remove.
LEMMA CommitKeeps ==
    ASSUME RInv, NEW h \in Handlers, CommitAddChannelmapping(h)
    PROVE  RInv'
  <1>1. PICK n, s, ins, outs : /\ n = handler[h].name /\ s = handler[h].session
                               /\ ins = Ids(handler[h].inputs)
                               /\ outs = Ids(handler[h].outputs)
    OBVIOUS
  <1>2. handler[h].pc = "added" /\ AddShape(handler[h]) /\ n \in Names
    BY <1>1 DEF RInv, Typed, CommitAddChannelmapping, AddShape
  <1>3. /\ handler' = [handler EXCEPT ![h] = Idle] /\ lib' = lib
        /\ DOMAIN handler' = Handlers
        /\ handler'[h].pc = "idle" /\ \A g \in Handlers : g # h => handler'[g] = handler[g]
    BY DEF CommitAddChannelmapping, RInv, Typed, Idle
  <1>4. /\ n \in DOMAIN lib.config /\ NoneListed(n) /\ removes[n] = 0
        /\ \A g \in Handlers : IsAdding(g, n) => g = h
        /\ lib.config[n] = [inputs |-> ins, outputs |-> outs]
    <2>1. Claims(n) /\ IsAdding(h, n)
      BY <1>1, <1>2 DEF RInv, IsAdding
    <2>. QED  BY <1>1, <1>2, <2>1 DEF RInv, Claims, NoneAdding, AddedBacked
  <1>5. NoneAdding(n)'
    BY <1>3, <1>4 DEF NoneAdding, IsAdding
  <1>6. ASSUME NEW m \in Names, m # n
        PROVE  /\ \A g \in Handlers : IsAdding(g, m)' <=> IsAdding(g, m)
               /\ NoneAdding(m)' <=> NoneAdding(m)
    <2>1. \A g \in Handlers : IsAdding(g, m)' <=> IsAdding(g, m)
      BY <1>1, <1>3, <1>6 DEF IsAdding
    <2>. QED  BY <2>1 DEF NoneAdding
  <1>7. \A g \in Handlers : handler'[g].pc \in {"add", "added"} => AddShape(handler'[g])
    BY <1>3 DEF RInv, Typed
  <1>8. ConfigHeld' /\ ControlsFollow'
    BY <1>3 DEF RInv, ConfigHeld, ControlsFollow, Held
  <1>9. AddedBacked'
    BY <1>3 DEF RInv, AddedBacked
  <1>10. CASE s \notin open
    <2>1. UNCHANGED <<cms, byName, byOutput, nextCm, open>>
          /\ removes' = [removes EXCEPT ![n] = @ + 1]
      BY <1>1, <1>10 DEF CommitAddChannelmapping, StillOpen, daemon, Compensation
    <2>2. removes' \in [Names -> Nat] /\ removes'[n] = 1
          /\ \A m \in Names : m # n => removes'[m] = removes[m]
      BY <1>2, <1>4, <2>1 DEF RInv, Typed
    <2>3. Typed'
      BY <1>3, <1>7, <2>1, <2>2 DEF RInv, Typed
    <2>4. ASSUME NEW m \in Names PROVE Claims(m)'
      <3>1. NoneListed(m)' <=> NoneListed(m)
        BY <2>1 DEF NoneListed
      <3>2. CASE m = n
        BY <1>3, <1>4, <1>5, <2>2, <3>1, <3>2 DEF Claims
      <3>3. CASE m # n
        BY <1>3, <1>6, <2>2, <3>1, <3>3 DEF RInv, Claims
      <3>. QED  BY <3>2, <3>3
    <2>5. ListedBacked' /\ Indexed' /\ IndexesAgree'
      BY <1>3, <2>1 DEF RInv, ListedBacked, Indexed, IndexesAgree
    <2>. QED  BY <1>8, <1>9, <2>3, <2>4, <2>5 DEF RInv
  <1>11. CASE s \in open
    <2>1. PICK e : e = [name |-> n, session |-> s, inputs |-> ins, outputs |-> outs]
      OBVIOUS
    <2>2. /\ cms' = With(cms, nextCm, e)
          /\ byName' = With(byName, n, nextCm)
          /\ byOutput' = [o \in DOMAIN byOutput \cup outs |->
                             IF o \in outs THEN nextCm ELSE byOutput[o]]
          /\ nextCm' = nextCm + 1
          /\ UNCHANGED <<open, removes>>
      BY <1>1, <1>11, <2>1 DEF CommitAddChannelmapping, StillOpen
    <2>3. /\ DOMAIN cms' = DOMAIN cms \cup {nextCm} /\ nextCm \notin DOMAIN cms
          /\ cms'[nextCm] = e /\ \A c \in DOMAIN cms : cms'[c] = cms[c]
      BY <2>2 DEF With, RInv, Typed
    <2>4. e.name = n /\ e.session = s /\ e.inputs = ins /\ e.outputs = outs
      BY <2>1
    <2>5. ASSUME NEW c \in DOMAIN cms
          PROVE  /\ cms[c].name # n /\ cms[c].name \in DOMAIN lib.config
                 /\ cms[c].inputs \cap ins = {} /\ cms[c].outputs \cap outs = {}
      <3>1. cms[c].name # n
        BY <1>4 DEF NoneListed
      <3>2. cms[c].name \in DOMAIN lib.config
        BY DEF RInv, Claims, NoneListed, Typed
      <3>3. /\ lib.config[cms[c].name].inputs = cms[c].inputs
            /\ lib.config[cms[c].name].outputs = cms[c].outputs
            /\ lib.config[n].inputs = ins /\ lib.config[n].outputs = outs
        <4>1. lib.config[cms[c].name] = [inputs |-> cms[c].inputs, outputs |-> cms[c].outputs]
          BY DEF RInv, ListedBacked
        <4>. QED  BY <1>4, <4>1
      <3>4. /\ lib.config[cms[c].name].inputs \cap lib.config[n].inputs = {}
            /\ lib.config[cms[c].name].outputs \cap lib.config[n].outputs = {}
        BY <1>4, <3>1, <3>2 DEF RInv, ConfigHeld
      <3>. QED  BY <3>1, <3>2, <3>3, <3>4
    <2>6. Typed'
      <3>1. \A c \in DOMAIN cms' : c \in Nat /\ c # 0 /\ c < nextCm' /\ cms'[c].name \in Names
        BY <1>2, <2>2, <2>3, <2>4 DEF RInv, Typed
      <3>. QED  BY <1>3, <1>7, <2>2, <3>1 DEF RInv, Typed
    <2>7. ASSUME NEW m \in Names PROVE Claims(m)'
      <3>1. CASE m = n
        <4>1. ~NoneListed(m)'
          BY <2>3, <2>4, <3>1 DEF NoneListed
        <4>. QED  BY <1>3, <1>4, <1>5, <2>2, <3>1, <4>1 DEF Claims
      <3>2. CASE m # n
        <4>1. NoneListed(m)' <=> NoneListed(m)
          BY <2>3, <2>4, <3>2 DEF NoneListed
        <4>. QED  BY <1>3, <1>6, <2>2, <3>2, <4>1 DEF RInv, Claims
      <3>. QED  BY <3>1, <3>2
    <2>8. ListedBacked'
      BY <1>3, <1>4, <2>3, <2>4 DEF RInv, ListedBacked
    <2>9. /\ DOMAIN byName' = DOMAIN byName \cup {n} /\ byName'[n] = nextCm
          /\ \A m \in DOMAIN byName : m # n => byName'[m] = byName[m]
      BY <2>2 DEF With
    <2>10. /\ DOMAIN byOutput' = DOMAIN byOutput \cup outs
           /\ \A o \in outs : byOutput'[o] = nextCm
           /\ \A o \in DOMAIN byOutput : o \notin outs => byOutput'[o] = byOutput[o]
      BY <2>2
    <2>11. Indexed'
      BY <2>3, <2>4, <2>9, <2>10 DEF RInv, Indexed
    <2>12. IndexesAgree'
      <3>1. ASSUME NEW c \in DOMAIN cms'
            PROVE  /\ cms'[c].session \in open'
                   /\ byName'[cms'[c].name] = c
                   /\ \A o \in cms'[c].outputs : byOutput'[o] = c
        <4>1. CASE c = nextCm
          BY <1>11, <2>2, <2>3, <2>4, <2>9, <2>10, <4>1
        <4>2. CASE c # nextCm
          BY <2>2, <2>3, <2>5, <2>9, <2>10, <4>2 DEF RInv, Indexed, IndexesAgree
        <4>. QED  BY <4>1, <4>2
      <3>2. \A m \in DOMAIN byName' : byName'[m] \in DOMAIN cms' /\ cms'[byName'[m]].name = m
        BY <2>3, <2>4, <2>9 DEF RInv, IndexesAgree
      <3>3. \A o \in DOMAIN byOutput' : byOutput'[o] \in DOMAIN cms'
                                        /\ o \in cms'[byOutput'[o]].outputs
        BY <2>3, <2>4, <2>10 DEF RInv, IndexesAgree
      <3>4. \A c, d \in DOMAIN cms' : c # d => cms'[c].inputs \cap cms'[d].inputs = {}
        BY <2>3, <2>4, <2>5 DEF RInv, IndexesAgree
      <3>. QED  BY <3>1, <3>2, <3>3, <3>4 DEF IndexesAgree
    <2>. QED  BY <1>8, <1>9, <2>6, <2>7, <2>8, <2>11, <2>12 DEF RInv
  <1>. QED  BY <1>10, <1>11

\* The claim of a listed mapping becomes that of a deferred remove.
LEMMA UnlistedKeeps ==
    ASSUME RInv, NEW C \in SUBSET DOMAIN cms, Unlisted(C), nextCm' = nextCm,
           lib' = lib, handler' = handler,
           \A c \in DOMAIN cms \ C : cms[c].session \in open'
    PROVE  RInv'
  <1>1. /\ DOMAIN cms' = DOMAIN cms \ C
        /\ \A c \in DOMAIN cms' : cms'[c] = cms[c]
        /\ DOMAIN byName' = DOMAIN byName \ {cms[c].name : c \in C}
        /\ \A n \in DOMAIN byName' : byName'[n] = byName[n]
        /\ DOMAIN byOutput' = DOMAIN byOutput \ UNION {cms[c].outputs : c \in C}
        /\ \A o \in DOMAIN byOutput' : byOutput'[o] = byOutput[o]
    BY DEF Unlisted, Without
  <1>2. removes' = [n \in Names |-> removes[n]
                                     + (IF \E c \in C : cms[c].name = n THEN 1 ELSE 0)]
    BY DEF Unlisted
  <1>3. removes' \in [Names -> Nat]
    BY <1>2 DEF RInv, Typed
  <1>4. Typed'
    BY <1>1, <1>3 DEF RInv, Typed
  <1>5. ASSUME NEW n \in Names PROVE Claims(n)'
    <2>1. /\ \A g \in Handlers : IsAdding(g, n)' <=> IsAdding(g, n)
          /\ NoneAdding(n)' <=> NoneAdding(n)
      BY DEF IsAdding, NoneAdding
    <2>2. CASE \E c \in C : cms[c].name = n
      <3>1. PICK c \in C : cms[c].name = n
        BY <2>2
      <3>2. NoneListed(n)'
        BY <1>1, <3>1 DEF RInv, IndexesAgree, NoneListed
      <3>3. n \in DOMAIN lib.config /\ NoneAdding(n) /\ removes[n] = 0
        BY <3>1 DEF RInv, Claims, NoneListed
      <3>4. removes'[n] = 1
        BY <1>2, <2>2, <3>3
      <3>. QED  BY <2>1, <3>2, <3>3, <3>4 DEF Claims
    <2>3. CASE ~\E c \in C : cms[c].name = n
      <3>1. NoneListed(n)' <=> NoneListed(n)
        BY <1>1, <2>3 DEF NoneListed
      <3>2. removes'[n] = removes[n]
        BY <1>2, <2>3 DEF RInv, Typed
      <3>. QED  BY <2>1, <3>1, <3>2 DEF RInv, Claims
    <2>. QED  BY <2>2, <2>3
  <1>6. ConfigHeld' /\ ControlsFollow' /\ AddedBacked'
    BY DEF RInv, ConfigHeld, ControlsFollow, Held, AddedBacked
  <1>7. ListedBacked'
    BY <1>1 DEF RInv, ListedBacked
  <1>8. ASSUME NEW c \in DOMAIN cms'
        PROVE  cms[c].name \in DOMAIN byName' /\ cms[c].outputs \subseteq DOMAIN byOutput'
    BY <1>1, <1>8 DEF RInv, Indexed, IndexesAgree
  <1>9. Indexed'
    BY <1>1, <1>8 DEF Indexed
  <1>10. IndexesAgree'
    <2>1. \A c \in DOMAIN cms' : /\ cms'[c].session \in open'
                                 /\ byName'[cms'[c].name] = c
                                 /\ \A o \in cms'[c].outputs : byOutput'[o] = c
      BY <1>1, <1>8 DEF RInv, IndexesAgree
    <2>2. \A n \in DOMAIN byName' : byName'[n] \in DOMAIN cms' /\ cms'[byName'[n]].name = n
      BY <1>1 DEF RInv, IndexesAgree
    <2>3. \A o \in DOMAIN byOutput' : byOutput'[o] \in DOMAIN cms'
                                      /\ o \in cms'[byOutput'[o]].outputs
      BY <1>1 DEF RInv, IndexesAgree
    <2>4. \A c, d \in DOMAIN cms' : c # d => cms'[c].inputs \cap cms'[d].inputs = {}
      BY <1>1 DEF RInv, IndexesAgree
    <2>. QED  BY <2>1, <2>2, <2>3, <2>4 DEF IndexesAgree
  <1>. QED  BY <1>4, <1>5, <1>6, <1>7, <1>9, <1>10 DEF RInv

\* The remove that runs is the only claim on the name it removes.
LEMMA RemoveFfiKeeps ==
    ASSUME RInv, NEW n \in Names, RemoveChannelmappingFfi(n)
    PROVE  RInv'
  <1>1. /\ removes[n] > 0 /\ removes' = [removes EXCEPT ![n] = @ - 1]
        /\ lib' = LibRemove(lib, n)
        /\ UNCHANGED <<cms, byName, byOutput, nextCm, open, handler>>
    BY DEF RemoveChannelmappingFfi, daemon
  <1>2. /\ n \in DOMAIN lib.config /\ removes[n] = 1
        /\ NoneListed(n) /\ NoneAdding(n)
    BY <1>1 DEF RInv, Claims
  <1>3. PICK r : r = LibRemove(lib, n)
    OBVIOUS
  <1>4. /\ LibShape(r)
        /\ DOMAIN r.config = DOMAIN lib.config \ {n}
        /\ \A m \in DOMAIN r.config : r.config[m] = lib.config[m]
        /\ DOMAIN r.res = DOMAIN lib.res \
              ({<<"inputs", i>> : i \in lib.config[n].inputs}
               \cup {<<"outputs", o>> : o \in lib.config[n].outputs})
        /\ r.control <=> lib.control /\ DOMAIN r.res # {}
    BY <1>2, <1>3, LibRemoveFacts DEF RInv, Typed
  <1>5. lib' = r
    BY <1>1, <1>3
  <1>6. removes' \in [Names -> Nat] /\ removes'[n] = 0
        /\ \A m \in Names : m # n => removes'[m] = removes[m]
    BY <1>1, <1>2 DEF RInv, Typed
  <1>7. Typed'
    BY <1>1, <1>4, <1>5, <1>6 DEF RInv, Typed
  <1>8. ASSUME NEW m \in Names PROVE Claims(m)'
    <2>1. /\ \A g \in Handlers : IsAdding(g, m)' <=> IsAdding(g, m)
          /\ NoneAdding(m)' <=> NoneAdding(m)
          /\ NoneListed(m)' <=> NoneListed(m)
      BY <1>1 DEF IsAdding, NoneAdding, NoneListed
    <2>2. CASE m = n
      BY <1>2, <1>4, <1>5, <1>6, <2>1, <2>2 DEF Claims
    <2>3. CASE m # n
      <3>1. m \in DOMAIN lib'.config <=> m \in DOMAIN lib.config
        BY <1>4, <1>5, <2>3
      <3>. QED  BY <1>6, <2>1, <2>3, <3>1 DEF RInv, Claims
    <2>. QED  BY <2>2, <2>3
  <1>9. ConfigHeld'
    <2>1. ASSUME NEW m \in DOMAIN r.config PROVE Held(r, m)
      <3>1. /\ m # n /\ m \in DOMAIN lib.config /\ r.config[m] = lib.config[m]
            /\ lib.config[m].inputs \cap lib.config[n].inputs = {}
            /\ lib.config[m].outputs \cap lib.config[n].outputs = {}
            /\ Held(lib, m)
        BY <1>2, <1>4 DEF RInv, ConfigHeld
      <3>2. \A i \in lib.config[m].inputs : <<"inputs", i>> \in DOMAIN r.res
        BY <1>4, <3>1 DEF Held
      <3>3. \A o \in lib.config[m].outputs : <<"outputs", o>> \in DOMAIN r.res
        BY <1>4, <3>1 DEF Held
      <3>. QED  BY <3>1, <3>2, <3>3 DEF Held
    <2>2. \A m, k \in DOMAIN r.config :
             m # k => /\ r.config[m].inputs \cap r.config[k].inputs = {}
                      /\ r.config[m].outputs \cap r.config[k].outputs = {}
      BY <1>4 DEF RInv, ConfigHeld
    <2>. QED  BY <1>5, <2>1, <2>2 DEF ConfigHeld
  <1>10. AddedBacked'
    <2>. SUFFICES ASSUME NEW g \in Handlers, handler[g].pc = "added"
                  PROVE  lib'.config[handler[g].name] = [inputs |-> Ids(handler[g].inputs),
                                                        outputs |-> Ids(handler[g].outputs)]
      BY <1>1 DEF AddedBacked
    <2>1. handler[g].name # n /\ handler[g].name \in DOMAIN lib.config
      BY <1>2 DEF RInv, Claims, NoneAdding, IsAdding, Typed, AddShape
    <2>. QED  BY <1>4, <1>5, <2>1 DEF RInv, AddedBacked
  <1>11. ListedBacked'
    <2>. SUFFICES ASSUME NEW c \in DOMAIN cms
                  PROVE  lib'.config[cms[c].name] = [inputs |-> cms[c].inputs,
                                                     outputs |-> cms[c].outputs]
      BY <1>1 DEF ListedBacked
    <2>1. cms[c].name # n /\ cms[c].name \in DOMAIN lib.config
      BY <1>2 DEF RInv, Claims, NoneListed, Typed
    <2>. QED  BY <1>4, <1>5, <2>1 DEF RInv, ListedBacked
  <1>12. Indexed' /\ IndexesAgree'
    BY <1>1 DEF RInv, Indexed, IndexesAgree
  <1>13. ControlsFollow'
    <2>1. ASSUME NEW m \in DOMAIN r.config PROVE r.control /\ DOMAIN r.res # {}
      <3>1. lib.control
        BY <1>2 DEF RInv, ControlsFollow
      <3>2. Held(lib', m) /\ lib' = r
        BY <1>5, <1>9 DEF ConfigHeld
      <3>3. DOMAIN r.res # {}
        BY <3>2 DEF Held
      <3>. QED  BY <1>4, <3>1, <3>3
    <2>. QED  BY <1>4, <1>5, <2>1 DEF ControlsFollow
  <1>. QED  BY <1>7, <1>8, <1>9, <1>10, <1>11, <1>12, <1>13 DEF RInv

\* A step of the router, or of the element alone.
LEMMA SameIsQuiet ==
    ASSUME RInv, UNCHANGED <<daemon, lib, handler, removes>>
    PROVE  Quiet
  BY DEF RInv, Typed, Quiet, daemon

LEMMA SyncQuiet ==
    ASSUME RInv, NEW h \in Handlers, NEW c, NEW o, NEW map,
           SyncChannelmappingState(h, c, o, map)
    PROVE  Quiet
  <1>1. PICK new : new = [pc |-> "sync", name |-> cms[c].name, output |-> o, map |-> map]
    OBVIOUS
  <1>2. new.pc = "sync" /\ handler[h].pc = "idle" /\ handler' = [handler EXCEPT ![h] = new]
    BY <1>1 DEF SyncChannelmappingState, Idle
  <1>3. UNCHANGED <<daemon, lib, removes>>
    BY DEF SyncChannelmappingState
  <1>. QED  BY <1>2, <1>3 DEF RInv, Typed, Quiet, daemon

\* What is written into an active map leaves the rest of the model.
LEMMA MapWritten ==
    ASSUME NEW l, LibShape(l), NEW k, NEW map, NEW w, w = [l EXCEPT !.res[k] = map]
    PROVE  /\ LibShape(w) /\ w.config = l.config /\ (w.control <=> l.control)
           /\ DOMAIN w.res = DOMAIN l.res
           /\ \A j \in DOMAIN l.res : w.res[j] = IF j = k THEN map ELSE l.res[j]
  <1>1. w = [config |-> l.config, res |-> [l.res EXCEPT ![k] = map], control |-> l.control]
    BY DEF LibShape
  <1>2. w.config = l.config /\ w.res = [l.res EXCEPT ![k] = map] /\ w.control = l.control
    BY <1>1
  <1>. QED  BY <1>1, <1>2 DEF LibShape

LEMMA SyncFfiQuiet ==
    ASSUME RInv, NEW h \in Handlers, SyncChannelmappingFfi(h)
    PROVE  Quiet
  <1>1. /\ handler[h].pc = "sync" /\ handler' = [handler EXCEPT ![h] = Idle]
        /\ Idle.pc = "idle"
        /\ UNCHANGED <<daemon, removes>>
    BY DEF SyncChannelmappingFfi, Idle
  <1>2. PICK k, map : k = <<"outputs", handler[h].output>> /\ map = handler[h].map
    OBVIOUS
  <1>3. lib' = lib \/ lib' = [lib EXCEPT !.res[k] = map]
    BY <1>2 DEF SyncChannelmappingFfi
  <1>4. LibShape(lib)
    BY DEF RInv, Typed
  <1>5. LibShape(lib') /\ lib'.config = lib.config /\ (lib'.control <=> lib.control)
        /\ DOMAIN lib'.res = DOMAIN lib.res
    BY <1>3, <1>4, MapWritten
  <1>. QED  BY <1>1, <1>5 DEF RInv, Typed, Quiet, daemon

LEMMA ActivateQuiet ==
    ASSUME RInv, NEW o, NEW map, Activate(o, map)
    PROVE  Quiet
  <1>1. lib' = [lib EXCEPT !.res[<<"outputs", o>>] = map]
        /\ UNCHANGED <<daemon, handler, removes>>
    BY DEF Activate
  <1>2. LibShape(lib)
    BY DEF RInv, Typed
  <1>3. LibShape(lib') /\ lib'.config = lib.config /\ (lib'.control <=> lib.control)
        /\ DOMAIN lib'.res = DOMAIN lib.res
    BY <1>1, <1>2, MapWritten
  <1>. QED  BY <1>1, <1>3 DEF RInv, Typed, Quiet, daemon

LEMMA CloseKeeps ==
    ASSUME RInv, NEW s, CloseSession(s)
    PROVE  RInv'
  <1>. DEFINE C == {c \in DOMAIN cms : cms[c].session = s}
  <1>1. /\ C \in SUBSET DOMAIN cms /\ Unlisted(C)
        /\ \A c \in DOMAIN cms \ C : cms[c].session \in open'
        /\ nextCm' = nextCm /\ lib' = lib /\ handler' = handler
    BY DEF CloseSession, RInv, IndexesAgree
  <1>. HIDE DEF C
  <1>. QED  BY <1>1, UnlistedKeeps

LEMMA RemoveKeeps ==
    ASSUME RInv, NEW c, RemoveChannelmapping(c)
    PROVE  RInv'
  <1>1. /\ {c} \in SUBSET DOMAIN cms /\ Unlisted({c})
        /\ \A d \in DOMAIN cms \ {c} : cms[d].session \in open'
        /\ nextCm' = nextCm /\ lib' = lib /\ handler' = handler
    BY DEF RemoveChannelmapping, RInv, IndexesAgree
  <1>. QED  BY <1>1, UnlistedKeeps

LEMMA ClientStepKeeps ==
    ASSUME RInv, NEW s, NEW h \in Handlers, ClientStep(s, h)
    PROVE  RInv'
  <1>1. ASSUME NEW r \in Requests, PrepareAddChannelmapping(h, s, r)
        PROVE  RInv'
    BY <1>1, RequestsAssumption, PrepareQuiet, QuietKeeps
  <1>2. ASSUME NEW c, RemoveChannelmapping(c)
        PROVE  RInv'
    BY <1>2, RemoveKeeps
  <1>3. ASSUME NEW c, NEW m, NEW o, SyncChannelmappingState(h, c, o, m)
        PROVE  RInv'
    BY <1>3, SyncQuiet, QuietKeeps
  <1>4. ASSUME CloseSession(s)
        PROVE  RInv'
    BY <1>4, CloseKeeps
  <1>5. ASSUME \/ SubscribeChannelmapping(s) \/ StreamDropped(s) \/ ReadEvent(s)
               \/ \E a \in DOMAIN pending : AckChannelmappingActivation(s, a)
        PROVE  RInv'
    <2>1. UNCHANGED <<daemon, lib, handler, removes>>
      BY <1>5 DEF SubscribeChannelmapping, StreamDropped, ReadEvent,
                  AckChannelmappingActivation
    <2>. QED  BY <2>1, SameIsQuiet, QuietKeeps
  <1>. QED  BY <1>1, <1>2, <1>3, <1>4, <1>5 DEF ClientStep

LEMMA RequestFits ==
    ASSUME NEW s, Len(s.sinks) \in Nat, Len(s.srcs) \in Nat
    PROVE  /\ AddRequest(s).name \in Names
           /\ Len(AddRequest(s).inputs) \in Nat /\ Len(AddRequest(s).outputs) \in Nat
  <1>1. AddRequest(s).name = ElementName
        /\ Len(AddRequest(s).inputs) = Len(s.sinks) /\ Len(AddRequest(s).outputs) = Len(s.srcs)
    BY DEF AddRequest, Effective
  <1>. QED  BY <1>1, ElementAssumption

\* The application is done with the pads once the element is closed.
PadsSet == phase # "closed" => pads \in PadConfigs

LEMMA PadsSetKept ==
    ASSUME PadsSet, [Next]_allVars
    PROVE  PadsSet'
  <1>1. ASSUME ElementStep PROVE PadsSet'
    BY <1>1 DEF PadsSet, ElementStep, ConfigurePads, NullToReady, ReadyToPaused, ReadyToNull,
         AddAnswered, BuildInternals, StoreGraph, SyncOutput, SyncOutputFfi, SyncAnswered,
         TakeGraph, ForgetTopology, CloseElement, TakeEvent, CloneTopology, SetOutputMatrix,
         AckEvent
  <1>2. ASSUME UNCHANGED <<pads, phase>> PROVE PadsSet'
    BY <1>2 DEF PadsSet
  <1>3. ASSUME NEW o, NEW m, ActivateOutput(o, m) PROVE PadsSet'
    BY <1>2, <1>3 DEF ActivateOutput
  <1>4. ASSUME DispatchOutput PROVE PadsSet'
    BY <1>2, <1>4 DEF DispatchOutput
  <1>5. ASSUME NEW h, OthersSyncFfi(h) PROVE PadsSet'
    BY <1>2, <1>5 DEF OthersSyncFfi
  <1>6. ASSUME UNCHANGED element PROVE PadsSet'
    BY <1>2, <1>6 DEF element
  <1>. QED  BY <1>1, <1>3, <1>4, <1>5, <1>6 DEF Next, allVars

LEMMA ElementKeeps ==
    ASSUME RInv, PadsSet, ElementStep
    PROVE  RInv'
  <1>1. ASSUME UNCHANGED <<daemon, lib, handler, removes>> PROVE RInv'
    BY <1>1, SameIsQuiet, QuietKeeps
  <1>2. CASE \E p \in PadConfigs : ConfigurePads(p)
    BY <1>1, <1>2 DEF ConfigurePads, vars
  <1>3. CASE NullToReady
    BY <1>1, <1>3 DEF NullToReady, SubscribeChannelmapping
  <1>4. CASE ReadyToPaused
    <2>. DEFINE s == [sinks |-> SinkSnapshots(pads.sinks), srcs |-> SrcSnapshots(pads.srcs)]
    <2>1. PrepareAddChannelmapping(ElementHandler, Element, AddRequest(s)) \/ UNCHANGED vars
      BY <1>4 DEF ReadyToPaused
    <2>2. Len(s.sinks) \in Nat /\ Len(s.srcs) \in Nat
      BY <1>4, ElementAssumption DEF ReadyToPaused, PadsSet, SinkSnapshots, SrcSnapshots
    <2>. HIDE DEF s
    <2>3. PICK req : req = AddRequest(s)
      OBVIOUS
    <2>4. req.name \in Names /\ Len(req.inputs) \in Nat /\ Len(req.outputs) \in Nat
      BY <2>2, <2>3, RequestFits
    <2>5. CASE UNCHANGED vars
      BY <1>1, <2>5 DEF vars
    <2>6. CASE PrepareAddChannelmapping(ElementHandler, Element, req)
      BY <2>4, <2>6, PrepareQuiet, QuietKeeps, ElementAssumption
    <2>. QED  BY <2>1, <2>3, <2>5, <2>6
  <1>5. CASE ReadyToNull \/ AddAnswered \/ BuildInternals \/ StoreGraph \/ SyncAnswered
             \/ TakeGraph \/ ForgetTopology \/ CloneTopology \/ SetOutputMatrix
    BY <1>1, <1>5 DEF ReadyToNull, AddAnswered, BuildInternals, StoreGraph, SyncAnswered,
         TakeGraph, ForgetTopology, CloneTopology, SetOutputMatrix, vars
  <1>6. CASE SyncOutput
    <2>1. PICK c, o, m : SyncChannelmappingState(ElementHandler, c, o, m)
      BY <1>6 DEF SyncOutput
    <2>. QED  BY <2>1, SyncQuiet, QuietKeeps, ElementAssumption
  <1>7. CASE SyncOutputFfi
    BY <1>7, SyncFfiQuiet, QuietKeeps, ElementAssumption DEF SyncOutputFfi
  <1>8. CASE CloseElement
    BY <1>8, CloseKeeps DEF CloseElement
  <1>9. CASE TakeEvent
    BY <1>1, <1>9 DEF TakeEvent, ReadEvent
  <1>10. CASE AckEvent
    BY <1>1, <1>10 DEF AckEvent, AckChannelmappingActivation, vars
  <1>. QED  BY <1>2, <1>3, <1>4, <1>5, <1>6, <1>7, <1>8, <1>9, <1>10 DEF ElementStep

LEMMA OthersKeep ==
    ASSUME RInv, OthersStep
    PROVE  RInv'
  <1>1. ASSUME NEW s, NEW h \in Handlers, ClientStep(s, h) PROVE RInv'
    BY <1>1, ClientStepKeeps
  <1>2. ASSUME NEW h \in Handlers, AddChannelmappingFfi(h) PROVE RInv'
    BY <1>2, AddFfiKeeps
  <1>3. ASSUME NEW h \in Handlers, CommitAddChannelmapping(h) PROVE RInv'
    BY <1>3, CommitKeeps
  <1>4. ASSUME NEW s, StreamEnded(s) PROVE RInv'
    BY <1>4, SameIsQuiet, QuietKeeps DEF StreamEnded
  <1>5. ASSUME NEW n \in Names, RemoveChannelmappingFfi(n) PROVE RInv'
    BY <1>5, RemoveFfiKeeps
  <1>6. ASSUME LeaveCallback PROVE RInv'
    BY <1>6, SameIsQuiet, QuietKeeps DEF LeaveCallback
  <1>. QED  BY <1>1, <1>2, <1>3, <1>4, <1>5, <1>6, ElementAssumption DEF OthersStep

LEMMA RegistriesKept ==
    ASSUME RInv, PadsSet, [Next]_allVars
    PROVE  RInv'
  <1>1. ASSUME NEW o, NEW m, ActivateOutput(o, m) PROVE RInv'
    BY <1>1, ActivateQuiet, QuietKeeps DEF ActivateOutput
  <1>2. ASSUME DispatchOutput PROVE RInv'
    BY <1>2, SameIsQuiet, QuietKeeps DEF DispatchOutput, Dispatch
  <1>3. ASSUME NEW h \in Handlers, OthersSyncFfi(h) PROVE RInv'
    BY <1>3, SyncFfiQuiet, QuietKeeps DEF OthersSyncFfi
  <1>4. ASSUME UNCHANGED allVars PROVE RInv'
    BY <1>4, SameIsQuiet, QuietKeeps DEF allVars, vars
  <1>. QED  BY <1>1, <1>2, <1>3, <1>4, ElementKeeps, OthersKeep DEF Next

LEMMA InitRegistries == InitElement => RInv /\ PadsSet
  <1>. SUFFICES ASSUME InitElement PROVE RInv /\ PadsSet
    OBVIOUS
  <1>1. PadsSet
    BY DEF InitElement, PadsSet
  <1>2. /\ DOMAIN cms = {} /\ DOMAIN byName = {} /\ DOMAIN byOutput = {} /\ nextCm = 1
        /\ lib = [config |-> EmptyMap, res |-> EmptyMap, control |-> FALSE]
        /\ DOMAIN EmptyMap = {}
        /\ handler = [h \in Handlers |-> Idle] /\ removes = [n \in Names |-> 0]
    BY DEF InitElement, Init, EmptyMap
  <1>3. DOMAIN lib.config = {} /\ ~lib.control /\ LibShape(lib)
    BY <1>2 DEF LibShape
  <1>4. \A h \in Handlers : handler[h].pc = "idle"
    BY <1>2 DEF Idle
  <1>5. Typed
    BY <1>2, <1>3, <1>4 DEF Typed
  <1>6. \A n \in Names : Claims(n)
    BY <1>2, <1>3, <1>4 DEF Claims, NoneListed, NoneAdding, IsAdding
  <1>7. ConfigHeld /\ AddedBacked /\ ListedBacked /\ Indexed /\ ControlsFollow
    BY <1>2, <1>3, <1>4 DEF ConfigHeld, AddedBacked, ListedBacked, Indexed, ControlsFollow
  <1>8. IndexesAgree
    BY <1>2 DEF IndexesAgree
  <1>. QED  BY <1>1, <1>5, <1>6, <1>7, <1>8 DEF RInv

\* The indexes of the daemon are one relation, every listed mapping is in libnvnmos
\* under its name with its ids, and the Device advertises IS-08 as it should, between
\* any two phases of concurrent adds, removes and closes: prepare_add_channelmapping,
\* commit_add_channelmapping, close_session and the deferred libnvnmos calls.
THEOREM RegistriesAgreeHolds == Spec => []RegistriesAgree
  <1>1. RInv => RegistriesAgree
    <2>. SUFFICES ASSUME RInv PROVE MappingsBacked
      BY DEF RInv, RegistriesAgree
    <2>. SUFFICES ASSUME NEW c \in DOMAIN cms
                  PROVE  /\ cms[c].name \in DOMAIN lib.config
                         /\ lib.config[cms[c].name] = [inputs |-> cms[c].inputs,
                                                       outputs |-> cms[c].outputs]
                         /\ \A o \in cms[c].outputs : <<"outputs", o>> \in DOMAIN lib.res
                         /\ \A i \in cms[c].inputs : <<"inputs", i>> \in DOMAIN lib.res
      BY DEF MappingsBacked
    <2>1. cms[c].name \in DOMAIN lib.config
      BY DEF RInv, Claims, NoneListed, Typed
    <2>2. lib.config[cms[c].name] = [inputs |-> cms[c].inputs, outputs |-> cms[c].outputs]
      BY DEF RInv, ListedBacked
    <2>3. Held(lib, cms[c].name)
      BY <2>1 DEF RInv, ConfigHeld
    <2>. QED  BY <2>1, <2>2, <2>3 DEF Held
  <1>. QED  BY <1>1, InitRegistries, RegistriesKept, PadsSetKept, PTL DEF Spec

\* A mapping of libnvnmos is listed, about to be committed or about to be removed, by
\* exactly one: the compensating remove of commit_add_channelmapping leaves none
\* behind, and no remove by name takes the mapping of another.
THEOREM ConfigClaimedHolds == Spec => []ConfigClaimed
  <1>1. RInv => ConfigClaimed
    <2>. SUFFICES ASSUME RInv, NEW n \in DOMAIN lib.config
                  PROVE  LET adding == {h \in Handlers : handler[h].pc = "added"
                                                         /\ handler[h].name = n}
                             listed == {c \in DOMAIN cms : cms[c].name = n}
                         IN  \/ listed # {} /\ adding = {} /\ removes[n] = 0
                             \/ listed = {} /\ (\E h \in adding : adding = {h})
                                /\ removes[n] = 0
                             \/ listed = {} /\ adding = {} /\ removes[n] = 1
      BY DEF ConfigClaimed
    <2>. DEFINE adding == {h \in Handlers : handler[h].pc = "added" /\ handler[h].name = n}
                listed == {c \in DOMAIN cms : cms[c].name = n}
    <2>1. Claims(n)
      BY DEF RInv, Typed
    <2>2. (NoneListed(n) <=> listed = {}) /\ (NoneAdding(n) <=> adding = {})
      BY DEF NoneListed, NoneAdding, IsAdding
    <2>3. ASSUME NEW h \in Handlers, IsAdding(h, n), \A g \in Handlers : IsAdding(g, n) => g = h
          PROVE  h \in adding /\ adding = {h}
      BY <2>3 DEF IsAdding
    <2>. HIDE DEF adding, listed
    <2>4. \/ listed # {} /\ adding = {} /\ removes[n] = 0
          \/ listed = {} /\ (\E h \in adding : adding = {h}) /\ removes[n] = 0
          \/ listed = {} /\ adding = {} /\ removes[n] = 1
      BY <2>1, <2>2, <2>3 DEF Claims
    <2>. QED  BY <2>4 DEF adding, listed
  <1>. QED  BY <1>1, InitRegistries, RegistriesKept, PadsSetKept, PTL DEF Spec

-----------------------------------------------------------------------------
(* The mapping of the element. *)

IsMine(c) == c \in DOMAIN cms /\ cms[c].session = Element

\* The ids that the daemon gives to pads without one are those the element fills in.
IdOf(type, snaps, i) == IF snaps[i].id # "" THEN snaps[i].id ELSE DefaultIds[type][i]
Wanted(snaps) == {IdOf("inputs", snaps, i) : i \in 1..Len(snaps)}

SnapShape(s) ==
    \A i \in 1..Len(s) : s[i] = [id |-> s[i].id, channels |-> s[i].channels]

SyncedAt(i) ==
    /\ snap.srcs[i].id \in cms[handle].outputs
    /\ DOMAIN lib.res[<<"outputs", snap.srcs[i].id>>] = 0..(snap.srcs[i].channels - 1)

IsAdd(h) == handler[h].pc \in {"add", "added"}

Counts == Len(snap.sinks) \in Nat /\ Len(snap.srcs) \in Nat /\ output \in Nat \ {0}

\* Only the handler of the element works on a mapping for it, while it waits.
AddsApart ==
    /\ \A h \in Handlers \ {ElementHandler} : IsAdd(h) => handler[h].session # Element
    /\ IsAdd(ElementHandler) => /\ phase = "adding"
                                /\ handler[ElementHandler].session = Element
                                /\ Ids(handler[ElementHandler].inputs) = Wanted(snap.sinks)

\* What the daemon lists for the element is what it waits for, or what its handle
\* stands for.
MineIs ==
    /\ phase = "adding" => handle = NoHandle /\ SnapShape(snap.sinks)
    /\ \A c : IsMine(c) => IF phase = "adding" THEN cms[c].inputs = Wanted(snap.sinks)
                           ELSE handle # NoHandle
    /\ handle # NoHandle => IsMine(handle)

Frozen ==
    /\ phase \in {"building", "built", "sync", "syncing", "synced", "paused"} =>
          /\ handle # NoHandle
          /\ ~retried => Ids(snap.sinks) = cms[handle].inputs
    /\ phase \in {"built", "sync", "syncing", "synced", "paused"} => topology = SnapTopology

Published ==
    /\ phase \in {"sync", "syncing"} => \A i \in 1..(output - 1) : SyncedAt(i)
    /\ phase = "synced" => \A i \in 1..output : SyncedAt(i)
    /\ phase = "paused" => \A i \in 1..Len(snap.srcs) : SyncedAt(i)
    /\ phase = "syncing" =>
          handler[ElementHandler] = [pc |-> "sync", name |-> cms[handle].name,
                                     output |-> snap.srcs[output].id,
                                     map |-> InitialEntries(output)]

EInv == Counts /\ AddsApart /\ MineIs /\ Frozen /\ Published

\* A step that leaves the element its mapping and the channels of its outputs.
MineKept ==
    \A c \in DOMAIN cms : cms[c].session = Element =>
        /\ c \in DOMAIN cms' /\ cms'[c] = cms[c]
        /\ \A o \in cms[c].outputs :
              DOMAIN lib'.res[<<"outputs", o>>] = DOMAIN lib.res[<<"outputs", o>>]

NoneNew ==
    \A c \in DOMAIN cms' : cms'[c].session = Element =>
        c \in DOMAIN cms /\ cms[c].session = Element

\* The maps of its outputs stay.
ShownKept ==
    \A c \in DOMAIN cms : cms[c].session = Element =>
        \A o \in cms[c].outputs : lib'.res[<<"outputs", o>>] = lib.res[<<"outputs", o>>]

\* What the daemon lists, libnvnmos has.
LEMMA MineHeld ==
    ASSUME RInv, NEW c \in DOMAIN cms
    PROVE  /\ cms[c].name \in DOMAIN lib.config
           /\ lib.config[cms[c].name].inputs = cms[c].inputs
           /\ lib.config[cms[c].name].outputs = cms[c].outputs
           /\ \A o \in cms[c].outputs : <<"outputs", o>> \in DOMAIN lib.res
  <1>1. cms[c].name \in DOMAIN lib.config
    BY DEF RInv, Claims, NoneListed, Typed
  <1>2. lib.config[cms[c].name] = [inputs |-> cms[c].inputs, outputs |-> cms[c].outputs]
    BY DEF RInv, ListedBacked
  <1>3. Held(lib, cms[c].name)
    BY <1>1 DEF RInv, ConfigHeld
  <1>. QED  BY <1>1, <1>2, <1>3 DEF Held

LEMMA SameMine ==
    ASSUME UNCHANGED <<cms, lib>>
    PROVE  MineKept /\ NoneNew
  BY DEF MineKept, NoneNew

LEMMA WrittenMine ==
    ASSUME RInv, cms' = cms, NEW k, NEW map, DOMAIN map = DOMAIN lib.res[k],
           lib' = [lib EXCEPT !.res[k] = map]
    PROVE  MineKept /\ NoneNew
  <1>1. LibShape(lib)
    BY DEF RInv, Typed
  <1>2. \A j \in DOMAIN lib.res : lib'.res[j] = IF j = k THEN map ELSE lib.res[j]
    BY <1>1, MapWritten
  <1>3. \A j \in DOMAIN lib.res : DOMAIN lib'.res[j] = DOMAIN lib.res[j]
    BY <1>2
  <1>. QED  BY <1>3, MineHeld DEF MineKept, NoneNew

LEMMA SyncFfiMine ==
    ASSUME RInv, NEW h, SyncChannelmappingFfi(h)
    PROVE  MineKept /\ NoneNew
  <1>1. PICK k, map : k = <<"outputs", handler[h].output>> /\ map = handler[h].map
    OBVIOUS
  <1>2. cms' = cms /\ (\/ lib' = lib
                       \/ lib' = [lib EXCEPT !.res[k] = map] /\ DOMAIN map = DOMAIN lib.res[k])
    <2>1. cms' = cms /\ (lib' = lib \/ lib' = [lib EXCEPT !.res[k] = map])
      BY <1>1 DEF SyncChannelmappingFfi, daemon
    <2>3. ~SyncAccepted(h) => lib' = lib
      BY DEF SyncChannelmappingFfi
    <2>2. SyncAccepted(h) => DOMAIN map = DOMAIN lib.res[k]
      BY <1>1 DEF SyncAccepted
    <2>. QED  BY <2>1, <2>2, <2>3
  <1>. QED  BY <1>2, SameMine, WrittenMine

LEMMA ActivateMine ==
    ASSUME RInv, NEW o, NEW map, Activate(o, map)
    PROVE  MineKept /\ NoneNew
  <1>1. PICK k : k = <<"outputs", o>>
    OBVIOUS
  <1>2. cms' = cms /\ lib' = [lib EXCEPT !.res[k] = map] /\ DOMAIN map = DOMAIN lib.res[k]
    BY <1>1 DEF Activate, daemon
  <1>. QED  BY <1>2, WrittenMine

LEMMA ShownMine ==
    ASSUME cms' = cms, ShownKept
    PROVE  MineKept /\ NoneNew
  BY DEF ShownKept, MineKept, NoneNew

LEMMA AddFfiShown ==
    ASSUME RInv, NEW h \in Handlers, AddChannelmappingFfi(h)
    PROVE  cms' = cms /\ ShownKept
  <1>1. PICK a : a = LibAdd(lib, handler[h].name, handler[h].inputs, handler[h].outputs)
    OBVIOUS
  <1>2. lib' = a.lib /\ cms' = cms /\ AddShape(handler[h]) /\ LibShape(lib)
    BY <1>1 DEF AddChannelmappingFfi, RInv, Typed, daemon
  <1>3. PICK name, inputs, outputs :
           name = handler[h].name /\ inputs = handler[h].inputs /\ outputs = handler[h].outputs
    OBVIOUS
  <1>4. Len(inputs) \in Nat /\ Len(outputs) \in Nat /\ a = LibAdd(lib, name, inputs, outputs)
    BY <1>1, <1>2, <1>3 DEF AddShape
  <1>5. \A k \in DOMAIN lib.res : a.lib.res[k] = lib.res[k]
    BY <1>2, <1>4, LibAddRes
  <1>. QED  BY <1>2, <1>5, MineHeld DEF ShownKept

LEMMA RemoveFfiShown ==
    ASSUME RInv, NEW n \in Names, RemoveChannelmappingFfi(n)
    PROVE  cms' = cms /\ ShownKept
  <1>1. lib' = LibRemove(lib, n) /\ cms' = cms /\ removes[n] > 0 /\ LibShape(lib)
    BY DEF RemoveChannelmappingFfi, daemon, RInv, Typed
  <1>2. n \in DOMAIN lib.config /\ NoneListed(n)
    BY <1>1 DEF RInv, Claims
  <1>3. PICK r : r = LibRemove(lib, n)
    OBVIOUS
  <1>4. /\ DOMAIN r.res = DOMAIN lib.res \
              ({<<"inputs", i>> : i \in lib.config[n].inputs}
               \cup {<<"outputs", o>> : o \in lib.config[n].outputs})
        /\ \A k \in DOMAIN r.res : r.res[k] = lib.res[k]
    BY <1>1, <1>2, <1>3, LibRemoveFacts
  <1>5. ASSUME NEW c \in DOMAIN cms, NEW o \in cms[c].outputs
        PROVE  lib'.res[<<"outputs", o>>] = lib.res[<<"outputs", o>>]
    <2>1. /\ cms[c].name \in DOMAIN lib.config /\ cms[c].name # n
          /\ lib.config[cms[c].name].outputs = cms[c].outputs
          /\ <<"outputs", o>> \in DOMAIN lib.res
      BY <1>2, <1>5, MineHeld DEF NoneListed
    <2>2. o \notin lib.config[n].outputs
      BY <1>2, <1>5, <2>1 DEF RInv, ConfigHeld
    <2>3. <<"outputs", o>> \in DOMAIN r.res
      BY <1>4, <2>1, <2>2
    <2>. QED  BY <1>1, <1>3, <1>4, <2>3
  <1>. QED  BY <1>1, <1>5 DEF ShownKept

LEMMA CommitMine ==
    ASSUME RInv, NEW h \in Handlers, CommitAddChannelmapping(h)
    PROVE  /\ MineKept
           /\ NoneNew \/ (/\ handler[h].session = Element
                          /\ DOMAIN cms' = DOMAIN cms \cup {nextCm}
                          /\ \A c \in DOMAIN cms : cms'[c] = cms[c]
                          /\ cms'[nextCm].inputs = Ids(handler[h].inputs))
  <1>1. lib' = lib
    BY DEF CommitAddChannelmapping
  <1>2. CASE UNCHANGED cms
    BY <1>1, <1>2, SameMine
  <1>3. PICK e : e = [name |-> handler[h].name, session |-> handler[h].session,
                      inputs |-> Ids(handler[h].inputs), outputs |-> Ids(handler[h].outputs)]
    OBVIOUS
  <1>4. CASE cms' = With(cms, nextCm, e)
    <2>1. /\ DOMAIN cms' = DOMAIN cms \cup {nextCm} /\ nextCm \notin DOMAIN cms
          /\ cms'[nextCm] = e /\ \A c \in DOMAIN cms : cms'[c] = cms[c]
      BY <1>4 DEF With, RInv, Typed
    <2>2. e.session = handler[h].session /\ e.inputs = Ids(handler[h].inputs)
      BY <1>3
    <2>3. MineKept
      BY <1>1, <2>1 DEF MineKept
    <2>4. CASE handler[h].session = Element
      BY <2>1, <2>2, <2>3, <2>4
    <2>5. CASE handler[h].session # Element
      BY <2>1, <2>2, <2>3, <2>5 DEF NoneNew
    <2>. QED  BY <2>4, <2>5
  <1>. QED  BY <1>2, <1>3, <1>4 DEF CommitAddChannelmapping, daemon

LEMMA UnlistedMine ==
    ASSUME RInv, NEW C \in SUBSET DOMAIN cms, Unlisted(C), lib' = lib,
           \A c \in C : cms[c].session # Element
    PROVE  MineKept /\ NoneNew
  <1>1. DOMAIN cms' = DOMAIN cms \ C /\ \A c \in DOMAIN cms' : cms'[c] = cms[c]
    BY DEF Unlisted, Without
  <1>. QED  BY <1>1 DEF MineKept, NoneNew

\* A step of others.
Aside ==
    /\ UNCHANGED <<phase, snap, handle, topology, output, retried>>
    /\ MineKept /\ NoneNew
    /\ handler'[ElementHandler] = handler[ElementHandler]
    /\ \A h \in Handlers \ {ElementHandler} :
          handler'[h].pc \in {"add", "added"} => handler'[h].session # Element

LEMMA KeptSynced ==
    ASSUME MineKept, MineIs, handle # NoHandle, UNCHANGED <<snap, handle>>
    PROVE  /\ IsMine(handle) /\ IsMine(handle)' /\ cms'[handle] = cms[handle]
           /\ \A i : SyncedAt(i) => SyncedAt(i)'
  <1>1. IsMine(handle) /\ handle \in DOMAIN cms' /\ cms'[handle] = cms[handle]
        /\ \A o \in cms[handle].outputs :
              DOMAIN lib'.res[<<"outputs", o>>] = DOMAIN lib.res[<<"outputs", o>>]
    BY DEF MineIs, MineKept, IsMine
  <1>. QED  BY <1>1 DEF IsMine, SyncedAt

\* Such a step preserves the invariant of the element.
LEMMA AsideKeeps ==
    ASSUME EInv, Aside
    PROVE  EInv'
  <1>. USE DEF EInv, Aside
  <1>1. Counts'
    BY DEF Counts
  <1>2. AddsApart'
    BY DEF AddsApart, IsAdd
  <1>3. \A c : IsMine(c)' <=> IsMine(c)
    BY DEF IsMine, MineKept, NoneNew
  <1>4. \A c : IsMine(c) => cms'[c] = cms[c]
    BY DEF IsMine, MineKept
  <1>5. MineIs'
    BY <1>3, <1>4 DEF MineIs
  <1>6. ASSUME handle # NoHandle
        PROVE  cms'[handle] = cms[handle] /\ \A i : SyncedAt(i) => SyncedAt(i)'
    BY <1>6, KeptSynced
  <1>7. Frozen'
    BY <1>6 DEF Frozen, SnapTopology
  <1>8. InitialEntries(output)' = InitialEntries(output)
    BY DEF InitialEntries, SrcRoutes, SnapTopology
  <1>9. Published'
    <2>1. phase \in {"sync", "syncing", "synced", "paused"} => handle # NoHandle
      BY DEF Frozen
    <2>. QED  BY <1>6, <1>8, <2>1 DEF Published
  <1>. QED  BY <1>1, <1>2, <1>5, <1>7, <1>9

\* The rest of Aside, for a step that leaves the element alone.
Resting == UNCHANGED <<phase, snap, handle, topology, output, retried>>

LEMMA HandlersAside ==
    ASSUME EInv, handler' = handler
    PROVE  /\ handler'[ElementHandler] = handler[ElementHandler]
           /\ \A h \in Handlers \ {ElementHandler} :
                 handler'[h].pc \in {"add", "added"} => handler'[h].session # Element
  BY DEF EInv, AddsApart, IsAdd

LEMMA HandlerAside ==
    ASSUME RInv, EInv, NEW h \in Handlers, h # ElementHandler, NEW r,
           handler' = [handler EXCEPT ![h] = r],
           r.pc \in {"add", "added"} => r.session # Element
    PROVE  /\ handler'[ElementHandler] = handler[ElementHandler]
           /\ \A g \in Handlers \ {ElementHandler} :
                 handler'[g].pc \in {"add", "added"} => handler'[g].session # Element
  BY ElementAssumption DEF EInv, AddsApart, IsAdd, RInv, Typed

LEMMA ClientAside ==
    ASSUME RInv, EInv, Resting, NEW s, s # Element, NEW h \in Handlers, h # ElementHandler,
           ClientStep(s, h)
    PROVE  Aside
  <1>1. ASSUME NEW r, PrepareAddChannelmapping(h, s, r)
        PROVE  Aside
    <2>1. PICK new : new = [pc |-> "add", name |-> r.name,
                            inputs |-> Effective("inputs", r.inputs),
                            outputs |-> Effective("outputs", r.outputs), session |-> s]
      OBVIOUS
    <2>2. UNCHANGED <<cms, lib>>
          /\ (handler' = handler \/ handler' = [handler EXCEPT ![h] = new])
      BY <1>1, <2>1 DEF PrepareAddChannelmapping, daemon
    <2>3. new.session # Element
      BY <2>1
    <2>. QED  BY <2>2, <2>3, SameMine, HandlersAside, HandlerAside DEF Aside, Resting
  <1>2. ASSUME NEW c \in DOMAIN cms, cms[c].session = s, RemoveChannelmapping(c)
        PROVE  Aside
    <2>1. {c} \in SUBSET DOMAIN cms /\ Unlisted({c}) /\ lib' = lib /\ handler' = handler
          /\ \A d \in {c} : cms[d].session # Element
      BY <1>2 DEF RemoveChannelmapping
    <2>2. MineKept /\ NoneNew
      BY <2>1, UnlistedMine
    <2>. QED  BY <2>1, <2>2, HandlersAside DEF Aside, Resting
  <1>3. ASSUME NEW c, NEW m, NEW o, SyncChannelmappingState(h, c, o, m)
        PROVE  Aside
    <2>1. PICK new : new = [pc |-> "sync", name |-> cms[c].name, output |-> o, map |-> m]
      OBVIOUS
    <2>2. UNCHANGED <<cms, lib>> /\ handler' = [handler EXCEPT ![h] = new] /\ new.pc = "sync"
      BY <1>3, <2>1 DEF SyncChannelmappingState, daemon
    <2>. QED  BY <2>2, SameMine, HandlerAside DEF Aside, Resting
  <1>4. ASSUME CloseSession(s)
        PROVE  Aside
    <2>. DEFINE C == {c \in DOMAIN cms : cms[c].session = s}
    <2>1. C \in SUBSET DOMAIN cms /\ Unlisted(C) /\ lib' = lib /\ handler' = handler
          /\ \A d \in C : cms[d].session # Element
      BY <1>4 DEF CloseSession
    <2>. HIDE DEF C
    <2>2. MineKept /\ NoneNew
      BY <2>1, UnlistedMine
    <2>. QED  BY <2>1, <2>2, HandlersAside DEF Aside, Resting
  <1>5. ASSUME \/ SubscribeChannelmapping(s) \/ StreamDropped(s) \/ ReadEvent(s)
               \/ \E a \in DOMAIN pending : AckChannelmappingActivation(s, a)
        PROVE  Aside
    <2>1. UNCHANGED <<cms, lib, handler>>
      BY <1>5 DEF SubscribeChannelmapping, StreamDropped, ReadEvent,
                  AckChannelmappingActivation, daemon
    <2>. QED  BY <2>1, SameMine, HandlersAside DEF Aside, Resting
  <1>. QED  BY <1>1, <1>2, <1>3, <1>4, <1>5 DEF ClientStep

LEMMA FfiAside ==
    ASSUME RInv, EInv, Resting, NEW h \in Handlers, h # ElementHandler,
           AddChannelmappingFfi(h) \/ CommitAddChannelmapping(h) \/ SyncChannelmappingFfi(h)
    PROVE  Aside
  <1>1. ASSUME AddChannelmappingFfi(h) PROVE Aside
    <2>1. PICK r : /\ handler' = [handler EXCEPT ![h] = r]
                   /\ r = [handler[h] EXCEPT !.pc = "added"] \/ r = Idle
      BY <1>1 DEF AddChannelmappingFfi
    <2>2. handler[h].pc = "add" /\ handler[h].session # Element /\ AddShape(handler[h])
      BY <1>1 DEF AddChannelmappingFfi, EInv, AddsApart, IsAdd, RInv, Typed
    <2>3. r.pc \in {"add", "added"} => r.session # Element
      BY <2>1, <2>2 DEF Idle, AddShape
    <2>. QED  BY <1>1, <2>1, <2>3, AddFfiShown, ShownMine, HandlerAside DEF Aside, Resting
  <1>2. ASSUME CommitAddChannelmapping(h) PROVE Aside
    <2>1. handler' = [handler EXCEPT ![h] = Idle] /\ Idle.pc = "idle"
      BY <1>2 DEF CommitAddChannelmapping, Idle
    <2>2. handler[h].session # Element
      BY <1>2 DEF CommitAddChannelmapping, EInv, AddsApart, IsAdd
    <2>. QED  BY <1>2, <2>1, <2>2, CommitMine, HandlerAside DEF Aside, Resting
  <1>3. ASSUME SyncChannelmappingFfi(h) PROVE Aside
    <2>1. handler' = [handler EXCEPT ![h] = Idle] /\ Idle.pc = "idle"
      BY <1>3 DEF SyncChannelmappingFfi, Idle
    <2>. QED  BY <1>3, <2>1, SyncFfiMine, HandlerAside DEF Aside, Resting
  <1>. QED  BY <1>1, <1>2, <1>3

\* The add of the element itself.
LEMMA OwnAddKeeps ==
    ASSUME RInv, EInv, Resting,
           AddChannelmappingFfi(ElementHandler) \/ CommitAddChannelmapping(ElementHandler)
    PROVE  EInv'
  <1>. DEFINE r == handler[ElementHandler]
  <1>1. /\ phase = "adding" /\ r.session = Element /\ Ids(r.inputs) = Wanted(snap.sinks)
        /\ handle = NoHandle /\ SnapShape(snap.sinks) /\ AddShape(r)
        /\ DOMAIN handler = Handlers /\ ElementHandler \in Handlers
    BY ElementAssumption DEF AddChannelmappingFfi, CommitAddChannelmapping, EInv, AddsApart,
                             IsAdd, MineIs, RInv, Typed
  <1>2. Counts' /\ Frozen' /\ Published' /\ phase' = "adding"
    BY <1>1 DEF EInv, Resting, Counts, Frozen, Published
  <1>3. ASSUME AddChannelmappingFfi(ElementHandler) PROVE EInv'
    <2>1. PICK new : /\ handler' = [handler EXCEPT ![ElementHandler] = new]
                     /\ new = [r EXCEPT !.pc = "added"] \/ new = Idle
      BY <1>3 DEF AddChannelmappingFfi
    <2>2. new.pc \in {"add", "added"} => new.session = Element /\ new.inputs = r.inputs
      BY <1>1, <2>1 DEF AddShape, Idle
    <2>3. AddsApart'
      BY <1>1, <2>1, <2>2 DEF EInv, Resting, AddsApart, IsAdd
    <2>4. cms' = cms
      BY <1>3 DEF AddChannelmappingFfi, daemon
    <2>5. MineIs'
      BY <2>4 DEF EInv, Resting, MineIs, IsMine
    <2>. QED  BY <1>2, <2>3, <2>5 DEF EInv
  <1>4. ASSUME CommitAddChannelmapping(ElementHandler) PROVE EInv'
    <2>1. handler' = [handler EXCEPT ![ElementHandler] = Idle] /\ Idle.pc = "idle"
      BY <1>4 DEF CommitAddChannelmapping, Idle
    <2>2. AddsApart'
      BY <1>1, <2>1 DEF EInv, Resting, AddsApart, IsAdd
    <2>3. ASSUME NEW c, IsMine(c)' PROVE cms'[c].inputs = Wanted(snap.sinks)
      <3>1. ASSUME IsMine(c), cms'[c] = cms[c] PROVE cms'[c].inputs = Wanted(snap.sinks)
        BY <1>1, <3>1 DEF EInv, MineIs
      <3>2. ASSUME NoneNew, MineKept PROVE cms'[c].inputs = Wanted(snap.sinks)
        BY <2>3, <3>1, <3>2 DEF IsMine, NoneNew, MineKept
      <3>3. ASSUME /\ DOMAIN cms' = DOMAIN cms \cup {nextCm}
                   /\ \A d \in DOMAIN cms : cms'[d] = cms[d]
                   /\ cms'[nextCm].inputs = Ids(r.inputs)
            PROVE  cms'[c].inputs = Wanted(snap.sinks)
        BY <1>1, <2>3, <3>1, <3>3 DEF IsMine
      <3>. QED  BY <1>1, <1>4, <3>2, <3>3, CommitMine
    <2>4. MineIs'
      BY <1>1, <1>2, <2>3 DEF MineIs, Resting
    <2>. QED  BY <1>2, <2>2, <2>4 DEF EInv
  <1>. QED  BY <1>3, <1>4

\* A step is one of the element, of its own add, or leaves the element alone.
LEMMA StillAside ==
    ASSUME RInv, EInv, Resting, UNCHANGED <<cms, lib, handler>>
    PROVE  Aside
  BY SameMine, HandlersAside DEF Aside, Resting

LEMMA OthersAside ==
    ASSUME RInv, EInv, OthersStep, UNCHANGED element
    PROVE  \/ Aside
           \/ Resting /\ (\/ AddChannelmappingFfi(ElementHandler)
                          \/ CommitAddChannelmapping(ElementHandler))
  <1>1. Resting
    BY DEF Resting, element
  <1>2. ASSUME NEW s \in Sessions \ {Element}, StreamEnded(s) PROVE Aside
    <2>1. UNCHANGED <<cms, lib, handler>>
      BY <1>2 DEF StreamEnded, daemon
    <2>. QED  BY <1>1, <2>1, StillAside
  <1>3. ASSUME NEW n \in Names, RemoveChannelmappingFfi(n) PROVE Aside
    <2>1. handler' = handler
      BY <1>3 DEF RemoveChannelmappingFfi
    <2>. QED  BY <1>1, <1>3, <2>1, RemoveFfiShown, ShownMine, HandlersAside DEF Aside, Resting
  <1>4. ASSUME LeaveCallback PROVE Aside
    <2>1. UNCHANGED <<cms, lib, handler>>
      BY <1>4 DEF LeaveCallback, daemon
    <2>. QED  BY <1>1, <2>1, StillAside
  <1>. QED  BY <1>1, <1>2, <1>3, <1>4, ClientAside, FfiAside DEF OthersStep

LEMMA StepKinds ==
    ASSUME RInv, EInv, [Next]_allVars
    PROVE  \/ ElementStep
           \/ Resting /\ (\/ AddChannelmappingFfi(ElementHandler)
                          \/ CommitAddChannelmapping(ElementHandler))
           \/ Aside
  <1>1. ASSUME NEW o, NEW m, ActivateOutput(o, m) PROVE Aside
    <2>1. handler' = handler /\ Resting /\ Activate(o, m)
      BY <1>1 DEF ActivateOutput, Activate, Resting
    <2>. QED  BY <2>1, ActivateMine, HandlersAside DEF Aside, Resting
  <1>2. ASSUME DispatchOutput PROVE Aside
    BY <1>2, StillAside DEF DispatchOutput, Dispatch, Resting, daemon
  <1>3. ASSUME NEW h \in Handlers \ {ElementHandler}, OthersSyncFfi(h) PROVE Aside
    <2>1. Resting /\ SyncChannelmappingFfi(h)
      BY <1>3 DEF OthersSyncFfi, Resting
    <2>. QED  BY <2>1, FfiAside
  <1>4. ASSUME UNCHANGED allVars PROVE Aside
    BY <1>4, StillAside DEF allVars, vars, daemon, element, Resting
  <1>. QED  BY <1>1, <1>2, <1>3, <1>4, OthersAside DEF Next

\* A move between phases in which nothing is asked of the mapping.
LEMMA MovesKeep ==
    ASSUME EInv, cms' = cms, handle' = handle, phase # "adding", Counts', AddsApart',
           phase' \notin {"adding", "building", "built", "sync", "syncing", "synced", "paused"}
    PROVE  EInv'
  <1>1. MineIs'
    BY DEF EInv, MineIs, IsMine
  <1>2. Frozen' /\ Published'
    BY DEF Frozen, Published
  <1>. QED  BY <1>1, <1>2 DEF EInv

LEMMA AddsApartKept ==
    ASSUME EInv, phase # "adding", handler' = handler
    PROVE  AddsApart'
  BY DEF EInv, AddsApart, IsAdd

LEMMA EffectiveLen ==
    ASSUME NEW type, NEW ios, Len(ios) \in Nat
    PROVE  Len(Effective(type, ios)) = Len(ios)
  BY DEF Effective

LEMMA FilledLen ==
    ASSUME NEW snaps, Len(snaps) \in Nat, NEW ids
    PROVE  Len(FilledIn(snaps, ids)) = Len(snaps)
  BY DEF FilledIn

\* The ids that are filled in on the way are those that the element fills in later.
LEMMA EffectiveTwice ==
    ASSUME NEW type, NEW snaps, Len(snaps) \in Nat, NEW ios,
           ios = [i \in 1..Len(snaps) |-> [id |-> snaps[i].id, labels |-> snaps[i].channels]],
           NEW d, d = Effective(type, Effective(type, ios))
    PROVE  Len(d) = Len(snaps) /\ \A i \in 1..Len(snaps) : d[i].id = IdOf(type, snaps, i)
  <1>. DEFINE b == Effective(type, ios)
  <1>2. Len(ios) = Len(snaps) /\ \A i \in 1..Len(snaps) :
            ios[i] = [id |-> snaps[i].id, labels |-> snaps[i].channels]
    OBVIOUS
  <1>3. Len(b) = Len(snaps) /\ \A i \in 1..Len(snaps) :
            b[i] = [id |-> IdOf(type, snaps, i), labels |-> snaps[i].channels]
    <2>1. b = [i \in 1..Len(snaps) |-> IF ios[i].id # "" THEN ios[i]
                                       ELSE [ios[i] EXCEPT !.id = DefaultIds[type][i]]]
      BY <1>2 DEF Effective
    <2>2. ASSUME NEW i \in 1..Len(snaps)
          PROVE  b[i] = [id |-> IdOf(type, snaps, i), labels |-> snaps[i].channels]
      <3>1. PICK r : r = ios[i]
        OBVIOUS
      <3>2. r = [id |-> snaps[i].id, labels |-> snaps[i].channels]
        BY <1>2, <3>1
      <3>3. b[i] = IF r.id # "" THEN r ELSE [r EXCEPT !.id = DefaultIds[type][i]]
        BY <2>1, <3>1
      <3>. HIDE DEF b
      <3>. QED  BY <3>2, <3>3 DEF IdOf
    <2>3. Len(b) = Len(snaps)
      BY <1>2, EffectiveLen
    <2>. QED  BY <2>2, <2>3
  <1>3a. d = Effective(type, b)
    OBVIOUS
  <1>. HIDE DEF b
  <1>4. d = [i \in 1..Len(snaps) |-> IF b[i].id # "" THEN b[i]
                                     ELSE [b[i] EXCEPT !.id = DefaultIds[type][i]]]
    BY <1>3, <1>3a DEF Effective
  <1>5. ASSUME NEW i \in 1..Len(snaps)
        PROVE  d[i].id = IdOf(type, snaps, i)
    <2>1. PICK r : r = b[i]
      OBVIOUS
    <2>2. r = [id |-> IdOf(type, snaps, i), labels |-> snaps[i].channels]
      BY <1>3, <2>1
    <2>3. d[i] = IF r.id # "" THEN r ELSE [r EXCEPT !.id = DefaultIds[type][i]]
      BY <1>4, <2>1
    <2>4. r.id = IdOf(type, snaps, i)
      BY <2>2
    <2>5. r.id = "" => [r EXCEPT !.id = DefaultIds[type][i]].id = DefaultIds[type][i]
      BY <2>2
    <2>6. r.id = "" => DefaultIds[type][i] = ""
      BY <2>4 DEF IdOf
    <2>. QED  BY <2>3, <2>4, <2>5, <2>6
  <1>6. Len(d) = Len(snaps)
    BY <1>3, <1>3a, EffectiveLen
  <1>. QED  BY <1>5, <1>6

\* The request of the element has the ids that it fills in later.
LEMMA RequestIds ==
    ASSUME NEW s, Len(s.sinks) \in Nat, Len(s.srcs) \in Nat,
           NEW ins, ins = Effective("inputs", AddRequest(s).inputs),
           NEW outs, outs = Effective("outputs", AddRequest(s).outputs)
    PROVE  /\ Len(ins) = Len(s.sinks) /\ Len(outs) = Len(s.srcs)
           /\ \A i \in 1..Len(s.sinks) : ins[i].id = IdOf("inputs", s.sinks, i)
           /\ \A i \in 1..Len(s.srcs) : outs[i].id = IdOf("outputs", s.srcs, i)
           /\ Ids(ins) = Wanted(s.sinks)
  <1>0. PICK sinks, srcs : sinks = s.sinks /\ srcs = s.srcs
    OBVIOUS
  <1>1. PICK a, b :
           /\ a = [i \in 1..Len(s.sinks) |-> [id |-> s.sinks[i].id, labels |-> s.sinks[i].channels]]
           /\ b = [i \in 1..Len(s.srcs) |-> [id |-> s.srcs[i].id, labels |-> s.srcs[i].channels]]
    OBVIOUS
  <1>2. /\ AddRequest(s).inputs = Effective("inputs", a)
        /\ AddRequest(s).outputs = Effective("outputs", b)
    BY <1>1 DEF AddRequest
  <1>3. Len(ins) = Len(s.sinks) /\ \A i \in 1..Len(s.sinks) : ins[i].id = IdOf("inputs", s.sinks, i)
    <2>1. /\ a = [i \in 1..Len(sinks) |-> [id |-> sinks[i].id, labels |-> sinks[i].channels]]
          /\ ins = Effective("inputs", Effective("inputs", a)) /\ Len(sinks) \in Nat
      BY <1>0, <1>1, <1>2
    <2>2. Len(ins) = Len(sinks) /\ \A i \in 1..Len(sinks) : ins[i].id = IdOf("inputs", sinks, i)
      BY <2>1, EffectiveTwice
    <2>. QED  BY <1>0, <2>2
  <1>4. Len(outs) = Len(s.srcs) /\ \A i \in 1..Len(s.srcs) : outs[i].id = IdOf("outputs", s.srcs, i)
    <2>1. /\ b = [i \in 1..Len(srcs) |-> [id |-> srcs[i].id, labels |-> srcs[i].channels]]
          /\ outs = Effective("outputs", Effective("outputs", b)) /\ Len(srcs) \in Nat
      BY <1>0, <1>1, <1>2
    <2>2. Len(outs) = Len(srcs) /\ \A i \in 1..Len(srcs) : outs[i].id = IdOf("outputs", srcs, i)
      BY <2>1, EffectiveTwice
    <2>. QED  BY <1>0, <2>2
  <1>5. Ids(ins) = Wanted(s.sinks)
    BY <1>3 DEF Ids, Wanted
  <1>. QED  BY <1>3, <1>4, <1>5

LEMMA ReadyToPausedKeeps ==
    ASSUME RInv, EInv, PadsSet, ReadyToPaused
    PROVE  EInv'
  <1>. DEFINE s == [sinks |-> SinkSnapshots(pads.sinks), srcs |-> SrcSnapshots(pads.srcs)]
  <1>1. /\ phase = "ready" /\ snap' = s /\ UNCHANGED <<handle, topology, output>>
        /\ handle = NoHandle =>
              /\ PrepareAddChannelmapping(ElementHandler, Element, AddRequest(s))
              /\ phase' = "adding"
        /\ handle # NoHandle => phase' = "building" /\ retried' /\ UNCHANGED vars
    BY DEF ReadyToPaused
  <1>2. Len(s.sinks) \in Nat /\ Len(s.srcs) \in Nat /\ SnapShape(s.sinks)
    BY <1>1, ElementAssumption DEF PadsSet, SinkSnapshots, SrcSnapshots, SnapShape
  <1>. HIDE DEF s
  <1>3. Counts'
    BY <1>1, <1>2 DEF EInv, Counts
  <1>4. CASE handle # NoHandle
    <2>1. UNCHANGED <<cms, handler>> /\ phase' = "building" /\ retried'
      BY <1>1, <1>4 DEF vars, daemon
    <2>2. AddsApart'
      BY <1>1, <2>1, AddsApartKept
    <2>3. MineIs'
      BY <1>1, <2>1 DEF EInv, MineIs, IsMine
    <2>4. Frozen' /\ Published'
      BY <1>1, <1>4, <2>1 DEF Frozen, Published
    <2>. QED  BY <1>3, <2>2, <2>3, <2>4 DEF EInv
  <1>5. CASE handle = NoHandle
    <2>1. PICK new : new = [pc |-> "add", name |-> AddRequest(s).name,
                            inputs |-> Effective("inputs", AddRequest(s).inputs),
                            outputs |-> Effective("outputs", AddRequest(s).outputs),
                            session |-> Element]
      OBVIOUS
    <2>2. /\ cms' = cms /\ handler[ElementHandler].pc = "idle" /\ phase' = "adding"
          /\ handler' = handler \/ handler' = [handler EXCEPT ![ElementHandler] = new]
      BY <1>1, <1>5, <2>1 DEF PrepareAddChannelmapping, Idle, daemon
    <2>3. Ids(new.inputs) = Wanted(s.sinks) /\ new.session = Element
      BY <1>2, <2>1, RequestIds
    <2>4. AddsApart'
      BY <1>1, <2>2, <2>3, ElementAssumption DEF EInv, AddsApart, IsAdd, RInv, Typed
    <2>5. MineIs'
      BY <1>1, <1>2, <1>5, <2>2 DEF EInv, MineIs, IsMine
    <2>6. Frozen' /\ Published'
      BY <2>2 DEF Frozen, Published
    <2>. QED  BY <1>3, <2>4, <2>5, <2>6 DEF EInv
  <1>. QED  BY <1>4, <1>5

LEMMA FilledIds ==
    ASSUME NEW type, NEW snaps, Len(snaps) \in Nat, NEW filled,
           \A i \in 1..Len(snaps) : "id" \in DOMAIN snaps[i],
           filled = FilledIn(snaps, [i \in 1..Len(snaps) |-> Effective(type, snaps)[i].id])
    PROVE  /\ Len(filled) = Len(snaps)
           /\ \A i \in 1..Len(snaps) : filled[i].id = IdOf(type, snaps, i)
  <1>1. ASSUME NEW i \in 1..Len(snaps)
        PROVE  filled[i].id = IdOf(type, snaps, i)
    <2>1. PICK r : r = snaps[i]
      OBVIOUS
    <2>2. "id" \in DOMAIN r
      BY <2>1
    <2>3. PICK e : e = Effective(type, snaps)[i]
      OBVIOUS
    <2>4. e = IF r.id # "" THEN r ELSE [r EXCEPT !.id = DefaultIds[type][i]]
      BY <2>1, <2>3 DEF Effective
    <2>5. filled[i] = IF r.id # "" THEN r ELSE [r EXCEPT !.id = e.id]
      BY <2>1, <2>3 DEF FilledIn
    <2>. QED  BY <2>1, <2>2, <2>4, <2>5 DEF IdOf
  <1>2. Len(filled) = Len(snaps)
    BY FilledLen
  <1>. QED  BY <1>1, <1>2

\* The answer: the mapping of the session is the one that was asked for.
LEMMA AddAnsweredKeeps ==
    ASSUME RInv, EInv, AddAnswered
    PROVE  EInv'
  <1>. DEFINE mine == {c \in DOMAIN cms : cms[c].session = Element}
  <1>1. /\ phase = "adding" /\ handle = NoHandle /\ handler[ElementHandler] = Idle
        /\ SnapShape(snap.sinks)
        /\ UNCHANGED <<cms, handler, output>>
    BY DEF AddAnswered, EInv, MineIs, vars, daemon
  <1>2. AddsApart'
    BY <1>1 DEF EInv, AddsApart, IsAdd, Idle
  <1>3. CASE mine = {}
    <2>1. phase' = "failed" /\ UNCHANGED <<snap, handle>>
      BY <1>3 DEF AddAnswered
    <2>2. MineIs'
      BY <1>1, <1>3, <2>1 DEF MineIs, IsMine
    <2>3. Counts' /\ Frozen' /\ Published'
      BY <1>1, <2>1 DEF EInv, Counts, Frozen, Published
    <2>. QED  BY <1>2, <2>2, <2>3 DEF EInv
  <1>4. CASE mine # {}
    <2>1. PICK sinks, srcs :
             /\ sinks = FilledIn(snap.sinks, [i \in 1..Len(snap.sinks) |->
                                    Effective("inputs", snap.sinks)[i].id])
             /\ srcs = FilledIn(snap.srcs, [i \in 1..Len(snap.srcs) |->
                                    Effective("outputs", snap.srcs)[i].id])
      OBVIOUS
    <2>2. /\ phase' = "building" /\ handle' = CHOOSE c \in mine : TRUE
          /\ snap' = [sinks |-> sinks, srcs |-> srcs]
      BY <1>4, <2>1 DEF AddAnswered
    <2>3. Len(sinks) = Len(snap.sinks) /\ Len(srcs) = Len(snap.srcs)
      <3>1. Len(snap.sinks) \in Nat /\ Len(snap.srcs) \in Nat
        BY DEF EInv, Counts
      <3>. QED  BY <2>1, <3>1, FilledLen
    <2>4. Counts'
      BY <1>1, <2>2, <2>3 DEF EInv, Counts
    <2>5. handle' \in mine
      BY <1>4, <2>2
    <2>6. Ids(sinks) = Wanted(snap.sinks)
      <3>1. \A i \in 1..Len(snap.sinks) : "id" \in DOMAIN snap.sinks[i]
        <4>1. ASSUME NEW i \in 1..Len(snap.sinks) PROVE "id" \in DOMAIN snap.sinks[i]
          <5>1. PICK e : e = snap.sinks[i]
            OBVIOUS
          <5>2. e = [id |-> e.id, channels |-> e.channels]
            BY <1>1, <5>1 DEF SnapShape
          <5>. QED  BY <5>1, <5>2
        <4>. QED  BY <4>1
      <3>2. \A i \in 1..Len(snap.sinks) : sinks[i].id = IdOf("inputs", snap.sinks, i)
        BY <2>1, <3>1, FilledIds DEF EInv, Counts
      <3>. QED  BY <2>3, <3>2 DEF Ids, Wanted
    <2>7. handle' # NoHandle /\ cms[handle'].inputs = Wanted(snap.sinks)
      BY <1>1, <2>5 DEF EInv, MineIs, IsMine, RInv, Typed, NoHandle
    <2>8. MineIs'
      BY <1>1, <2>2, <2>5, <2>7 DEF MineIs, IsMine
    <2>9. Frozen'
      BY <1>1, <2>2, <2>6, <2>7 DEF Frozen
    <2>10. Published'
      BY <2>2 DEF Published
    <2>. QED  BY <1>2, <2>4, <2>8, <2>9, <2>10 DEF EInv
  <1>. QED  BY <1>3, <1>4

\* The topology is frozen from the snapshots of the mapping.
LEMMA BuildKeeps ==
    ASSUME EInv, BuildInternals \/ StoreGraph
    PROVE  EInv'
  <1>1. /\ phase \in {"building", "built"} /\ phase # "adding"
        /\ UNCHANGED <<cms, handler, handle, snap, retried>>
    BY DEF BuildInternals, StoreGraph, vars, daemon
  <1>2. AddsApart'
    BY <1>1, AddsApartKept
  <1>3. MineIs' \/ phase' = "adding"
    BY <1>1 DEF EInv, MineIs, IsMine
  <1>4. ASSUME phase' = "failed", output' = output PROVE EInv'
    <2>1. Counts'
      BY <1>1, <1>4 DEF EInv, Counts
    <2>. QED  BY <1>1, <1>2, <1>4, <2>1, MovesKeep
  <1>5. ASSUME phase' = "built", output' = output, topology' = SnapTopology, phase = "building"
        PROVE  EInv'
    <2>1. Counts'
      BY <1>1, <1>5 DEF EInv, Counts
    <2>2. SnapTopology' = SnapTopology
      BY <1>1 DEF SnapTopology
    <2>3. Frozen' /\ Published'
      BY <1>1, <1>5, <2>2 DEF EInv, Frozen, Published
    <2>. QED  BY <1>2, <1>3, <1>5, <2>1, <2>3 DEF EInv
  <1>6. ASSUME phase' = "sync", output' = 1, topology' = topology, phase = "built"
        PROVE  EInv'
    <2>1. Counts'
      BY <1>1, <1>6 DEF EInv, Counts
    <2>2. SnapTopology' = SnapTopology
      BY <1>1 DEF SnapTopology
    <2>3. Frozen'
      BY <1>1, <1>6, <2>2 DEF EInv, Frozen
    <2>4. Published'
      <3>1. 1..(output' - 1) = {}
        BY <1>6
      <3>. QED  BY <1>6, <3>1 DEF Published
    <2>. QED  BY <1>2, <1>3, <1>6, <2>1, <2>3, <2>4 DEF EInv
  <1>. QED  BY <1>4, <1>5, <1>6 DEF BuildInternals, StoreGraph

LEMMA SyncOutputKeeps ==
    ASSUME RInv, EInv, SyncOutput
    PROVE  EInv'
  <1>1. PICK new : new = [pc |-> "sync", name |-> cms[handle].name,
                          output |-> snap.srcs[output].id, map |-> InitialEntries(output)]
    OBVIOUS
  <1>2. /\ phase = "sync" /\ phase' = "syncing"
        /\ handler' = [handler EXCEPT ![ElementHandler] = new]
        /\ UNCHANGED <<cms, lib, handle, snap, retried, output, topology>>
    BY <1>1 DEF SyncOutput, SyncChannelmappingState, daemon
  <1>3. DOMAIN handler = Handlers /\ ElementHandler \in Handlers /\ new.pc = "sync"
    BY <1>1, ElementAssumption DEF RInv, Typed
  <1>4. Counts'
    BY <1>2 DEF EInv, Counts
  <1>5. AddsApart'
    BY <1>2, <1>3 DEF EInv, AddsApart, IsAdd
  <1>6. MineIs'
    BY <1>2 DEF EInv, MineIs, IsMine
  <1>7. SnapTopology' = SnapTopology /\ InitialEntries(output)' = InitialEntries(output)
    BY <1>2 DEF SnapTopology, InitialEntries, SrcRoutes
  <1>8. Frozen'
    BY <1>2, <1>7 DEF EInv, Frozen
  <1>9. \A i : SyncedAt(i)' <=> SyncedAt(i)
    BY <1>2 DEF SyncedAt
  <1>10. handler'[ElementHandler] = new
    BY <1>2, <1>3
  <1>11. Published'
    BY <1>1, <1>2, <1>7, <1>9, <1>10 DEF EInv, Published
  <1>. QED  BY <1>4, <1>5, <1>6, <1>8, <1>11 DEF EInv

\* An accepted Sync: the output has the channels of its src pad.
LEMMA SyncOutputFfiKeeps ==
    ASSUME RInv, EInv, SyncOutputFfi
    PROVE  EInv'
  <1>1. /\ phase = "syncing" /\ SyncChannelmappingFfi(ElementHandler)
        /\ handler' = [handler EXCEPT ![ElementHandler] = Idle] /\ Idle.pc = "idle"
        /\ SyncAccepted(ElementHandler) => phase' = "synced"
        /\ ~SyncAccepted(ElementHandler) => phase' = "failed"
        /\ UNCHANGED <<cms, handle, snap, retried, output, topology>>
    BY DEF SyncOutputFfi, SyncChannelmappingFfi, SyncSucceeds, Idle, daemon
  <1>2. DOMAIN handler = Handlers /\ ElementHandler \in Handlers
    BY ElementAssumption DEF RInv, Typed
  <1>3. Counts'
    BY <1>1 DEF EInv, Counts
  <1>4. AddsApart'
    BY <1>1, <1>2 DEF EInv, AddsApart, IsAdd
  <1>5. CASE ~SyncAccepted(ElementHandler)
    BY <1>1, <1>3, <1>4, <1>5, MovesKeep
  <1>6. CASE SyncAccepted(ElementHandler)
    <2>1. MineIs'
      BY <1>1, <1>6 DEF EInv, MineIs, IsMine
    <2>2. SnapTopology' = SnapTopology
      BY <1>1 DEF SnapTopology
    <2>3. Frozen'
      BY <1>1, <1>6, <2>2 DEF EInv, Frozen
    <2>4. handle # NoHandle /\ IsMine(handle)
      BY <1>1 DEF EInv, Frozen, MineIs
    <2>5. MineKept
      BY <1>1, SyncFfiMine
    <2>6. \A i : SyncedAt(i) => SyncedAt(i)'
      BY <1>1, <2>4, <2>5, KeptSynced DEF EInv
    <2>7. PICK o, n, map : /\ o = snap.srcs[output].id /\ n = cms[handle].name
                           /\ map = InitialEntries(output)
      OBVIOUS
    <2>8. handler[ElementHandler] = [pc |-> "sync", name |-> n, output |-> o, map |-> map]
      BY <1>1, <2>7 DEF EInv, Published
    <2>9. n \in NamesForOutput(lib, o) /\ DOMAIN map = DOMAIN lib.res[<<"outputs", o>>]
      BY <1>6, <2>8 DEF SyncAccepted
    <2>10. o \in cms[handle].outputs
      BY <2>4, <2>7, <2>9, MineHeld DEF NamesForOutput, IsMine
    <2>11. DOMAIN map = 0..(snap.srcs[output].channels - 1)
      BY <2>7 DEF InitialEntries, EntriesFromRoutes
    <2>12. SyncedAt(output)
      BY <2>7, <2>9, <2>10, <2>11 DEF SyncedAt
    <2>13. ASSUME NEW i \in 1..output PROVE SyncedAt(i)'
      <3>1. i = output \/ i \in 1..(output - 1)
        BY DEF EInv, Counts
      <3>. QED  BY <1>1, <2>6, <2>12, <3>1 DEF EInv, Published
    <2>14. Published'
      BY <1>1, <1>6, <2>13 DEF Published
    <2>. QED  BY <1>3, <1>4, <2>1, <2>3, <2>14 DEF EInv
  <1>. QED  BY <1>5, <1>6

LEMMA SyncAnsweredKeeps ==
    ASSUME RInv, EInv, SyncAnswered
    PROVE  EInv'
  <1>1. /\ phase = "synced"
        /\ \/ phase' = "sync" /\ output' = output + 1
           \/ phase' = "paused" /\ output' = output /\ ~(output < Len(snap.srcs))
        /\ UNCHANGED <<cms, lib, handler, handle, snap, retried, topology>>
    BY DEF SyncAnswered, vars, daemon
  <1>2. Counts'
    BY <1>1 DEF EInv, Counts
  <1>3. AddsApart'
    BY <1>1, AddsApartKept
  <1>4. MineIs'
    BY <1>1 DEF EInv, MineIs, IsMine
  <1>5. SnapTopology' = SnapTopology /\ \A i : SyncedAt(i)' <=> SyncedAt(i)
    BY <1>1 DEF SnapTopology, SyncedAt
  <1>6. Frozen'
    BY <1>1, <1>5 DEF EInv, Frozen
  <1>7. \A i \in 1..output : SyncedAt(i)'
    BY <1>1, <1>5 DEF EInv, Published
  <1>8. CASE phase' = "sync" /\ output' = output + 1
    <2>1. (output' - 1) = output
      BY <1>8 DEF EInv, Counts
    <2>2. Published'
      BY <1>7, <1>8, <2>1 DEF Published
    <2>. QED  BY <1>2, <1>3, <1>4, <1>6, <2>2 DEF EInv
  <1>9. CASE phase' = "paused" /\ ~(output < Len(snap.srcs))
    <2>1. \A i \in 1..Len(snap.srcs) : i \in 1..output
      BY <1>9 DEF EInv, Counts
    <2>2. Published'
      BY <1>1, <1>7, <1>9, <2>1 DEF Published
    <2>. QED  BY <1>2, <1>3, <1>4, <1>6, <2>2 DEF EInv
  <1>. QED  BY <1>1, <1>8, <1>9

LEMMA CloseElementKeeps ==
    ASSUME RInv, EInv, CloseElement
    PROVE  EInv'
  <1>1. /\ phase = "closing" /\ phase' = "closed" /\ handle' = NoHandle
        /\ Unlisted({c \in DOMAIN cms : cms[c].session = Element})
        /\ UNCHANGED <<handler, snap, output>>
    BY DEF CloseElement, CloseSession
  <1>2. \A c : ~IsMine(c)'
    BY <1>1 DEF IsMine, Unlisted, Without
  <1>3. AddsApart'
    BY <1>1, AddsApartKept
  <1>4. MineIs'
    BY <1>1, <1>2 DEF MineIs
  <1>5. Counts' /\ Frozen' /\ Published'
    BY <1>1 DEF EInv, Counts, Frozen, Published
  <1>. QED  BY <1>3, <1>4, <1>5 DEF EInv

LEMMA ElementStepKeeps ==
    ASSUME RInv, EInv, PadsSet, ElementStep
    PROVE  EInv'
  <1>1. ASSUME Resting, UNCHANGED <<cms, lib, handler>> PROVE EInv'
    BY <1>1, StillAside, AsideKeeps
  <1>2. CASE \/ \E p \in PadConfigs : ConfigurePads(p)
             \/ TakeEvent \/ CloneTopology \/ SetOutputMatrix \/ AckEvent
    <2>1. Resting /\ UNCHANGED <<cms, lib, handler>>
      BY <1>2 DEF ConfigurePads, TakeEvent, CloneTopology, SetOutputMatrix, AckEvent, ReadEvent,
                  AckChannelmappingActivation, Resting, vars, daemon
    <2>. QED  BY <1>1, <2>1
  <1>3. CASE NullToReady \/ ReadyToNull \/ TakeGraph \/ ForgetTopology
    <2>1. /\ UNCHANGED <<cms, handler, handle>>
          /\ phase \in {"null", "ready", "paused", "failed", "stop", "failing", "stopping"}
          /\ phase' \in {"ready", "stop", "stopping", "failing", "closing"}
      BY <1>3 DEF NullToReady, SubscribeChannelmapping, ReadyToNull, TakeGraph, ForgetTopology,
                  vars, daemon
    <2>2. UNCHANGED <<snap, output>> \/ (snap' = NoSnap /\ output' = 1)
      BY <1>3 DEF NullToReady, ReadyToNull, TakeGraph, ForgetTopology
    <2>3. Len(NoSnap.sinks) = 0 /\ Len(NoSnap.srcs) = 0
      BY DEF NoSnap
    <2>4. Counts'
      BY <2>2, <2>3 DEF EInv, Counts
    <2>5. phase # "adding" /\ AddsApart'
      BY <2>1, AddsApartKept
    <2>. QED  BY <2>1, <2>4, <2>5, MovesKeep
  <1>. QED  BY <1>2, <1>3, ReadyToPausedKeeps, AddAnsweredKeeps, BuildKeeps, SyncOutputKeeps,
               SyncOutputFfiKeeps, SyncAnsweredKeeps, CloseElementKeeps DEF ElementStep

LEMMA ElementInvKept ==
    ASSUME RInv, EInv, PadsSet, [Next]_allVars
    PROVE  EInv'
  BY StepKinds, AsideKeeps, OwnAddKeeps, ElementStepKeeps

LEMMA InitElementInv == InitElement => EInv
  <1>. SUFFICES ASSUME InitElement PROVE EInv
    OBVIOUS
  <1>1. /\ phase = "null" /\ snap = NoSnap /\ handle = NoHandle /\ output = 1
        /\ DOMAIN cms = {} /\ \A h \in Handlers : handler[h].pc = "idle"
    BY DEF InitElement, Init, EmptyMap, Idle
  <1>2. Counts
    BY <1>1 DEF Counts, NoSnap
  <1>3. AddsApart
    BY <1>1, ElementAssumption DEF AddsApart, IsAdd
  <1>4. MineIs /\ Frozen /\ Published
    BY <1>1 DEF MineIs, IsMine, Frozen, Published
  <1>. QED  BY <1>2, <1>3, <1>4 DEF EInv

LEMMA PositionFacts ==
    ASSUME NEW ids, Len(ids) \in Nat, DOMAIN ids = 1..Len(ids), IsInjective(ids), NEW id
    PROVE  /\ Position(ids, id) = 0 => \A i \in 1..Len(ids) : ids[i] # id
           /\ Position(ids, id) # 0 => /\ Position(ids, id) \in 1..Len(ids)
                                       /\ ids[Position(ids, id)] = id
           /\ \A i \in 1..Len(ids) : ids[i] = id => Position(ids, id) = i
  <1>. DEFINE I == {i \in 1..Len(ids) : ids[i] = id}
  <1>1. Position(ids, id) = IF I # {} THEN Min(I) ELSE 0
    BY DEF Position, SelectInSeq
  <1>2. ASSUME NEW i \in 1..Len(ids), ids[i] = id
        PROVE  Position(ids, id) = i
    <2>1. I = {i}
      BY <1>2 DEF IsInjective
    <2>. HIDE DEF I
    <2>2. Min(I) = i
      BY <2>1 DEF Min
    <2>. QED  BY <1>1, <2>1, <2>2
  <1>3. I = {} => Position(ids, id) = 0
    <2>. HIDE DEF I
    <2>. QED  BY <1>1
  <1>. QED  BY <1>2, <1>3

LEMMA ChannelsFinite ==
    ASSUME NEW ns, NEW n \in Nat, \A j \in 1..n : ns[j] \in Nat
    PROVE  IsFiniteSet(ChannelsTo(ns, n)) /\ SumTo(ns, n) \in Nat
  <1>. DEFINE C(j) == {j} \X (0..(ns[j] - 1))
              Cs == {C(j) : j \in 1..n}
  <1>1. ASSUME NEW j \in 1..n PROVE IsFiniteSet(C(j))
    <2>1. IsFiniteSet({j}) /\ ns[j] - 1 \in Int
      BY FS_Singleton
    <2>2. IsFiniteSet(0..(ns[j] - 1))
      BY <2>1, FS_Interval
    <2>. QED  BY <2>1, <2>2, FS_Product
  <1>2. IsFiniteSet(1..n)
    BY FS_Interval
  <1>3. IsFiniteSet(Cs)
    <2>1. [j \in 1..n |-> C(j)] \in Surjection(1..n, Cs)
      BY DEF Surjection
    <2>. HIDE DEF C, Cs
    <2>. QED  BY <1>2, <2>1, FS_Surjection
  <1>4. IsFiniteSet(UNION Cs)
    <2>1. \A T \in Cs : IsFiniteSet(T)
      BY <1>1
    <2>. HIDE DEF Cs
    <2>. QED  BY <1>3, <2>1, FS_UNION
  <1>5. ChannelsTo(ns, n) = UNION Cs
    BY DEF ChannelsTo
  <1>. HIDE DEF Cs
  <1>. QED  BY <1>4, <1>5, FS_CardinalityType DEF SumTo

LEMMA SumStep ==
    ASSUME NEW ns, NEW p \in Nat \ {0}, \A j \in 1..p : ns[j] \in Nat
    PROVE  SumTo(ns, p) = SumTo(ns, p - 1) + ns[p]
  <1>. DEFINE A == ChannelsTo(ns, p - 1)
              B == {p} \X (0..(ns[p] - 1))
  <1>1. 1..p = (1..(p - 1)) \cup {p} /\ p \notin 1..(p - 1) /\ p - 1 \in Nat
    OBVIOUS
  <1>2. ChannelsTo(ns, p) = A \cup B
    BY <1>1 DEF ChannelsTo
  <1>3. A \cap B = {}
    BY <1>1 DEF ChannelsTo
  <1>4. IsFiniteSet(A) /\ Cardinality(A) \in Nat
    BY <1>1, ChannelsFinite DEF SumTo
  <1>5. IsFiniteSet(B) /\ Cardinality(B) = ns[p]
    <2>1. IsFiniteSet({p}) /\ Cardinality({p}) = 1
      BY FS_Singleton
    <2>4. PICK m \in Int : m = ns[p] - 1 /\ ns[p] \in Nat
      OBVIOUS
    <2>5. IsFiniteSet(0..m) /\ Cardinality(0..m) = IF 0 > m THEN 0 ELSE m - 0 + 1
      BY FS_Interval
    <2>2. IsFiniteSet(0..(ns[p] - 1)) /\ Cardinality(0..(ns[p] - 1)) = ns[p]
      BY <2>4, <2>5
    <2>3. IsFiniteSet(B) /\ Cardinality(B) = 1 * Cardinality(0..(ns[p] - 1))
      BY <2>1, <2>2, FS_Product
    <2>. QED  BY <2>2, <2>3, <2>4
  <1>. HIDE DEF A, B
  <1>6. Cardinality(A \cup B) = Cardinality(A) + Cardinality(B) - Cardinality(A \cap B)
    BY <1>4, <1>5, FS_Union
  <1>7. Cardinality(A \cap B) = 0
    BY <1>3, FS_EmptySet
  <1>8. SumTo(ns, p) = Cardinality(A) + ns[p]
    BY <1>2, <1>4, <1>5, <1>6, <1>7 DEF SumTo
  <1>. QED  BY <1>8 DEF A, SumTo

LEMMA SumMonotone ==
    ASSUME NEW ns, NEW n \in Nat, NEW p \in 0..n, \A j \in 1..n : ns[j] \in Nat
    PROVE  SumTo(ns, p) <= SumTo(ns, n) /\ SumTo(ns, p) \in Nat
  <1>1. ChannelsTo(ns, p) \subseteq ChannelsTo(ns, n)
    BY DEF ChannelsTo
  <1>2. p \in Nat /\ \A j \in 1..p : ns[j] \in Nat
    OBVIOUS
  <1>. QED  BY <1>1, <1>2, ChannelsFinite, FS_Subset DEF SumTo

\* The channels of the sources have places of their own on the bus.
LEMMA BusOrder ==
    ASSUME NEW ns, NEW n \in Nat, \A j \in 1..n : ns[j] \in Nat, NEW i \in 1..n
    PROVE  /\ SumTo(ns, i) = SumTo(ns, i - 1) + ns[i]
           /\ SumTo(ns, i - 1) \in Nat /\ SumTo(ns, i) <= SumTo(ns, n)
           /\ ns[i] \in Nat /\ SumTo(ns, n) \in Nat
           /\ \A k \in 1..n : i < k => SumTo(ns, i) <= SumTo(ns, k - 1)
  <1>1. SumTo(ns, i) = SumTo(ns, i - 1) + ns[i]
    BY SumStep
  <1>2. SumTo(ns, i - 1) \in Nat /\ SumTo(ns, i) <= SumTo(ns, n) /\ SumTo(ns, n) \in Nat
    BY SumMonotone
  <1>3. ASSUME NEW k \in 1..n, i < k
        PROVE  SumTo(ns, i) <= SumTo(ns, k - 1)
    <2>1. k - 1 \in Nat /\ i \in 0..(k - 1) /\ \A j \in 1..(k - 1) : ns[j] \in Nat
      BY <1>3
    <2>. QED  BY <2>1, SumMonotone
  <1>. QED  BY <1>1, <1>2, <1>3

LEMMA BusPlaces ==
    ASSUME NEW ns, NEW n \in Nat, \A j \in 1..n : ns[j] \in Nat,
           NEW p \in 1..n, NEW x \in Nat, x < ns[p]
    PROVE  SumTo(ns, p - 1) + x \in 0..(SumTo(ns, n) - 1)
  BY BusOrder

LEMMA BusApart ==
    ASSUME NEW ns, NEW n \in Nat, \A j \in 1..n : ns[j] \in Nat,
           NEW p \in 1..n, NEW x \in Nat, x < ns[p], NEW s \in 1..n, NEW y \in Nat, y < ns[s],
           SumTo(ns, p - 1) + x = SumTo(ns, s - 1) + y
    PROVE  p = s /\ x = y
  <1>1. /\ SumTo(ns, p) = SumTo(ns, p - 1) + ns[p] /\ SumTo(ns, s) = SumTo(ns, s - 1) + ns[s]
        /\ SumTo(ns, p - 1) \in Nat /\ SumTo(ns, s - 1) \in Nat /\ ns[p] \in Nat /\ ns[s] \in Nat
        /\ p < s => SumTo(ns, p) <= SumTo(ns, s - 1)
        /\ s < p => SumTo(ns, s) <= SumTo(ns, p - 1)
    BY BusOrder
  <1>2. ~(p < s) /\ ~(s < p)
    BY <1>1
  <1>3. p = s
    BY <1>2
  <1>4. x = y
    BY <1>1, <1>3
  <1>. QED  BY <1>3, <1>4

-----------------------------------------------------------------------------

\* A topology with sinks of distinct ids.
TopoShape(t) ==
    /\ Len(t.input_ids) \in Nat /\ DOMAIN t.input_ids = 1..Len(t.input_ids)
    /\ IsInjective(t.input_ids)
    /\ \A i \in 1..Len(t.input_ids) :
          /\ t.input_channels[i] \in Nat
          /\ t.input_bus_offsets[i] = SumTo(t.input_channels, i - 1)
    /\ t.input_bus_channels = SumTo(t.input_channels, Len(t.input_ids))

RoutesTyped(routes) == \A r \in routes : r.ch \in Nat

\* The matrices of the sinks, and an output matrix that makes heard what a map names.
Wiring(t) == [i \in 1..Len(t.input_ids) |-> BuildInputBusMixMatrix(t, i)]
Mixed(t, mix, c) == Heard([inputs |-> Wiring(t), outputs |-> <<mix>>], 1, c)
Sounds(t, mix, map) == \A c \in DOMAIN map : Mixed(t, mix, c) = Named(t.input_ids, map[c])

LEMMA MixedAt ==
    ASSUME NEW t, TopoShape(t), NEW mix, NEW c
    PROVE  Mixed(t, mix, c) =
              {x \in UNION {{s} \X (0..(t.input_channels[s] - 1)) : s \in 1..Len(t.input_ids)} :
                  mix[c][t.input_bus_offsets[x[1]] + x[2]]}
  <1>. DEFINE N == Len(t.input_ids)
              top == t.input_bus_channels - 1
              in == Wiring(t)
              out == <<mix>>
              g == [inputs |-> in, outputs |-> out]
              Chs(s) == UNION {DOMAIN g.inputs[s][b] : b \in DOMAIN g.inputs[s]}
  <1>1. g.inputs = in /\ g.outputs[1] = mix
    OBVIOUS
  <1>2. Len(in) = N /\ DOMAIN in = 1..N
    BY DEF Wiring, TopoShape
  <1>3. ASSUME NEW s \in 1..N
        PROVE  /\ DOMAIN in[s] = 0..top
               /\ \A b \in 0..top : DOMAIN in[s][b] = 0..(t.input_channels[s] - 1)
               /\ \A b \in 0..top : \A x \in 0..(t.input_channels[s] - 1) :
                     in[s][b][x] <=> b = t.input_bus_offsets[s] + x
    BY DEF Wiring, BuildInputBusMixMatrix
  <1>4. ASSUME NEW s \in 1..N, NEW x \in 0..(t.input_channels[s] - 1)
        PROVE  t.input_bus_offsets[s] + x \in 0..top
    <2>1. /\ \A i \in 1..N : t.input_channels[i] \in Nat
          /\ t.input_bus_offsets[s] = SumTo(t.input_channels, s - 1)
          /\ t.input_bus_channels = SumTo(t.input_channels, N) /\ N \in Nat
      BY DEF TopoShape
    <2>. HIDE DEF N
    <2>. QED  BY <2>1, BusPlaces
  <1>. HIDE DEF in, out, g
  <1>5. ASSUME NEW s \in 1..N, NEW x
        PROVE  /\ x \in Chs(s) <=> x \in 0..(t.input_channels[s] - 1)
    <2>1. Chs(s) \subseteq 0..(t.input_channels[s] - 1)
      BY <1>1, <1>3
    <2>2. ASSUME x \in 0..(t.input_channels[s] - 1) PROVE x \in Chs(s)
      <3>1. t.input_bus_offsets[s] + x \in DOMAIN g.inputs[s]
        BY <1>1, <1>3, <1>4, <2>2
      <3>2. x \in DOMAIN g.inputs[s][t.input_bus_offsets[s] + x]
        BY <1>1, <1>3, <1>4, <2>2
      <3>. QED  BY <3>1, <3>2
    <2>. QED  BY <2>1, <2>2
  <1>6. ASSUME NEW s \in 1..N, NEW x \in 0..(t.input_channels[s] - 1)
        PROVE  (\E b \in DOMAIN g.inputs[s] : g.inputs[s][b][x] /\ g.outputs[1][c][b])
               <=> mix[c][t.input_bus_offsets[s] + x]
    BY <1>1, <1>3, <1>4
  <1>7. Mixed(t, mix, c) =
           {x \in UNION {{s} \X Chs(s) : s \in 1..N} :
              \E b \in DOMAIN g.inputs[x[1]] : g.inputs[x[1]][b][x[2]] /\ g.outputs[1][c][b]}
    BY <1>1, <1>2 DEF Mixed, Heard, g, in, out
  <1>. HIDE DEF Chs, N
  <1>8. UNION {{s} \X Chs(s) : s \in 1..N}
            = UNION {{s} \X (0..(t.input_channels[s] - 1)) : s \in 1..N}
    <2>1. \A s \in 1..N : Chs(s) = 0..(t.input_channels[s] - 1)
      BY <1>5
    <2>. QED  BY <2>1
  <1>9. ASSUME NEW x \in UNION {{s} \X (0..(t.input_channels[s] - 1)) : s \in 1..N}
        PROVE  (\E b \in DOMAIN g.inputs[x[1]] : g.inputs[x[1]][b][x[2]] /\ g.outputs[1][c][b])
               <=> mix[c][t.input_bus_offsets[x[1]] + x[2]]
    <2>1. x[1] \in 1..N /\ x[2] \in 0..(t.input_channels[x[1]] - 1)
      OBVIOUS
    <2>. QED  BY <1>6, <2>1
  <1>. QED  BY <1>7, <1>8, <1>9 DEF N


Reached(t, routes, c) ==
    {<<Position(t.input_ids, r.input), r.ch>> : r \in {r \in routes : r.out = c}}

\* A valid set of routes makes heard, in an output channel, the channels it names.
LEMMA Carried ==
    ASSUME NEW t, TopoShape(t), NEW n \in Nat, NEW routes, RoutesTyped(routes),
           ValidForOutput(t, n, routes), NEW c \in 0..(n - 1)
    PROVE  Mixed(t, BuildOutputMixMatrix(t, n, routes), c) = Reached(t, routes, c)
  <1>. DEFINE N == Len(t.input_ids)
              mix == BuildOutputMixMatrix(t, n, routes)
              Chs == UNION {{s} \X (0..(t.input_channels[s] - 1)) : s \in 1..N}
              P(r) == Position(t.input_ids, r.input)
  <1>1. /\ N \in Nat /\ DOMAIN t.input_ids = 1..N /\ IsInjective(t.input_ids)
        /\ \A i \in 1..N : /\ t.input_channels[i] \in Nat
                           /\ t.input_bus_offsets[i] = SumTo(t.input_channels, i - 1)
        /\ t.input_bus_channels = SumTo(t.input_channels, N)
    BY DEF TopoShape
  <1>2. ASSUME NEW r \in routes
        PROVE  P(r) \in 1..N /\ r.ch \in 0..(t.input_channels[P(r)] - 1)
    <2>1. P(r) # 0 /\ r.ch < t.input_channels[P(r)] /\ r.ch \in Nat
      BY DEF ValidForOutput, RoutesTyped
    <2>2. P(r) \in 1..N
      BY <1>1, <2>1, PositionFacts
    <2>3. t.input_channels[P(r)] \in Nat
      BY <1>1, <2>2
    <2>. QED  BY <2>1, <2>2, <2>3
  <1>3. ASSUME NEW b \in 0..(t.input_bus_channels - 1)
        PROVE  mix[c][b] <=> \E r \in routes :
                                r.out = c /\ t.input_bus_offsets[P(r)] + r.ch = b
    BY DEF BuildOutputMixMatrix, InputBusIndex
  <1>. HIDE DEF mix, N, P
  <1>4. ASSUME NEW s \in 1..N, NEW y \in 0..(t.input_channels[s] - 1)
        PROVE  mix[c][t.input_bus_offsets[s] + y]
               <=> \E r \in routes : r.out = c /\ P(r) = s /\ r.ch = y
    <2>1. t.input_bus_offsets[s] + y \in 0..(t.input_bus_channels - 1)
      <3>1. y \in Nat /\ y < t.input_channels[s]
        BY <1>1
      <3>. QED  BY <1>1, <3>1, BusPlaces
    <2>2. ASSUME NEW r \in routes
          PROVE  t.input_bus_offsets[P(r)] + r.ch = t.input_bus_offsets[s] + y
                 <=> P(r) = s /\ r.ch = y
      <3>1. P(r) \in 1..N /\ r.ch \in 0..(t.input_channels[P(r)] - 1)
        BY <1>2
      <3>2. /\ t.input_bus_offsets[P(r)] = SumTo(t.input_channels, P(r) - 1)
            /\ t.input_bus_offsets[s] = SumTo(t.input_channels, s - 1)
        BY <1>1, <3>1
      <3>3. PICK p \in 1..N : P(r) = p
        BY <3>1
      <3>4. PICK x \in 0..(t.input_channels[p] - 1) : r.ch = x
        BY <3>1, <3>3
      <3>5. SumTo(t.input_channels, p - 1) + x = SumTo(t.input_channels, s - 1) + y
            => p = s /\ x = y
        <4>1. PICK ns : ns = t.input_channels
          OBVIOUS
        <4>2. N \in Nat /\ \A j \in 1..N : ns[j] \in Nat
          BY <1>1, <4>1
        <4>3. x \in 0..(ns[p] - 1)
          BY <4>1
        <4>4. y \in 0..(ns[s] - 1)
          BY <4>1
        <4>6. x \in Nat /\ x < ns[p] /\ y \in Nat /\ y < ns[s]
          BY <4>2, <4>3, <4>4
        <4>5. SumTo(ns, p - 1) + x = SumTo(ns, s - 1) + y => p = s /\ x = y
          BY <4>2, <4>3, <4>4, <4>6, BusApart
        <4>. QED  BY <4>1, <4>5
      <3>. QED  BY <3>2, <3>3, <3>4, <3>5
    <2>. QED  BY <1>3, <2>1, <2>2
  <1>5. Mixed(t, mix, c) = {x \in Chs : mix[c][t.input_bus_offsets[x[1]] + x[2]]}
    BY MixedAt DEF N
  <1>6. \A x \in Chs : x = <<x[1], x[2]>> /\ x[1] \in 1..N
                       /\ x[2] \in 0..(t.input_channels[x[1]] - 1)
    OBVIOUS
  <1>7. \A s \in 1..N : \A y \in 0..(t.input_channels[s] - 1) : <<s, y>> \in Chs
    OBVIOUS
  <1>. HIDE DEF Chs
  <1>8. Mixed(t, mix, c) = {<<P(r), r.ch>> : r \in {r \in routes : r.out = c}}
    <2>1. ASSUME NEW x \in Mixed(t, mix, c)
          PROVE  x \in {<<P(r), r.ch>> : r \in {r \in routes : r.out = c}}
      <3>1. x \in Chs /\ mix[c][t.input_bus_offsets[x[1]] + x[2]]
        BY <1>5, <2>1
      <3>2. PICK r \in routes : r.out = c /\ P(r) = x[1] /\ r.ch = x[2]
        BY <1>4, <1>6, <3>1
      <3>. QED  BY <1>6, <3>1, <3>2
    <2>2. ASSUME NEW r \in routes, r.out = c
          PROVE  <<P(r), r.ch>> \in Mixed(t, mix, c)
      <3>1. <<P(r), r.ch>> \in Chs /\ mix[c][t.input_bus_offsets[P(r)] + r.ch]
        BY <1>2, <1>4, <1>7, <2>2
      <3>. QED  BY <1>5, <3>1
    <2>. QED  BY <2>1, <2>2
  <1>. QED  BY <1>8 DEF mix, P, Reached

MapTyped(map) == \A c \in DOMAIN map : map[c].ch \in Nat

LEMMA ActivationRoutes ==
    ASSUME NEW map, NEW r
    PROVE  r \in RoutesFromActivation(map) <=>
              \E o \in DOMAIN map : /\ map[o].input # ""
                                    /\ r = [out |-> o, input |-> map[o].input, ch |-> map[o].ch]
  BY DEF RoutesFromActivation

\* An activation that is valid for an output makes heard what it names.
LEMMA ActivationSounds ==
    ASSUME NEW t, TopoShape(t), NEW n \in Nat, NEW map, DOMAIN map = 0..(n - 1),
           MapTyped(map), ValidForOutput(t, n, RoutesFromActivation(map))
    PROVE  Sounds(t, BuildOutputMixMatrix(t, n, RoutesFromActivation(map)), map)
  <1>. DEFINE routes == RoutesFromActivation(map)
              R(c) == [out |-> c, input |-> map[c].input, ch |-> map[c].ch]
  <1>1. \A r : r \in routes <=> \E c \in DOMAIN map : map[c].input # "" /\ r = R(c)
    BY ActivationRoutes
  <1>2. ValidForOutput(t, n, routes)
    OBVIOUS
  <1>. HIDE DEF routes
  <1>3. RoutesTyped(routes)
    <2>1. ASSUME NEW r \in routes PROVE r.ch \in Nat
      <3>1. PICK c \in DOMAIN map : r = R(c)
        BY <1>1
      <3>2. r.ch = map[c].ch
        BY <3>1
      <3>. QED  BY <3>2 DEF MapTyped
    <2>. QED  BY <2>1 DEF RoutesTyped
  <1>6a. \A c : R(c).input = map[c].input /\ R(c).ch = map[c].ch /\ R(c).out = c
    OBVIOUS
  <1>. HIDE DEF R
  <1>4. ASSUME NEW c \in 0..(n - 1)
        PROVE  Reached(t, routes, c) = Named(t.input_ids, map[c])
    <2>1. CASE map[c].input = ""
      <3>1. ASSUME NEW r \in routes, r.out = c PROVE FALSE
        <4>1. PICK d \in DOMAIN map : map[d].input # "" /\ r = R(d)
          BY <1>1
        <4>. QED  BY <1>6a, <2>1, <3>1, <4>1
      <3>2. Reached(t, routes, c) = {}
        BY <3>1 DEF Reached
      <3>. QED  BY <2>1, <3>2 DEF Named
    <2>2. CASE map[c].input # ""
      <3>1. {r \in routes : r.out = c} = {R(c)}
        <4>1. ASSUME NEW r \in routes, r.out = c PROVE r = R(c)
          <5>1. PICK d \in DOMAIN map : map[d].input # "" /\ r = R(d)
            BY <1>1
          <5>. QED  BY <1>6a, <4>1, <5>1
        <4>2. R(c) \in routes /\ R(c).out = c
          BY <1>1, <1>6a, <2>2
        <4>. QED  BY <4>1, <4>2
      <3>3. Reached(t, routes, c) = {<<Position(t.input_ids, map[c].input), map[c].ch>>}
        BY <3>1, <1>6a DEF Reached
      <3>. QED  BY <2>2, <3>3 DEF Named
    <2>. QED  BY <2>1, <2>2
  <1>5. ASSUME NEW c \in 0..(n - 1)
        PROVE  Mixed(t, BuildOutputMixMatrix(t, n, routes), c) = Named(t.input_ids, map[c])
    <2>1. Mixed(t, BuildOutputMixMatrix(t, n, routes), c) = Reached(t, routes, c)
      BY <1>2, <1>3, Carried
    <2>. QED  BY <1>4, <2>1
  <1>6. Sounds(t, BuildOutputMixMatrix(t, n, routes), map)
    BY <1>5 DEF Sounds
  <1>. QED  BY <1>6 DEF routes

\* So do the routes that an output starts with, published as entries.
Here(routes, c) == {r \in routes : r.out = c /\ r.input # ""}

LEMMA InitialSounds ==
    ASSUME NEW t, TopoShape(t), "" \notin Range(t.input_ids), NEW n \in Nat, NEW routes,
           RoutesTyped(routes), ValidForOutput(t, n, routes)
    PROVE  Sounds(t, BuildOutputMixMatrix(t, n, routes), EntriesFromRoutes(n, routes))
  <1>. DEFINE P(r) == Position(t.input_ids, r.input)
              Set(c) == Reached(t, routes, c)
  <1>1. PICK shown : shown = EntriesFromRoutes(n, routes)
    OBVIOUS
  <1>2. DOMAIN shown = 0..(n - 1)
    BY <1>1 DEF EntriesFromRoutes
  <1>3. ASSUME NEW r \in routes
        PROVE  r.input # ""
    <2>1. Position(t.input_ids, r.input) # 0
      BY DEF ValidForOutput
    <2>2. /\ Position(t.input_ids, r.input) \in DOMAIN t.input_ids
          /\ t.input_ids[Position(t.input_ids, r.input)] = r.input
      BY <2>1, PositionFacts DEF TopoShape
    <2>. QED  BY <2>2 DEF Range
  <1>4. \A r, q \in routes : r.out = q.out => r = q
    BY DEF ValidForOutput
  <1>5. ASSUME NEW c \in 0..(n - 1)
        PROVE  Mixed(t, BuildOutputMixMatrix(t, n, routes), c) = Set(c)
    <2>1. PICK mix : mix = BuildOutputMixMatrix(t, n, routes)
      OBVIOUS
    <2>2. Mixed(t, mix, c) = Set(c)
      BY <2>1, Carried
    <2>. QED  BY <2>1, <2>2
  <1>. HIDE DEF P
  <1>6. ASSUME NEW c \in 0..(n - 1)
        PROVE  Set(c) = Named(t.input_ids, shown[c])
    <2>0. shown[c] = IF Here(routes, c) = {} THEN Unrouted
                     ELSE [input |-> (CHOOSE r \in Here(routes, c) : TRUE).input,
                           ch |-> (CHOOSE r \in Here(routes, c) : TRUE).ch]
      BY <1>1 DEF EntriesFromRoutes, Here
    <2>1. CASE \A r \in routes : r.out # c
      <3>1. Here(routes, c) = {} /\ Set(c) = {}
        BY <2>1 DEF Here, Reached
      <3>2. shown[c] = Unrouted
        BY <2>0, <3>1
      <3>3. Unrouted.input = ""
        BY DEF Unrouted
      <3>. HIDE DEF Set
      <3>. QED  BY <3>1, <3>2, <3>3 DEF Named
    <2>2. ASSUME NEW r \in routes, r.out = c
          PROVE  Set(c) = Named(t.input_ids, shown[c])
      <3>1. {q \in routes : q.out = c} = {r} /\ Here(routes, c) = {r}
        BY <1>3, <1>4, <2>2 DEF Here
      <3>2. (CHOOSE q \in Here(routes, c) : TRUE) = r /\ Here(routes, c) # {}
        BY <3>1
      <3>3. shown[c].input = r.input /\ shown[c].ch = r.ch
        <4>1. PICK e : e = shown[c]
          OBVIOUS
        <4>2. PICK q : q = CHOOSE p \in Here(routes, c) : TRUE
          OBVIOUS
        <4>3. e = [input |-> q.input, ch |-> q.ch]
          BY <2>0, <3>2, <4>1, <4>2
        <4>4. e.input = q.input /\ e.ch = q.ch
          BY <4>3
        <4>. QED  BY <3>2, <4>1, <4>2, <4>4
      <3>4. Set(c) = {<<P(r), r.ch>>}
        BY <3>1 DEF Reached, P
      <3>. HIDE DEF Set
      <3>. QED  BY <1>3, <3>3, <3>4 DEF Named, P
    <2>. QED  BY <2>1, <2>2
  <1>. HIDE DEF Set
  <1>7. Sounds(t, BuildOutputMixMatrix(t, n, routes), shown)
    BY <1>2, <1>5, <1>6 DEF Sounds
  <1>. QED  BY <1>1, <1>7

-----------------------------------------------------------------------------
(* From the activation of a map to the mixer: the invariant. *)

\* What is on its way to the mixer.
Queue == slot[Element].queue
Waits(o) == thread.pc = "merged" /\ thread.output = o
Queued(o) == \E k \in 1..Len(Queue) : Queue[k].output = o

\* The outputs of the mapping of the element, from when libnvnmos has them.
Owned(o) ==
    \/ \E c \in DOMAIN cms : cms[c].session = Element /\ o \in cms[c].outputs
    \/ handler[ElementHandler].pc = "added" /\ o \in Ids(handler[ElementHandler].outputs)

SlotShape == /\ DOMAIN slot = Sessions
             /\ slot[Element] = [state |-> slot[Element].state, queue |-> Queue]

FlightTyped ==
    /\ SlotShape
    /\ \E S : Queue \in Seq(S)
    /\ thread.pc = "merged" => MapTyped(thread.map)
    /\ \A k \in 1..Len(Queue) : MapTyped(Queue[k].map)
    /\ hand.stage = "read" => MapTyped(hand.map)

\* What comes before fixation is over counts as astray.
Early ==
    /\ phase \notin {"paused", "stop", "stopping", "closing"} => ~fixated
    /\ ~fixated =>
          /\ \A k \in 1..Len(Queue) : Queue[k].output \in astray
          /\ hand.stage \in {"read", "routed"} => hand.output \in astray
          /\ thread.pc = "merged" /\ Owned(thread.output) => thread.output \in astray

NoEmpty ==
    /\ phase = "adding" => "" \notin Wanted(snap.sinks)
    /\ handle # NoHandle => "" \notin cms[handle].inputs

SnapTyped ==
    /\ \A i \in 1..Len(snap.sinks) :
          /\ snap.sinks[i] = [id |-> snap.sinks[i].id, channels |-> snap.sinks[i].channels]
          /\ snap.sinks[i].channels \in Nat
    /\ \A i \in 1..Len(snap.srcs) :
          /\ snap.srcs[i] = [id |-> snap.srcs[i].id, channels |-> snap.srcs[i].channels,
                             map |-> snap.srcs[i].map]
          /\ snap.srcs[i].channels \in Nat
          /\ \A f \in Range(snap.srcs[i].map.fields) : f.key \in Nat /\ f.value.ch \in Nat

Mixing == phase \in {"sync", "syncing", "synced", "paused"}
Wired ==
    /\ phase = "built" => \A i \in 1..Len(snap.srcs) :
          ValidForOutput(topology, snap.srcs[i].channels, SrcRoutes(topology, i))
    /\ Mixing => /\ graph = [inputs |-> Wiring(topology), outputs |-> graph.outputs]
                 /\ DOMAIN graph.outputs = 1..Len(topology.output_ids)

Apt == DistinctPads /\ "" \notin Range(topology.input_ids)

\* Until fixation is over an output sounds as its pad asks, and as IS-08 shows once
\* it is published.
Synced(i) == i < output \/ (i = output /\ phase = "synced")
Asked(i) == IF Synced(i) THEN lib.res[<<"outputs", topology.output_ids[i]>>]
            ELSE InitialEntries(i)
Fresh ==
    phase \in {"sync", "syncing", "synced"} /\ Apt =>
        \A i \in 1..Len(topology.output_ids) :
            topology.output_ids[i] \notin astray => Sounds(topology, graph.outputs[i], Asked(i))

\* The last event of output o on its way carries map m, and without one o sounds so.
Arrives(i, o, m) ==
    /\ Waits(o) => thread.map = m
    /\ ~Waits(o) =>
          \A k \in 1..Len(Queue) :
              Queue[k].output = o /\ (\A j \in (k + 1)..Len(Queue) : Queue[j].output # o)
              => Queue[k].map = m
    /\ ~Waits(o) /\ ~Queued(o) =>
          /\ hand.stage = "read" => (hand.output = o => hand.map = m)
          /\ hand.stage = "routed" =>
                (hand.output = o => hand.index = i /\ Sounds(topology, hand.mix, m))
    /\ Settled(o) => Sounds(topology, graph.outputs[i], m)

Due(i, o, m) ==
    /\ i \in 1..Len(topology.output_ids)
    /\ o = topology.output_ids[i] /\ o \notin astray
    /\ m = lib.res[<<"outputs", o>>]

Latest == phase = "paused" /\ Apt => \A i, o, m : Due(i, o, m) => Arrives(i, o, m)

HInv == FlightTyped /\ Early /\ NoEmpty /\ SnapTyped /\ Wired /\ Fresh /\ Latest

-----------------------------------------------------------------------------
(* The topology of the snapshots. *)

LEMMA SnapTopo ==
    ASSUME Counts, SnapTyped, IsInjective(SnapTopology.input_ids)
    PROVE  TopoShape(SnapTopology)
  <1>. DEFINE channels == [i \in 1..Len(snap.sinks) |-> snap.sinks[i].channels]
  <1>1. Len(snap.sinks) \in Nat /\ Len(channels) = Len(snap.sinks)
    BY DEF Counts
  <1>2. /\ SnapTopology.input_ids = [i \in 1..Len(snap.sinks) |-> snap.sinks[i].id]
        /\ SnapTopology.input_channels = channels
        /\ SnapTopology.input_bus_offsets = [i \in 1..Len(channels) |-> SumTo(channels, i - 1)]
        /\ SnapTopology.input_bus_channels = SumTo(channels, Len(channels))
    BY DEF SnapTopology, FromSnapshots, BusOffsets
  <1>3. \A i \in 1..Len(snap.sinks) : channels[i] \in Nat
    BY DEF SnapTyped
  <1>. HIDE DEF channels
  <1>. QED  BY <1>1, <1>2, <1>3 DEF TopoShape

LEMMA SnapOutputs ==
    ASSUME Counts
    PROVE  /\ Len(SnapTopology.output_ids) = Len(snap.srcs)
           /\ DOMAIN SnapTopology.output_ids = 1..Len(snap.srcs)
           /\ Len(SnapTopology.input_ids) = Len(snap.sinks)
           /\ \A i \in 1..Len(snap.srcs) :
                 /\ SnapTopology.output_ids[i] = snap.srcs[i].id
                 /\ SnapTopology.output_channels[i] = snap.srcs[i].channels
  BY DEF Counts, SnapTopology, FromSnapshots

LEMMA SrcRoutesTyped ==
    ASSUME Counts, SnapTyped, NEW i \in 1..Len(snap.srcs)
    PROVE  RoutesTyped(SrcRoutes(SnapTopology, i))
  <1>. DEFINE src == snap.srcs[i]
              t == SnapTopology
  <1>1. src.channels \in Nat /\ \A f \in Range(src.map.fields) : f.value.ch \in Nat
    BY DEF SnapTyped
  <1>2. RoutesTyped(ParseActiveMapStructure(src.map))
    BY <1>1 DEF RoutesTyped, ParseActiveMapStructure
  <1>3. RoutesTyped(DefaultIdentityRoutes(t, i, src.channels))
    <2>. HIDE DEF t, src
    <2>1. \A c \in 0..src.channels : c \in Nat
      BY <1>1
    <2>2. ASSUME NEW r \in DefaultIdentityRoutes(t, i, src.channels) PROVE r.ch \in Nat
      <3>1. CASE Len(t.output_ids) = 1
        <4>1. PICK x \in (1..Len(t.input_ids)) \X (0..src.channels) : r.ch = x[2]
          BY <2>2, <3>1 DEF DefaultIdentityRoutes
        <4>2. x[2] \in 0..src.channels
          OBVIOUS
        <4>. QED  BY <2>1, <4>1, <4>2
      <3>2. CASE Len(t.output_ids) # 1
        <4>0. r \in {[out |-> c, input |-> t.input_ids[i], ch |-> c] :
                       c \in {c \in 0..src.channels : c < src.channels /\ c < t.input_channels[i]}}
          BY <2>2, <3>2 DEF DefaultIdentityRoutes
        <4>1. PICK c \in 0..src.channels : r.ch = c
          BY <4>0
        <4>. QED  BY <2>1, <4>1
      <3>. QED  BY <3>1, <3>2
    <2>. QED  BY <2>2 DEF RoutesTyped
  <1>. QED  BY <1>2, <1>3 DEF SrcRoutes, RoutesForSrc

\* What an output of a graph makes heard depends on its matrix alone.
LEMMA HeardIsMixed ==
    ASSUME NEW t, NEW g, NEW os, g = [inputs |-> Wiring(t), outputs |-> os], NEW i, NEW c
    PROVE  Heard(g, i, c) = Mixed(t, os[i], c)
  <1>. DEFINE in == Wiring(t)
              h == [inputs |-> in, outputs |-> <<os[i]>>]
  <1>. HIDE DEF in
  <1>1. /\ g.inputs = in /\ g.outputs[i] = os[i]
        /\ h.inputs = in /\ h.outputs[1] = os[i]
    BY DEF in
  <1>. HIDE DEF h
  <1>2. Heard(g, i, c) = Heard(h, 1, c)
    BY <1>1 DEF Heard
  <1>. QED  BY <1>2 DEF Mixed, h, in

\* From the build on the topology is that of the snapshots.
LEMMA FrozenTopology ==
    ASSUME EInv, phase \in {"built", "sync", "syncing", "synced", "paused"}
    PROVE  /\ handle # NoHandle /\ IsMine(handle) /\ topology = SnapTopology
           /\ Len(topology.output_ids) = Len(snap.srcs)
           /\ DOMAIN topology.output_ids = 1..Len(snap.srcs)
           /\ \A i \in 1..Len(snap.srcs) :
                 /\ topology.output_ids[i] = snap.srcs[i].id
                 /\ topology.output_channels[i] = snap.srcs[i].channels
  BY SnapOutputs DEF EInv, Frozen, MineIs

\* An output that is published is an output of the mapping of the element.
LEMMA PublishedOutput ==
    ASSUME RInv, EInv, NEW i \in 1..Len(topology.output_ids),
           phase = "paused" \/ (phase \in {"sync", "syncing", "synced"} /\ Synced(i)),
           NEW o, o = topology.output_ids[i]
    PROVE  /\ handle \in DOMAIN cms /\ cms[handle].session = Element /\ o \in cms[handle].outputs
           /\ <<"outputs", o>> \in DOMAIN lib.res
           /\ DOMAIN lib.res[<<"outputs", o>>] = 0..(topology.output_channels[i] - 1)
           /\ Owned(o) /\ o \in lib.config[cms[handle].name].outputs
           /\ cms[handle].name \in DOMAIN lib.config
  <1>1. /\ IsMine(handle) /\ i \in 1..Len(snap.srcs) /\ o = snap.srcs[i].id
        /\ topology.output_channels[i] = snap.srcs[i].channels
    BY FrozenTopology
  <1>2. SyncedAt(i)
    <2>1. CASE phase = "paused"
      BY <1>1, <2>1 DEF EInv, Published
    <2>2. CASE phase \in {"sync", "syncing"} /\ Synced(i)
      <3>1. i \in 1..(output - 1)
        BY <1>1, <2>2 DEF Synced, EInv, Counts
      <3>. QED  BY <2>2, <3>1 DEF EInv, Published
    <2>3. CASE phase = "synced" /\ Synced(i)
      <3>1. i \in 1..output
        BY <1>1, <2>3 DEF Synced, EInv, Counts
      <3>. QED  BY <2>3, <3>1 DEF EInv, Published
    <2>. QED  BY <2>1, <2>2, <2>3
  <1>3. handle \in DOMAIN cms /\ cms[handle].session = Element /\ o \in cms[handle].outputs
    BY <1>1, <1>2 DEF IsMine, SyncedAt
  <1>4. DOMAIN lib.res[<<"outputs", o>>] = 0..(topology.output_channels[i] - 1)
    BY <1>1, <1>2 DEF SyncedAt
  <1>5. /\ cms[handle].name \in DOMAIN lib.config /\ <<"outputs", o>> \in DOMAIN lib.res
        /\ o \in lib.config[cms[handle].name].outputs
    BY <1>3, MineHeld
  <1>. QED  BY <1>3, <1>4, <1>5 DEF Owned

SlotStays == SlotShape' /\ Queue' = Queue
ThreadStays == thread' = thread \/ (thread.pc # "merged" /\ thread'.pc # "merged")
HandleKept == handle # NoHandle => cms'[handle].inputs = cms[handle].inputs
OwnedKept == \A o : Owned(o)' => Owned(o)

\* A step that the mixer and what is on its way to it do not see.
Unheard ==
    /\ UNCHANGED <<phase, snap, handle, topology, graph, output, fixated, hand, astray>>
    /\ SlotStays /\ ThreadStays /\ ShownKept /\ HandleKept
    /\ thread'.pc = "merged" => OwnedKept

LEMMA UnheardFlight ==
    ASSUME FlightTyped, SlotStays, ThreadStays, hand' = hand
    PROVE  FlightTyped'
  BY DEF FlightTyped, SlotStays, ThreadStays, Queue

\* It keeps the invariant.
LEMMA UnheardKeeps ==
    ASSUME RInv, EInv, HInv, Unheard
    PROVE  HInv'
  <1>1. FlightTyped'
    BY UnheardFlight DEF HInv, Unheard
  <1>2. Early'
    BY DEF HInv, Unheard, Early, SlotStays, ThreadStays, OwnedKept
  <1>3. NoEmpty'
    BY DEF HInv, Unheard, NoEmpty, HandleKept, Wanted, IdOf
  <1>4. SnapTyped'
    BY DEF HInv, Unheard, SnapTyped
  <1>5. Wired'
    BY DEF HInv, Unheard, Wired, Mixing, SrcRoutes
  <1>6. Fresh'
    <2>1. SUFFICES ASSUME phase \in {"sync", "syncing", "synced"}, Apt,
                          NEW i \in 1..Len(topology.output_ids),
                          topology.output_ids[i] \notin astray
                   PROVE  Asked(i)' = Asked(i)
      BY DEF HInv, Unheard, Fresh, Apt, DistinctPads
    <2>2. CASE Synced(i)
      <3>1. lib'.res[<<"outputs", topology.output_ids[i]>>]
               = lib.res[<<"outputs", topology.output_ids[i]>>]
        BY <2>1, <2>2, PublishedOutput DEF Unheard, ShownKept
      <3>. QED  BY <2>2, <3>1 DEF Unheard, Asked, Synced
    <2>3. CASE ~Synced(i)
      BY <2>3 DEF Unheard, Asked, Synced, InitialEntries, SrcRoutes, SnapTopology
    <2>. QED  BY <2>2, <2>3
  <1>7. Latest'
    <2>1. SUFFICES ASSUME phase = "paused", Apt, NEW i, NEW o, NEW m, Due(i, o, m)'
                   PROVE  Arrives(i, o, m)'
      BY DEF Unheard, Latest, Apt, DistinctPads
    <2>2. i \in 1..Len(topology.output_ids) /\ o = topology.output_ids[i] /\ o \notin astray
      BY <2>1 DEF Unheard, Due
    <2>3. lib'.res[<<"outputs", o>>] = lib.res[<<"outputs", o>>]
      BY <2>1, <2>2, PublishedOutput DEF Unheard, ShownKept
    <2>4. Due(i, o, m)
      BY <2>1, <2>2, <2>3 DEF Due
    <2>5. Arrives(i, o, m)
      BY <2>1, <2>4 DEF HInv, Latest
    <2>6. Waits(o)' <=> Waits(o)
      BY DEF Unheard, ThreadStays, Waits
    <2>7. Waits(o) => thread' = thread
      BY DEF Unheard, ThreadStays, Waits
    <2>8. Queue' = Queue /\ (Queued(o)' <=> Queued(o)) /\ (Settled(o)' <=> Settled(o))
      BY <2>6 DEF Unheard, SlotStays, Queued, Settled, Waits, Queue
    <2>. QED  BY <2>5, <2>6, <2>7, <2>8 DEF Unheard, Arrives
  <1>. QED  BY <1>1, <1>2, <1>3, <1>4, <1>5, <1>6, <1>7 DEF HInv

\* A step of another session leaves the queue of the element.
LEMMA SlotSame ==
    ASSUME FlightTyped, slot' = slot
    PROVE  SlotStays
  BY DEF FlightTyped, SlotShape, SlotStays, Queue

LEMMA SlotOther ==
    ASSUME FlightTyped, NEW s, s # Element, NEW r, slot' = [slot EXCEPT ![s] = r]
    PROVE  SlotStays
  <1>1. DOMAIN slot' = Sessions /\ slot'[Element] = slot[Element]
    BY ElementAssumption DEF FlightTyped, SlotShape
  <1>. QED  BY <1>1 DEF FlightTyped, SlotShape, SlotStays, Queue

LEMMA SlotReaped ==
    ASSUME FlightTyped, NEW s, slot' = Reaped(s)
    PROVE  SlotStays
  <1>1. PICK r : r = [slot[s] EXCEPT !.state = IF @ = "dropped" THEN "none" ELSE @]
    OBVIOUS
  <1>2. slot' = [slot EXCEPT ![s] = r]
    BY <1>1 DEF Reaped
  <1>3. CASE s = Element
    <2>1. DOMAIN slot' = Sessions /\ slot'[Element] = r
      BY <1>2, <1>3, ElementAssumption DEF FlightTyped, SlotShape
    <2>2. r = [state |-> r.state, queue |-> slot[Element].queue]
      BY <1>1, <1>3 DEF FlightTyped, SlotShape, Queue
    <2>3. r.queue = slot[Element].queue /\ r = [state |-> r.state, queue |-> r.queue]
      BY <2>2
    <2>. QED  BY <2>1, <2>3 DEF SlotShape, SlotStays, Queue
  <1>. QED  BY <1>2, <1>3, SlotOther

LEMMA AsideOwned ==
    ASSUME MineKept, NoneNew, handler'[ElementHandler] = handler[ElementHandler]
    PROVE  OwnedKept
  BY DEF MineKept, NoneNew, OwnedKept, Owned

LEMMA MineHandle ==
    ASSUME EInv, MineKept
    PROVE  HandleKept
  BY DEF EInv, MineIs, IsMine, MineKept, HandleKept

LEMMA LibShown ==
    ASSUME lib' = lib
    PROVE  ShownKept
  BY DEF ShownKept

LEMMA AsideUnheard ==
    ASSUME EInv, Aside, UNCHANGED element, SlotStays, ThreadStays, ShownKept
    PROVE  Unheard
  BY AsideOwned, MineHandle DEF Unheard, Aside, element

LEMMA ClientSlot ==
    ASSUME FlightTyped, NEW s, s # Element, NEW h, ClientStep(s, h)
    PROVE  SlotStays /\ ThreadStays /\ ShownKept
  <1>1. ASSUME NEW r, PrepareAddChannelmapping(h, s, r)
        PROVE  SlotStays /\ ThreadStays /\ ShownKept
    BY <1>1, SlotReaped, LibShown DEF PrepareAddChannelmapping, ThreadStays
  <1>2. ASSUME NEW c, RemoveChannelmapping(c)
        PROVE  SlotStays /\ ThreadStays /\ ShownKept
    BY <1>2, SlotSame, LibShown DEF RemoveChannelmapping, router, ThreadStays
  <1>3. ASSUME NEW c, NEW m, NEW o, SyncChannelmappingState(h, c, o, m)
        PROVE  SlotStays /\ ThreadStays /\ ShownKept
    BY <1>3, SlotSame, LibShown DEF SyncChannelmappingState, router, ThreadStays
  <1>4. ASSUME CloseSession(s)
        PROVE  SlotStays /\ ThreadStays /\ ShownKept
    BY <1>4, SlotOther, LibShown DEF CloseSession, ThreadStays
  <1>5. ASSUME SubscribeChannelmapping(s) \/ StreamDropped(s)
        PROVE  SlotStays /\ ThreadStays /\ ShownKept
    BY <1>5, SlotOther, LibShown DEF SubscribeChannelmapping, StreamDropped, ThreadStays
  <1>6. ASSUME ReadEvent(s)
        PROVE  SlotStays /\ ThreadStays /\ ShownKept
    <2>1. PICK r : slot' = [slot EXCEPT ![s] = r]
      BY <1>6 DEF ReadEvent
    <2>. QED  BY <1>6, <2>1, SlotOther, LibShown DEF ReadEvent, ThreadStays
  <1>7. ASSUME NEW a, AckChannelmappingActivation(s, a)
        PROVE  SlotStays /\ ThreadStays /\ ShownKept
    BY <1>7, SlotSame, LibShown DEF AckChannelmappingActivation, ThreadStays
  <1>. QED  BY <1>1, <1>2, <1>3, <1>4, <1>5, <1>6, <1>7 DEF ClientStep

LEMMA AddSlot ==
    ASSUME RInv, FlightTyped, NEW h \in Handlers,
           AddChannelmappingFfi(h) \/ CommitAddChannelmapping(h)
    PROVE  SlotStays /\ ThreadStays /\ ShownKept
  <1>1. slot' = slot /\ thread' = thread
    BY DEF AddChannelmappingFfi, CommitAddChannelmapping, router
  <1>2. CommitAddChannelmapping(h) => lib' = lib
    BY DEF CommitAddChannelmapping
  <1>. QED  BY <1>1, <1>2, SlotSame, AddFfiShown, LibShown DEF ThreadStays

\* The add of the element itself.
LEMMA OwnAddUnheard ==
    ASSUME RInv, EInv, FlightTyped, UNCHANGED element,
           AddChannelmappingFfi(ElementHandler) \/ CommitAddChannelmapping(ElementHandler)
    PROVE  Unheard
  <1>. DEFINE r == handler[ElementHandler]
  <1>0. ElementHandler \in Handlers
    BY ElementAssumption
  <1>1. SlotStays /\ ThreadStays /\ ShownKept
    BY <1>0, AddSlot
  <1>2. HandleKept
    BY <1>0, AddFfiShown, ShownMine, CommitMine, MineHandle
  <1>3. thread'.pc = "merged" => OwnedKept
    <2>1. ASSUME AddChannelmappingFfi(ElementHandler) PROVE thread'.pc # "merged"
      BY <2>1 DEF AddChannelmappingFfi, router, ModelFree
    <2>2. ASSUME CommitAddChannelmapping(ElementHandler) PROVE OwnedKept
      <3>1. r.pc = "added" /\ handler'[ElementHandler] = Idle /\ Idle.pc = "idle"
        BY <1>0, <2>2 DEF CommitAddChannelmapping, RInv, Typed, Idle
      <3>2. PICK e : e = [name |-> r.name, session |-> r.session, inputs |-> Ids(r.inputs),
                          outputs |-> Ids(r.outputs)]
        OBVIOUS
      <3>3. cms' = cms \/ cms' = With(cms, nextCm, e)
        BY <2>2, <3>2 DEF CommitAddChannelmapping, daemon
      <3>4. \A c \in DOMAIN cms' : (c \in DOMAIN cms /\ cms'[c] = cms[c]) \/ cms'[c] = e
        BY <3>3 DEF With
      <3>5. e.outputs = Ids(r.outputs)
        BY <3>2
      <3>. QED  BY <3>1, <3>4, <3>5 DEF OwnedKept, Owned
    <2>. QED  BY <2>1, <2>2
  <1>. QED  BY <1>1, <1>2, <1>3 DEF Unheard, element

LEMMA OthersHeard ==
    ASSUME RInv, EInv, HInv, OthersStep, UNCHANGED element
    PROVE  HInv'
  <1>0. Resting /\ FlightTyped
    BY DEF Resting, element, HInv
  <1>1. ASSUME NEW s \in Sessions \ {Element}, NEW h \in Handlers \ {ElementHandler},
               ClientStep(s, h)
        PROVE  Unheard
    BY <1>0, <1>1, ClientAside, ClientSlot, AsideUnheard
  <1>2. ASSUME NEW h \in Handlers \ {ElementHandler},
               AddChannelmappingFfi(h) \/ CommitAddChannelmapping(h)
        PROVE  Unheard
    BY <1>0, <1>2, FfiAside, AddSlot, AsideUnheard
  <1>3. ASSUME NEW s \in Sessions \ {Element}, StreamEnded(s)
        PROVE  Unheard
    <2>1. UNCHANGED <<cms, lib, handler, thread>> /\ slot' = Reaped(s)
      BY <1>3 DEF StreamEnded, daemon
    <2>2. Aside
      BY <1>0, <2>1, SameMine, HandlersAside DEF Aside, Resting
    <2>. QED  BY <1>0, <2>1, <2>2, SlotReaped, LibShown, AsideUnheard DEF ThreadStays
  <1>4. ASSUME NEW n \in Names, RemoveChannelmappingFfi(n)
        PROVE  Unheard
    <2>1. handler' = handler /\ slot' = slot /\ thread' = thread
      BY <1>4 DEF RemoveChannelmappingFfi, router
    <2>2. Aside
      BY <1>0, <1>4, <2>1, RemoveFfiShown, ShownMine, HandlersAside DEF Aside, Resting
    <2>. QED  BY <1>0, <1>4, <2>1, <2>2, RemoveFfiShown, SlotSame, AsideUnheard DEF ThreadStays
  <1>5. ASSUME LeaveCallback
        PROVE  Unheard
    <2>1. UNCHANGED <<cms, lib, handler, slot>> /\ thread.pc = "waiting" /\ thread'.pc = "idle"
      BY <1>5 DEF LeaveCallback, daemon, NoThread
    <2>2. Aside
      BY <1>0, <2>1, SameMine, HandlersAside DEF Aside, Resting
    <2>. QED  BY <1>0, <2>1, <2>2, SlotSame, LibShown, AsideUnheard DEF ThreadStays
  <1>6. Unheard
    BY <1>0, <1>1, <1>2, <1>3, <1>4, <1>5, OwnAddUnheard DEF OthersStep
  <1>. QED  BY <1>6, UnheardKeeps

-----------------------------------------------------------------------------
(* The Node writes a map. *)

\* No map but that of output o is written.
OnlyWritten(o) ==
    \A x : x # o /\ <<"outputs", x>> \in DOMAIN lib.res =>
        lib'.res[<<"outputs", x>>] = lib.res[<<"outputs", x>>]

LEMMA OutputWritten ==
    ASSUME RInv, NEW o, NEW map, lib' = [lib EXCEPT !.res[<<"outputs", o>>] = map],
           <<"outputs", o>> \in DOMAIN lib.res
    PROVE  lib'.res[<<"outputs", o>>] = map /\ OnlyWritten(o)
  <1>1. PICK k, w : k = <<"outputs", o>> /\ w = lib'
    OBVIOUS
  <1>2. w = [lib EXCEPT !.res[k] = map] /\ k \in DOMAIN lib.res /\ LibShape(lib)
    BY <1>1 DEF RInv, Typed
  <1>3. \A j \in DOMAIN lib.res : w.res[j] = IF j = k THEN map ELSE lib.res[j]
    BY <1>2, MapWritten
  <1>. QED  BY <1>1, <1>2, <1>3 DEF OnlyWritten

LEMMA OwnedAsked ==
    ASSUME EInv, NEW o, Owned(o)
    PROVE  handle # NoHandle \/ phase = "adding"
  BY DEF EInv, AddsApart, MineIs, IsMine, IsAdd, Owned

\* What is published for output i stays when only output o is written, unless i is
\* output o.
LEMMA AskedKept ==
    ASSUME RInv, EInv, UNCHANGED <<phase, snap, topology, output>>, NEW o,
           phase \in {"sync", "syncing", "synced"}, OnlyWritten(o),
           NEW i \in 1..Len(topology.output_ids), topology.output_ids[i] # o
    PROVE  Asked(i)' = Asked(i)
  <1>1. CASE Synced(i)
    <2>1. <<"outputs", topology.output_ids[i]>> \in DOMAIN lib.res
      BY <1>1, PublishedOutput
    <2>2. lib'.res[<<"outputs", topology.output_ids[i]>>]
             = lib.res[<<"outputs", topology.output_ids[i]>>]
      BY <2>1 DEF OnlyWritten
    <2>. QED  BY <1>1, <2>2 DEF Asked, Synced
  <1>2. CASE ~Synced(i)
    BY <1>2 DEF Asked, Synced, InitialEntries, SrcRoutes, SnapTopology
  <1>. QED  BY <1>1, <1>2

LEMMA ActivateHeard ==
    ASSUME RInv, EInv, HInv, NEW o, NEW map \in ActiveMaps, ActivateOutput(o, map)
    PROVE  HInv'
  <1>1. /\ UNCHANGED <<cms, handler, slot, phase, snap, handle, topology, graph, output,
                       fixated, hand>>
        /\ thread.pc = "idle"
        /\ lib' = [lib EXCEPT !.res[<<"outputs", o>>] = map]
        /\ <<"outputs", o>> \in DOMAIN lib.res
        /\ astray' = IF fixated THEN astray \ {o} ELSE Astray(o)
    BY DEF ActivateOutput, Activate, daemon, ModelFree
  <1>2. \/ thread'.pc = "idle" /\ NamesForOutput(lib, o) = {}
        \/ thread'.pc = "merged" /\ thread'.output = o /\ thread'.map = map
    BY DEF ActivateOutput, Activate, NoThread
  <1>3. lib'.res[<<"outputs", o>>] = map /\ OnlyWritten(o)
    BY <1>1, OutputWritten
  <1>4. \A x : x # o /\ x \in astray => x \in astray'
    BY <1>1 DEF Astray
  <1>5. ~fixated /\ (handle # NoHandle \/ phase = "adding") => astray' = astray \cup {o}
    BY <1>1 DEF Astray
  <1>6. FlightTyped'
    <2>1. MapTyped(map)
      BY PadsAssumption DEF MapTyped
    <2>2. SlotStays
      BY <1>1, SlotSame DEF HInv
    <2>. QED  BY <1>1, <1>2, <2>1, <2>2 DEF HInv, FlightTyped, SlotStays, Queue
  <1>7. Early'
    <2>1. \A x : Owned(x)' <=> Owned(x)
      BY <1>1 DEF Owned
    <2>2. ~fixated => \A x \in astray : x \in astray'
      BY <1>1 DEF Astray
    <2>3. thread'.pc = "merged" /\ Owned(thread'.output) /\ ~fixated => o \in astray'
      BY <1>2, <1>5, OwnedAsked
    <2>. QED  BY <1>1, <1>2, <2>1, <2>2, <2>3 DEF HInv, Early, Queue
  <1>8. NoEmpty' /\ SnapTyped' /\ Wired'
    BY <1>1 DEF HInv, NoEmpty, Wanted, IdOf, SnapTyped, Wired, Mixing, SrcRoutes
  <1>9. Fresh'
    <2>1. SUFFICES ASSUME phase \in {"sync", "syncing", "synced"}, Apt,
                          NEW i \in 1..Len(topology.output_ids),
                          topology.output_ids[i] \notin astray'
                   PROVE  topology.output_ids[i] \notin astray /\ Asked(i)' = Asked(i)
      BY <1>1 DEF HInv, Fresh, Apt, DistinctPads
    <2>2. ~fixated /\ handle # NoHandle
      BY <2>1, FrozenTopology DEF HInv, Early
    <2>3. topology.output_ids[i] # o /\ topology.output_ids[i] \notin astray
      BY <1>5, <2>1, <2>2
    <2>. QED  BY <1>1, <1>3, <2>1, <2>3, AskedKept
  <1>10. Latest'
    <2>1. SUFFICES ASSUME phase = "paused", Apt, NEW i, NEW x, NEW m, Due(i, x, m)'
                   PROVE  Arrives(i, x, m)'
      BY <1>1 DEF Latest, Apt, DistinctPads
    <2>2. /\ i \in 1..Len(topology.output_ids) /\ x = topology.output_ids[i]
          /\ x \notin astray' /\ m = lib'.res[<<"outputs", x>>]
      BY <1>1, <2>1 DEF Due
    <2>3. <<"outputs", x>> \in DOMAIN lib.res /\ NamesForOutput(lib, x) # {}
          /\ handle # NoHandle
      BY <2>1, <2>2, PublishedOutput, FrozenTopology DEF NamesForOutput
    <2>4. CASE x = o
      BY <1>2, <1>3, <2>2, <2>3, <2>4 DEF Arrives, Waits, Settled
    <2>5. CASE x # o
      <3>1. x \notin astray /\ lib'.res[<<"outputs", x>>] = lib.res[<<"outputs", x>>]
        BY <1>3, <1>4, <2>2, <2>3, <2>5 DEF OnlyWritten
      <3>2. Arrives(i, x, m)
        BY <2>1, <2>2, <3>1 DEF HInv, Latest, Due
      <3>3. ~Waits(x) /\ ~Waits(x)' /\ (Queued(x)' <=> Queued(x)) /\ Queue' = Queue
            /\ (Settled(x)' <=> Settled(x))
        BY <1>1, <1>2, <2>5 DEF Waits, Queued, Queue, Settled
      <3>. QED  BY <1>1, <3>2, <3>3 DEF Arrives
    <2>. QED  BY <2>4, <2>5
  <1>. QED  BY <1>6, <1>7, <1>8, <1>9, <1>10 DEF HInv

\* A stray Sync of the other client.
LEMMA OthersSyncHeard ==
    ASSUME RInv, EInv, HInv, NEW h \in Handlers \ {ElementHandler}, OthersSyncFfi(h)
    PROVE  HInv'
  <1>0. PICK o : o = handler[h].output
    OBVIOUS
  <1>1. /\ UNCHANGED <<cms, slot, thread, phase, snap, handle, topology, graph, output,
                       fixated, hand>>
        /\ thread.pc = "idle"
        /\ handler'[ElementHandler] = handler[ElementHandler]
        /\ astray' = Astray(o)
    BY <1>0, ElementAssumption DEF OthersSyncFfi, SyncChannelmappingFfi, daemon, router, ModelFree,
                             RInv, Typed
  <1>2. OnlyWritten(o)
    <2>1. PICK map : map = handler[h].map
      OBVIOUS
    <2>2. PICK k : k = <<"outputs", o>>
      OBVIOUS
    <2>3. lib' = lib \/ lib' = [lib EXCEPT !.res[k] = map]
      BY <1>0, <2>1, <2>2 DEF OthersSyncFfi, SyncChannelmappingFfi
    <2>4. LibShape(lib)
      BY DEF RInv, Typed
    <2>5. \A j \in DOMAIN lib.res : j # k => lib'.res[j] = lib.res[j]
      BY <2>3, <2>4, MapWritten
    <2>6. \A x : x # o => <<"outputs", x>> # k
      BY <2>2
    <2>. QED  BY <2>5, <2>6 DEF OnlyWritten
  <1>3. \A x \in astray : x \in astray'
    BY <1>1 DEF Astray
  <1>4. handle # NoHandle => astray' = astray \cup {o}
    BY <1>1 DEF Astray
  <1>5. FlightTyped' /\ NoEmpty' /\ SnapTyped' /\ Wired'
    <2>1. FlightTyped'
      BY <1>1, SlotSame, UnheardFlight DEF HInv, ThreadStays
    <2>2. NoEmpty' /\ SnapTyped' /\ Wired'
      BY <1>1 DEF HInv, NoEmpty, Wanted, IdOf, SnapTyped, Wired, Mixing, SrcRoutes
    <2>. QED  BY <2>1, <2>2
  <1>6. Early'
    BY <1>1, <1>3 DEF HInv, Early, Queue
  <1>7. Fresh'
    <2>1. SUFFICES ASSUME phase \in {"sync", "syncing", "synced"}, Apt,
                          NEW i \in 1..Len(topology.output_ids),
                          topology.output_ids[i] \notin astray'
                   PROVE  topology.output_ids[i] \notin astray /\ Asked(i)' = Asked(i)
      BY <1>1 DEF HInv, Fresh, Apt, DistinctPads
    <2>2. handle # NoHandle
      BY <2>1, FrozenTopology
    <2>3. topology.output_ids[i] # o /\ topology.output_ids[i] \notin astray
      BY <1>4, <2>1, <2>2
    <2>. QED  BY <1>1, <1>2, <2>1, <2>3, AskedKept
  <1>8. Latest'
    <2>1. SUFFICES ASSUME phase = "paused", Apt, NEW i, NEW x, NEW m, Due(i, x, m)'
                   PROVE  Arrives(i, x, m)'
      BY <1>1 DEF Latest, Apt, DistinctPads
    <2>2. /\ i \in 1..Len(topology.output_ids) /\ x = topology.output_ids[i]
          /\ x \notin astray' /\ m = lib'.res[<<"outputs", x>>]
      BY <1>1, <2>1 DEF Due
    <2>3. <<"outputs", x>> \in DOMAIN lib.res /\ handle # NoHandle
      BY <2>1, <2>2, PublishedOutput, FrozenTopology
    <2>4. x # o /\ x \notin astray
      BY <1>4, <2>2, <2>3
    <2>5. Arrives(i, x, m)
      BY <1>2, <2>1, <2>2, <2>3, <2>4 DEF HInv, Latest, Due, OnlyWritten
    <2>6. (Waits(x)' <=> Waits(x)) /\ (Queued(x)' <=> Queued(x)) /\ Queue' = Queue
          /\ (Settled(x)' <=> Settled(x))
      BY <1>1 DEF Waits, Queued, Queue, Settled
    <2>. QED  BY <1>1, <2>5, <2>6 DEF Arrives
  <1>. QED  BY <1>5, <1>6, <1>7, <1>8 DEF HInv

LEMMA AppendFacts ==
    ASSUME NEW S, NEW q \in Seq(S), NEW e
    PROVE  /\ Len(q) \in Nat /\ Len(Append(q, e)) = Len(q) + 1
           /\ Append(q, e)[Len(q) + 1] = e
           /\ \A k \in 1..Len(q) : Append(q, e)[k] = q[k]
           /\ Append(q, e) \in Seq(S \cup {e})
  <1>1. q \in Seq(S \cup {e}) /\ e \in S \cup {e}
    OBVIOUS
  <1>. QED  BY <1>1

LEMMA TailFacts ==
    ASSUME NEW S, NEW q \in Seq(S), q # <<>>
    PROVE  /\ Len(q) \in Nat \ {0} /\ Head(q) = q[1]
           /\ Len(Tail(q)) = Len(q) - 1
           /\ \A k \in 1..(Len(q) - 1) : Tail(q)[k] = q[k + 1]
           /\ Tail(q) \in Seq(S)
  OBVIOUS

-----------------------------------------------------------------------------
(* The daemon dispatches an activation. *)

\* To nobody, or to another session.
LEMMA DispatchLost ==
    ASSUME RInv, EInv, HInv,
           UNCHANGED <<cms, lib, handler, phase, snap, handle, topology, graph, output,
                       fixated, hand>>,
           SlotStays, thread'.pc # "merged", \A x \in astray : x \in astray',
           \A c \in DOMAIN cms : cms[c].session = Element /\ thread.pc = "merged" =>
               (thread.output \in cms[c].outputs => thread.output \in astray')
    PROVE  HInv'
  <1>1. FlightTyped'
    BY DEF HInv, FlightTyped, SlotStays, Queue
  <1>2. NoEmpty' /\ SnapTyped' /\ Wired'
    BY DEF HInv, NoEmpty, Wanted, IdOf, SnapTyped, Wired, Mixing, SrcRoutes
  <1>3. Early'
    BY DEF HInv, Early, SlotStays
  <1>4. Fresh'
    <2>1. ASSUME NEW i PROVE Asked(i)' = Asked(i)
      BY DEF Asked, Synced, InitialEntries, SrcRoutes, SnapTopology
    <2>. QED  BY <2>1 DEF HInv, Fresh, Apt, DistinctPads
  <1>5. Latest'
    <2>1. SUFFICES ASSUME phase = "paused", Apt, NEW i, NEW x, NEW m, Due(i, x, m)'
                   PROVE  Arrives(i, x, m)'
      BY DEF Latest, Apt, DistinctPads
    <2>2. Due(i, x, m) /\ x \notin astray'
      BY <2>1 DEF Due
    <2>3. Arrives(i, x, m)
      BY <2>1, <2>2 DEF HInv, Latest
    <2>4. ~Waits(x) /\ ~Waits(x)'
      BY <2>1, <2>2, PublishedOutput DEF Due, Waits
    <2>5. (Queued(x)' <=> Queued(x)) /\ Queue' = Queue /\ (Settled(x)' <=> Settled(x))
      BY <2>4 DEF SlotStays, Waits, Queued, Queue, Settled
    <2>. QED  BY <2>3, <2>4, <2>5 DEF Arrives
  <1>. QED  BY <1>1, <1>2, <1>3, <1>4, <1>5 DEF HInv

\* To the element.
LEMMA DispatchSent ==
    ASSUME RInv, EInv, HInv,
           UNCHANGED <<cms, lib, handler, phase, snap, handle, topology, graph, output,
                       fixated, hand, astray>>,
           thread.pc = "merged", thread'.pc # "merged", Owned(thread.output),
           NEW ev, Queue' = Append(Queue, ev), SlotShape',
           ev.output = thread.output, ev.map = thread.map
    PROVE  HInv'
  <1>0. PICK S : Queue \in Seq(S)
    BY DEF HInv, FlightTyped
  <1>1. PICK q, r : q = Queue /\ r = Queue'
    OBVIOUS
  <1>2. /\ Len(q) \in Nat /\ Len(r) = Len(q) + 1 /\ r[Len(q) + 1] = ev
        /\ \A k \in 1..Len(q) : r[k] = q[k]
        /\ r \in Seq(S \cup {ev})
    BY <1>0, <1>1, AppendFacts
  <1>3. FlightTyped'
    BY <1>1, <1>2 DEF HInv, FlightTyped
  <1>4. NoEmpty' /\ SnapTyped' /\ Wired'
    BY DEF HInv, NoEmpty, Wanted, IdOf, SnapTyped, Wired, Mixing, SrcRoutes
  <1>5. Early'
    BY <1>1, <1>2 DEF HInv, Early
  <1>6. Fresh'
    <2>1. ASSUME NEW i PROVE Asked(i)' = Asked(i)
      BY DEF Asked, Synced, InitialEntries, SrcRoutes, SnapTopology
    <2>. QED  BY <2>1 DEF HInv, Fresh, Apt, DistinctPads
  <1>7. Latest'
    <2>1. SUFFICES ASSUME phase = "paused", Apt, NEW i, NEW x, NEW m, Due(i, x, m)'
                   PROVE  Arrives(i, x, m)'
      BY DEF Latest, Apt, DistinctPads
    <2>2. Arrives(i, x, m)
      BY <2>1 DEF HInv, Latest, Due
    <2>3. ~Waits(x)'
      BY DEF Waits
    <2>4. CASE ev.output = x
      <3>1. Waits(x) /\ ev.map = m
        BY <2>2, <2>4 DEF Waits, Arrives
      <3>2. Queued(x)'
        BY <1>1, <1>2, <2>4 DEF Queued
      <3>3. ~Settled(x)'
        BY <1>1, <1>2, <2>4 DEF Settled, Queue
      <3>4. \A k \in 1..Len(r) :
               r[k].output = x /\ (\A j \in (k + 1)..Len(r) : r[j].output # x) => r[k].map = m
        BY <1>2, <2>4, <3>1
      <3>. QED  BY <1>1, <2>3, <3>2, <3>3, <3>4 DEF Arrives
    <2>5. CASE ev.output # x
      <3>1. ~Waits(x)
        BY <2>5 DEF Waits
      <3>2. Queued(x)' <=> Queued(x)
        BY <1>1, <1>2, <2>5 DEF Queued
      <3>3. Settled(x)' => Settled(x)
        BY <1>1, <1>2, <2>5 DEF Settled, Queue
      <3>4. ASSUME NEW k \in 1..Len(r), r[k].output = x,
                   \A j \in (k + 1)..Len(r) : r[j].output # x
            PROVE  r[k].map = m
        <4>1. k \in 1..Len(q) /\ r[k] = q[k]
          BY <1>2, <2>5, <3>4
        <4>2. \A j \in (k + 1)..Len(q) : q[j].output # x
          BY <1>2, <3>4, <4>1
        <4>. QED  BY <1>1, <2>2, <3>1, <3>4, <4>1, <4>2 DEF Arrives
      <3>. QED  BY <1>1, <2>2, <2>3, <3>1, <3>2, <3>3, <3>4 DEF Arrives
    <2>. QED  BY <2>4, <2>5
  <1>. QED  BY <1>3, <1>4, <1>5, <1>6, <1>7 DEF HInv

LEMMA DispatchHeard ==
    ASSUME RInv, EInv, HInv, DispatchOutput
    PROVE  HInv'
  <1>0. PICK o : o = thread.output
    OBVIOUS
  <1>. DEFINE known == o \in DOMAIN byOutput
  <1>1. /\ UNCHANGED <<cms, byOutput, lib, handler, phase, snap, handle, topology, graph,
                       output, fixated, hand>>
        /\ thread.pc = "merged"
        /\ astray' = IF thread'.pc = "waiting" THEN astray ELSE Astray(o)
    BY <1>0 DEF DispatchOutput, Dispatch, daemon
  <1>2. \A c \in DOMAIN cms : cms[c].session = Element /\ o \in cms[c].outputs =>
           known /\ byOutput[o] = c
    BY DEF RInv, Indexed, IndexesAgree
  <1>3. FlightTyped
    BY DEF HInv
  <1>4. PICK ev : ev = [act |-> nextAct, cm |-> byOutput[o], output |-> o, map |-> thread.map]
    OBVIOUS
  <1>5. \/ /\ known /\ thread'.pc = "waiting"
           /\ slot' = [slot EXCEPT ![cms[byOutput[o]].session].queue = Append(@, ev)]
        \/ /\ thread'.pc = "idle"
           /\ slot' = slot \/ \E s : slot' = Reaped(s)
    <2>1. PICK s : s = IF known THEN cms[byOutput[o]].session ELSE "nobody"
      OBVIOUS
    <2>2. PICK accepted \in BOOLEAN :
             accepted <=> known /\ Live(s) /\ Len(slot[s].queue) < SUBSCRIPTION_BUFFER
      OBVIOUS
    <2>3. CASE accepted
      <3>1. /\ slot' = [slot EXCEPT ![s].queue = Append(@, ev)]
            /\ thread' = [pc |-> "waiting", act |-> nextAct]
        BY <1>0, <1>4, <2>1, <2>2, <2>3 DEF DispatchOutput, Dispatch
      <3>. QED  BY <2>1, <2>2, <2>3, <3>1
    <2>4. CASE ~accepted
      <3>1. (slot' = IF known THEN Reaped(s) ELSE slot) /\ thread' = NoThread
        BY <1>0, <2>1, <2>2, <2>4 DEF DispatchOutput, Dispatch
      <3>. QED  BY <3>1 DEF NoThread
    <2>. QED  BY <2>3, <2>4
  <1>6. ev.output = o /\ ev.map = thread.map
    BY <1>4
  <1>7. CASE thread'.pc = "idle"
    <2>1. SlotStays
      BY <1>3, <1>5, <1>7, SlotSame, SlotReaped
    <2>2. astray' = Astray(o) /\ \A x \in astray : x \in astray'
      BY <1>1, <1>7 DEF Astray
    <2>3. ASSUME NEW c \in DOMAIN cms, cms[c].session = Element, o \in cms[c].outputs
          PROVE  o \in astray'
      <3>1. Owned(o)
        BY <2>3 DEF Owned
      <3>. QED  BY <2>2, <3>1, OwnedAsked DEF Astray
    <2>. QED  BY <1>0, <1>1, <1>7, <2>1, <2>2, <2>3, DispatchLost
  <1>8. CASE thread'.pc = "waiting"
    <2>1. PICK s : s = cms[byOutput[o]].session
      OBVIOUS
    <2>2. /\ known /\ astray' = astray
          /\ slot' = [slot EXCEPT ![s].queue = Append(@, ev)]
      BY <1>1, <1>5, <1>8, <2>1
    <2>3. CASE s = Element
      <3>1. byOutput[o] \in DOMAIN cms /\ o \in cms[byOutput[o]].outputs
        BY <2>2 DEF RInv, IndexesAgree
      <3>2. Owned(o)
        BY <2>1, <2>3, <3>1 DEF Owned
      <3>3. PICK r : r = [slot[Element] EXCEPT !.queue = Append(@, ev)]
        OBVIOUS
      <3>4. slot' = [slot EXCEPT ![Element] = r]
        BY <2>2, <2>3, <3>3
      <3>5. DOMAIN slot' = Sessions /\ slot'[Element] = r
        BY <1>3, <3>4, ElementAssumption DEF FlightTyped, SlotShape
      <3>6. r = [state |-> slot[Element].state, queue |-> Append(Queue, ev)]
        BY <1>3, <3>3 DEF FlightTyped, SlotShape, Queue
      <3>7. Queue' = Append(Queue, ev) /\ SlotShape'
        <4>1. r.queue = Append(Queue, ev) /\ r = [state |-> r.state, queue |-> r.queue]
          BY <3>6
        <4>. QED  BY <3>5, <4>1 DEF SlotShape, Queue
      <3>. QED  BY <1>0, <1>1, <1>6, <1>8, <2>2, <3>2, <3>7, DispatchSent
    <2>4. CASE s # Element
      <3>1. PICK r : r = [slot[s] EXCEPT !.queue = Append(@, ev)]
        OBVIOUS
      <3>2. slot' = [slot EXCEPT ![s] = r]
        BY <2>2, <3>1
      <3>3. SlotStays
        BY <1>3, <2>4, <3>2, SlotOther
      <3>. QED  BY <1>0, <1>1, <1>2, <1>8, <2>1, <2>2, <2>4, <3>3, DispatchLost
    <2>. QED  BY <2>3, <2>4
  <1>. QED  BY <1>5, <1>7, <1>8

-----------------------------------------------------------------------------
(* The activation task. *)

LEMMA HandKeeps ==
    ASSUME HInv, UNCHANGED <<cms, lib, phase, snap, handle, topology, output>>
    PROVE  NoEmpty' /\ SnapTyped' /\ \A i : Asked(i)' = Asked(i)
  <1>1. NoEmpty' /\ SnapTyped'
    BY DEF HInv, NoEmpty, Wanted, IdOf, SnapTyped
  <1>2. ASSUME NEW i PROVE Asked(i)' = Asked(i)
    BY DEF Asked, Synced, InitialEntries, SrcRoutes, SnapTopology
  <1>. QED  BY <1>1, <1>2

LEMMA TakeEventHeard ==
    ASSUME RInv, EInv, HInv, TakeEvent
    PROVE  HInv'
  <1>1. /\ UNCHANGED <<cms, lib, handler, thread, phase, snap, handle, topology, graph, output,
                       fixated, astray>>
        /\ hand = NoEvent
        /\ slot' = [slot EXCEPT ![Element].queue = Tail(@)] /\ slot[Element].queue # <<>>
        /\ hand' = [stage |-> "read", act |-> Head(Queue).act, output |-> Head(Queue).output,
                    map |-> Head(Queue).map]
    BY DEF TakeEvent, ReadEvent, daemon, Queue
  <1>2. PICK S : Queue \in Seq(S)
    BY DEF HInv, FlightTyped
  <1>3. PICK q, r : q = Queue /\ r = Queue'
    OBVIOUS
  <1>4. Queue' = Tail(Queue) /\ SlotShape'
    <2>1. PICK e : e = [slot[Element] EXCEPT !.queue = Tail(@)]
      OBVIOUS
    <2>2. slot' = [slot EXCEPT ![Element] = e]
      BY <1>1, <2>1
    <2>3. DOMAIN slot' = Sessions /\ slot'[Element] = e
      BY <2>2, ElementAssumption DEF HInv, FlightTyped, SlotShape
    <2>4. e = [state |-> slot[Element].state, queue |-> Tail(Queue)]
      BY <2>1 DEF HInv, FlightTyped, SlotShape, Queue
    <2>5. e.queue = Tail(Queue) /\ e = [state |-> e.state, queue |-> e.queue]
      BY <2>4
    <2>. QED  BY <2>3, <2>5 DEF SlotShape, Queue
  <1>5. /\ Len(q) \in Nat \ {0} /\ Head(q) = q[1]
        /\ Len(r) = Len(q) - 1 /\ r \in Seq(S)
        /\ \A k \in 1..(Len(q) - 1) : r[k] = q[k + 1]
    <2>1. q # <<>> /\ r = Tail(q) /\ q \in Seq(S)
      BY <1>1, <1>2, <1>3, <1>4 DEF Queue
    <2>. QED  BY <2>1, TailFacts
  <1>6. hand'.stage = "read" /\ hand'.output = q[1].output /\ hand'.map = q[1].map
    BY <1>1, <1>3, <1>5
  <1>7. FlightTyped'
    BY <1>1, <1>3, <1>4, <1>5, <1>6 DEF HInv, FlightTyped
  <1>8. NoEmpty' /\ SnapTyped' /\ Wired' /\ \A i : Asked(i)' = Asked(i)
    BY <1>1, HandKeeps DEF HInv, Wired, Mixing, SrcRoutes
  <1>9. Early'
    <2>1. (\A k \in 1..Len(q) : q[k].output \in astray)
             => (\A k \in 1..Len(r) : r[k].output \in astray) /\ q[1].output \in astray
      BY <1>5
    <2>2. \A o : Owned(o)' <=> Owned(o)
      BY <1>1 DEF Owned
    <2>. QED  BY <1>1, <1>3, <1>6, <2>1, <2>2 DEF HInv, Early
  <1>10. Fresh'
    BY <1>1, <1>8 DEF HInv, Fresh, Apt, DistinctPads
  <1>11. Latest'
    <2>1. SUFFICES ASSUME phase = "paused", Apt, NEW i, NEW x, NEW m, Due(i, x, m)'
                   PROVE  Arrives(i, x, m)'
      BY <1>1 DEF Latest, Apt, DistinctPads
    <2>2. Arrives(i, x, m)
      BY <1>1, <2>1 DEF HInv, Latest, Due
    <2>3. Waits(x)' <=> Waits(x)
      BY <1>1 DEF Waits
    <2>4. Queued(x) <=> Queued(x)' \/ q[1].output = x
      <3>1. \A k \in 1..Len(q) : k = 1 \/ (k - 1 \in 1..Len(r) /\ r[k - 1] = q[k])
        BY <1>5
      <3>2. \A k \in 1..Len(r) : k + 1 \in 1..Len(q) /\ r[k] = q[k + 1]
        BY <1>5
      <3>3. 1 \in 1..Len(q)
        BY <1>5
      <3>4. /\ Queued(x) <=> \E k \in 1..Len(q) : q[k].output = x
            /\ Queued(x)' <=> \E k \in 1..Len(r) : r[k].output = x
        BY <1>3 DEF Queued
      <3>5. ASSUME NEW k \in 1..Len(q), q[k].output = x
            PROVE  q[1].output = x \/ \E j \in 1..Len(r) : r[j].output = x
        BY <3>1, <3>5
      <3>6. ASSUME NEW k \in 1..Len(r), r[k].output = x
            PROVE  \E j \in 1..Len(q) : q[j].output = x
        BY <3>2, <3>6
      <3>. QED  BY <3>3, <3>4, <3>5, <3>6
    <2>5. ASSUME ~Waits(x), NEW k \in 1..Len(r), r[k].output = x,
                 \A j \in (k + 1)..Len(r) : r[j].output # x
          PROVE  r[k].map = m
      <3>1. k + 1 \in 1..Len(q) /\ q[k + 1] = r[k]
        BY <1>5
      <3>2. ASSUME NEW j \in ((k + 1) + 1)..Len(q) PROVE q[j].output # x
        <4>1. j - 1 \in (k + 1)..Len(r) /\ r[j - 1] = q[j]
          BY <1>5
        <4>. QED  BY <2>5, <4>1
      <3>. QED  BY <1>3, <2>2, <2>5, <3>1, <3>2 DEF Arrives
    <2>6. ASSUME ~Waits(x), ~Queued(x)', q[1].output = x
          PROVE  q[1].map = m
      <3>1. \A j \in (1 + 1)..Len(q) : q[j].output # x
        <4>1. ASSUME NEW j \in 2..Len(q) PROVE q[j].output # x
          <5>1. j - 1 \in 1..Len(r) /\ r[j - 1] = q[j]
            BY <1>5
          <5>. QED  BY <1>3, <2>6, <5>1 DEF Queued
        <4>. QED  BY <4>1
      <3>2. 1 \in 1..Len(q)
        BY <1>5
      <3>. QED  BY <1>3, <2>2, <2>6, <3>1, <3>2 DEF Arrives
    <2>7. Settled(x)' => Settled(x)
      <3>1. Settled(x)' => q[1].output # x
        BY <1>6 DEF Settled
      <3>2. Settled(x)' => ~Queued(x)'
        BY DEF Settled, Queued, Queue
      <3>3. ~Queued(x) => \A k \in 1..Len(slot[Element].queue) : slot[Element].queue[k].output # x
        BY DEF Queued, Queue
      <3>. QED  BY <1>1, <2>4, <3>1, <3>2, <3>3 DEF Settled, NoEvent
    <2>. QED  BY <1>1, <1>3, <1>6, <2>2, <2>3, <2>5, <2>6, <2>7 DEF Arrives
  <1>. QED  BY <1>7, <1>8, <1>9, <1>10, <1>11 DEF HInv

LEMMA AckEventHeard ==
    ASSUME RInv, EInv, HInv, AckEvent
    PROVE  HInv'
  <1>1. /\ UNCHANGED <<cms, lib, handler, slot, thread, phase, snap, handle, topology, graph,
                       output, fixated, astray>>
        /\ hand.stage = "done" /\ hand' = NoEvent
    BY DEF AckEvent, AckChannelmappingActivation, vars, daemon, router
  <1>2. FlightTyped'
    <2>1. SlotStays
      BY <1>1, SlotSame DEF HInv
    <2>. QED  BY <1>1, <2>1 DEF HInv, FlightTyped, SlotStays, Queue, NoEvent
  <1>3. NoEmpty' /\ SnapTyped' /\ Wired' /\ \A i : Asked(i)' = Asked(i)
    BY <1>1, HandKeeps DEF HInv, Wired, Mixing, SrcRoutes
  <1>4. Early'
    <2>1. \A o : Owned(o)' <=> Owned(o)
      BY <1>1 DEF Owned
    <2>. QED  BY <1>1, <2>1 DEF HInv, Early, NoEvent, Queue
  <1>5. Fresh'
    BY <1>1, <1>3 DEF HInv, Fresh, Apt, DistinctPads
  <1>6. Latest'
    <2>1. SUFFICES ASSUME phase = "paused", Apt, NEW i, NEW x, NEW m, Due(i, x, m)'
                   PROVE  Arrives(i, x, m)'
      BY <1>1 DEF Latest, Apt, DistinctPads
    <2>2. Arrives(i, x, m)
      BY <1>1, <2>1 DEF HInv, Latest, Due
    <2>3. (Waits(x)' <=> Waits(x)) /\ (Queued(x)' <=> Queued(x)) /\ Queue' = Queue
          /\ (Settled(x)' <=> Settled(x))
      BY <1>1 DEF Waits, Queued, Queue, Settled, NoEvent
    <2>. QED  BY <1>1, <2>2, <2>3 DEF Arrives, NoEvent
  <1>. QED  BY <1>2, <1>3, <1>4, <1>5, <1>6 DEF HInv

LEMMA CloneTopologyHeard ==
    ASSUME RInv, EInv, HInv, CloneTopology
    PROVE  HInv'
  <1>0. PICK o : o = hand.output
    OBVIOUS
  <1>. DEFINE j == Position(topology.output_ids, o)
              routes == RoutesFromActivation(hand.map)
              n == topology.output_channels[j]
  <1>1. /\ UNCHANGED <<cms, lib, handler, slot, thread, phase, snap, handle, topology, graph,
                       output, fixated>>
        /\ hand.stage = "read"
    BY DEF CloneTopology, vars, daemon, router
  <1>2. \/ hand'.stage = "done" /\ astray' = Astray(o)
        \/ /\ j # 0 /\ ValidForOutput(topology, n, routes)
           /\ hand'.stage = "routed" /\ hand'.output = o /\ hand'.index = j
           /\ hand'.mix = BuildOutputMixMatrix(topology, n, routes)
           /\ astray' = astray
    BY <1>0 DEF CloneTopology, Fail, Done
  <1>3. /\ \A x \in astray : x \in astray'
        /\ handle # NoHandle /\ hand'.stage = "done" => o \in astray'
        /\ hand'.stage \in {"done", "routed"}
        /\ hand'.stage = "routed" => hand'.output = o
    BY <1>2 DEF Astray
  <1>. HIDE DEF j, routes, n
  <1>4. FlightTyped'
    <2>1. SlotStays
      BY <1>1, SlotSame DEF HInv
    <2>. QED  BY <1>1, <1>3, <2>1 DEF HInv, FlightTyped, SlotStays, Queue
  <1>5. NoEmpty' /\ SnapTyped' /\ Wired' /\ \A i : Asked(i)' = Asked(i)
    BY <1>1, HandKeeps DEF HInv, Wired, Mixing, SrcRoutes
  <1>6. Early'
    <2>1. \A x : Owned(x)' <=> Owned(x)
      BY <1>1 DEF Owned
    <2>. QED  BY <1>0, <1>1, <1>3, <2>1 DEF HInv, Early, Queue
  <1>7. Fresh'
    BY <1>1, <1>3, <1>5 DEF HInv, Fresh, Apt, DistinctPads
  <1>8. Latest'
    <2>1. SUFFICES ASSUME phase = "paused", Apt, NEW i, NEW x, NEW m, Due(i, x, m)'
                   PROVE  Arrives(i, x, m)'
      BY <1>1 DEF Latest, Apt, DistinctPads
    <2>2. Due(i, x, m) /\ x \notin astray'
      BY <1>1, <1>3, <2>1 DEF Due
    <2>3. Arrives(i, x, m)
      BY <2>1, <2>2 DEF HInv, Latest
    <2>4. (Waits(x)' <=> Waits(x)) /\ (Queued(x)' <=> Queued(x)) /\ Queue' = Queue
      BY <1>1 DEF Waits, Queued, Queue
    <2>5. handle # NoHandle
      BY <2>1, FrozenTopology
    <2>6. Settled(x)' <=> Settled(x)
      BY <1>0, <1>1, <1>3, <2>2, <2>5 DEF Settled
    <2>7. CASE o # x \/ hand'.stage = "done"
      BY <1>0, <1>1, <1>3, <2>2, <2>3, <2>4, <2>5, <2>6, <2>7 DEF Arrives
    <2>8. CASE o = x /\ hand'.stage = "routed"
      <3>1. ASSUME ~Waits(x), ~Queued(x)
            PROVE  hand'.index = i /\ Sounds(topology, hand'.mix, m)
        <4>1. hand.map = m
          BY <1>0, <1>1, <2>3, <2>8, <3>1 DEF Arrives
        <4>2. /\ i \in 1..Len(snap.srcs) /\ topology = SnapTopology
              /\ Len(topology.output_ids) = Len(snap.srcs)
              /\ DOMAIN topology.output_ids = 1..Len(snap.srcs)
              /\ topology.output_ids[i] = x /\ Len(snap.srcs) \in Nat
              /\ topology.output_channels[i] = snap.srcs[i].channels
          BY <2>1, <2>2, FrozenTopology DEF Due, EInv, Counts
        <4>3. j = i
          <5>1. PICK ids : ids = topology.output_ids
            OBVIOUS
          <5>2. /\ Len(ids) \in Nat /\ DOMAIN ids = 1..Len(ids) /\ IsInjective(ids)
                /\ i \in 1..Len(ids) /\ ids[i] = o
            BY <2>1, <2>8, <4>2, <5>1 DEF Apt, DistinctPads
          <5>3. Position(ids, o) = i
            BY <5>2, PositionFacts
          <5>. QED  BY <5>1, <5>3 DEF j
        <4>4. DOMAIN m = 0..(n - 1)
          BY <2>1, <2>2, <4>3, PublishedOutput DEF Due, n
        <4>5. n \in Nat /\ TopoShape(topology)
          BY <2>1, <4>2, <4>3, SnapTopo DEF HInv, SnapTyped, EInv, n, Apt, DistinctPads
        <4>6. MapTyped(m) /\ routes = RoutesFromActivation(m)
          BY <1>1, <4>1 DEF HInv, FlightTyped, routes
        <4>7. Sounds(topology, BuildOutputMixMatrix(topology, n, routes), m)
          BY <1>2, <2>8, <4>4, <4>5, <4>6, ActivationSounds
        <4>. QED  BY <1>2, <2>8, <4>3, <4>7
      <3>. QED  BY <1>1, <2>3, <2>4, <2>6, <2>8, <3>1 DEF Arrives
    <2>. QED  BY <1>3, <2>7, <2>8
  <1>. QED  BY <1>4, <1>5, <1>6, <1>7, <1>8 DEF HInv

LEMMA SetOutputMatrixHeard ==
    ASSUME RInv, EInv, HInv, SetOutputMatrix
    PROVE  HInv'
  <1>0. PICK o, j : o = hand.output /\ j = hand.index
    OBVIOUS
  <1>1. /\ UNCHANGED <<cms, lib, handler, slot, thread, phase, snap, handle, topology,
                       output, fixated>>
        /\ hand.stage = "routed" /\ hand'.stage = "done"
    BY DEF SetOutputMatrix, Fail, Done, vars, daemon, router
  <1>2. \/ graph' = graph /\ astray' = Astray(o)
        \/ /\ graph' = [graph EXCEPT !.outputs[j] = hand.mix]
           /\ astray' = astray \cup ({topology.output_ids[j]} \ {o})
    BY <1>0 DEF SetOutputMatrix, Fail, Done
  <1>3. \A x \in astray : x \in astray'
    BY <1>2 DEF Astray
  <1>4. FlightTyped'
    <2>1. SlotStays
      BY <1>1, SlotSame DEF HInv
    <2>. QED  BY <1>1, <2>1 DEF HInv, FlightTyped, SlotStays, Queue
  <1>5. NoEmpty' /\ SnapTyped' /\ \A i : Asked(i)' = Asked(i)
    BY <1>1, HandKeeps
  <1>6. Mixing => /\ graph' = [inputs |-> Wiring(topology), outputs |-> graph'.outputs]
                  /\ DOMAIN graph'.outputs = 1..Len(topology.output_ids)
                  /\ \A i \in 1..Len(topology.output_ids) :
                        \/ graph'.outputs[i] = graph.outputs[i]
                        \/ /\ i = j /\ graph'.outputs[i] = hand.mix
                           /\ topology.output_ids[j] # o => topology.output_ids[j] \in astray'
    <2>1. SUFFICES ASSUME Mixing
                   PROVE  /\ graph' = [inputs |-> Wiring(topology), outputs |-> graph'.outputs]
                          /\ DOMAIN graph'.outputs = 1..Len(topology.output_ids)
                          /\ \A i \in 1..Len(topology.output_ids) :
                                \/ graph'.outputs[i] = graph.outputs[i]
                                \/ /\ i = j /\ graph'.outputs[i] = hand.mix
                                   /\ topology.output_ids[j] # o
                                         => topology.output_ids[j] \in astray'
      OBVIOUS
    <2>2. /\ graph = [inputs |-> Wiring(topology), outputs |-> graph.outputs]
          /\ DOMAIN graph.outputs = 1..Len(topology.output_ids)
      BY <2>1 DEF HInv, Wired
    <2>3. CASE graph' = graph
      BY <2>2, <2>3
    <2>4. CASE graph' = [graph EXCEPT !.outputs[j] = hand.mix] /\ graph' # graph
      <3>1. PICK os : os = [graph.outputs EXCEPT ![j] = hand.mix]
        OBVIOUS
      <3>2. graph' = [graph EXCEPT !.outputs = os]
        BY <2>4, <3>1
      <3>3. graph' = [inputs |-> Wiring(topology), outputs |-> os]
        BY <2>2, <3>2
      <3>4. graph'.outputs = os
        BY <3>3
      <3>5. /\ DOMAIN os = 1..Len(topology.output_ids)
            /\ \A i \in 1..Len(topology.output_ids) :
                  os[i] = IF i = j THEN hand.mix ELSE graph.outputs[i]
        BY <2>2, <3>1
      <3>6. topology.output_ids[j] # o => topology.output_ids[j] \in astray'
        BY <1>2, <2>4
      <3>. QED  BY <3>3, <3>4, <3>5, <3>6
    <2>. QED  BY <1>2, <2>3, <2>4
  <1>7. Wired'
    <2>1. phase = "built" => \A i \in 1..Len(snap.srcs) :
             ValidForOutput(topology, snap.srcs[i].channels, SrcRoutes(topology, i))
      BY DEF HInv, Wired
    <2>. QED  BY <1>1, <1>6, <2>1 DEF Wired, Mixing, SrcRoutes
  <1>8. Early'
    <2>1. \A x : Owned(x)' <=> Owned(x)
      BY <1>1 DEF Owned
    <2>. QED  BY <1>1, <1>3, <2>1 DEF HInv, Early, Queue
  <1>9. Fresh'
    <2>1. SUFFICES ASSUME phase \in {"sync", "syncing", "synced"}, Apt,
                          NEW i \in 1..Len(topology.output_ids),
                          topology.output_ids[i] \notin astray'
                   PROVE  topology.output_ids[i] \notin astray
                          /\ graph'.outputs[i] = graph.outputs[i]
      BY <1>1, <1>5 DEF HInv, Fresh, Apt, DistinctPads
    <2>2. o \in astray
      BY <1>0, <1>1, <2>1 DEF HInv, Early
    <2>. QED  BY <1>3, <1>6, <2>1, <2>2 DEF Mixing
  <1>10. Latest'
    <2>1. SUFFICES ASSUME phase = "paused", Apt, NEW i, NEW x, NEW m, Due(i, x, m)'
                   PROVE  Arrives(i, x, m)'
      BY <1>1 DEF Latest, Apt, DistinctPads
    <2>2. Due(i, x, m) /\ x \notin astray'
      BY <1>1, <1>3, <2>1 DEF Due
    <2>3. Arrives(i, x, m)
      BY <2>1, <2>2 DEF HInv, Latest
    <2>4. (Waits(x)' <=> Waits(x)) /\ (Queued(x)' <=> Queued(x)) /\ Queue' = Queue
      BY <1>1 DEF Waits, Queued, Queue
    <2>5. ASSUME Settled(x)' PROVE Sounds(topology, graph'.outputs[i], m)
      <3>1. ~Waits(x) /\ ~Queued(x)
        BY <1>1, <2>5 DEF Settled, Waits, Queued, Queue
      <3>2. i \in 1..Len(topology.output_ids) /\ topology.output_ids[i] = x
        BY <2>2 DEF Due
      <3>3. CASE o = x
        <4>1. j = i /\ Sounds(topology, hand.mix, m)
          BY <1>0, <1>1, <2>3, <3>1, <3>3 DEF Arrives
        <4>2. CASE graph' = graph /\ astray' = Astray(o)
          <5>1. handle # NoHandle
            BY <2>1, FrozenTopology
          <5>. QED  BY <2>2, <3>3, <4>2, <5>1 DEF Astray
        <4>3. CASE graph' = [graph EXCEPT !.outputs[j] = hand.mix]
          <5>1. /\ graph = [inputs |-> Wiring(topology), outputs |-> graph.outputs]
                /\ i \in DOMAIN graph.outputs
            BY <2>1, <3>2 DEF HInv, Wired, Mixing
          <5>2. PICK os : os = [graph.outputs EXCEPT ![j] = hand.mix]
            OBVIOUS
          <5>3. graph' = [graph EXCEPT !.outputs = os]
            BY <4>3, <5>2
          <5>4. graph' = [inputs |-> Wiring(topology), outputs |-> os]
            BY <5>1, <5>3
          <5>5. graph'.outputs = os
            BY <5>4
          <5>6. os[i] = hand.mix
            BY <4>1, <5>1, <5>2
          <5>. QED  BY <4>1, <5>5, <5>6
        <4>. QED  BY <1>2, <4>2, <4>3
      <3>4. CASE o # x
        <4>1. Settled(x)
          BY <1>0, <1>1, <2>5, <3>4 DEF Settled
        <4>2. graph'.outputs[i] = graph.outputs[i]
          BY <1>6, <2>1, <2>2, <3>2, <3>4 DEF Mixing
        <4>. QED  BY <2>3, <4>1, <4>2 DEF Arrives
      <3>. QED  BY <3>3, <3>4
    <2>. QED  BY <1>1, <2>3, <2>4, <2>5 DEF Arrives
  <1>. QED  BY <1>4, <1>5, <1>7, <1>8, <1>9, <1>10 DEF HInv

-----------------------------------------------------------------------------
(* change_state and fixation. *)

\* What is on its way stays.
FlightStill == UNCHANGED <<hand, thread>> /\ SlotStays

LEMMA StillTyped ==
    ASSUME HInv, FlightStill
    PROVE  FlightTyped'
  BY UnheardFlight DEF HInv, FlightStill, ThreadStays

LEMMA StillEarly ==
    ASSUME HInv, FlightStill, UNCHANGED <<fixated, astray>>,
           thread.pc = "merged" => OwnedKept,
           phase' \notin {"paused", "stop", "stopping", "closing"} => ~fixated
    PROVE  Early'
  <1>1. ~fixated => /\ \A k \in 1..Len(Queue') : Queue'[k].output \in astray'
                    /\ hand'.stage \in {"read", "routed"} => hand'.output \in astray'
    BY DEF HInv, Early, FlightStill, SlotStays
  <1>2. ASSUME ~fixated, thread.pc = "merged", Owned(thread.output)'
        PROVE  thread.output \in astray'
    <2>1. thread' = thread
      BY DEF FlightStill
    <2>2. PICK o : o = thread.output
      OBVIOUS
    <2>3. Owned(o)'
      BY <1>2, <2>1, <2>2 DEF Owned
    <2>4. Owned(o)
      BY <1>2, <2>3 DEF OwnedKept
    <2>5. Owned(thread.output)
      BY <2>2, <2>4
    <2>. QED  BY <1>2, <2>5 DEF HInv, Early
  <1>3. fixated' = fixated /\ hand' = hand
    BY DEF FlightStill
  <1>4. thread' = thread
    BY DEF FlightStill
  <1>. QED  BY <1>1, <1>2, <1>3, <1>4 DEF Early

\* Between phases in which the mixer does not run.
LEMMA Silent ==
    ASSUME phase' \notin {"built", "sync", "syncing", "synced", "paused"}
    PROVE  Wired' /\ Fresh' /\ Latest'
  BY DEF Wired, Mixing, Fresh, Latest

LEMMA SameOwned ==
    ASSUME UNCHANGED cms,
           handler'[ElementHandler].pc = "added"
               => handler'[ElementHandler] = handler[ElementHandler]
    PROVE  OwnedKept
  BY DEF OwnedKept, Owned

LEMMA ConfigurePadsHeard ==
    ASSUME RInv, EInv, HInv, NEW p, ConfigurePads(p)
    PROVE  HInv'
  <1>1. UNCHANGED <<cms, lib, handler, slot, thread, phase, snap, handle, topology, graph,
                    output, fixated, hand, astray>>
    BY DEF ConfigurePads, vars, daemon, router
  <1>2. SlotStays /\ ThreadStays /\ ShownKept /\ HandleKept /\ OwnedKept
    BY <1>1, SlotSame, SameOwned DEF HInv, ThreadStays, ShownKept, HandleKept
  <1>. QED  BY <1>1, <1>2, UnheardKeeps DEF Unheard

LEMMA NullToReadyHeard ==
    ASSUME RInv, EInv, HInv, NullToReady
    PROVE  HInv'
  <1>1. /\ UNCHANGED <<cms, lib, handler, thread, snap, handle, fixated, hand, astray>>
        /\ phase = "null" /\ phase' = "ready"
        /\ slot' = [slot EXCEPT ![Element] = [state |-> "live", queue |-> <<>>]]
    BY DEF NullToReady, SubscribeChannelmapping, daemon
  <1>2. SlotShape' /\ Queue' = <<>>
    <2>1. DOMAIN slot' = Sessions /\ slot'[Element] = [state |-> "live", queue |-> <<>>]
      BY <1>1, ElementAssumption DEF HInv, FlightTyped, SlotShape
    <2>2. PICK e : e = slot'[Element]
      OBVIOUS
    <2>3. e.queue = <<>> /\ e = [state |-> e.state, queue |-> e.queue]
      BY <2>1, <2>2
    <2>. QED  BY <2>1, <2>2, <2>3 DEF SlotShape, Queue
  <1>3. FlightTyped'
    <2>1. <<>> \in Seq({}) /\ Len(<<>>) = 0
      OBVIOUS
    <2>2. \A k \in 1..Len(Queue') : FALSE
      BY <1>2, <2>1
    <2>. QED  BY <1>1, <1>2, <2>1, <2>2 DEF HInv, FlightTyped
  <1>4. Early'
    <2>1. \A k \in 1..Len(Queue') : FALSE
      BY <1>2
    <2>2. \A o : Owned(o)' <=> Owned(o)
      BY <1>1 DEF Owned
    <2>. QED  BY <1>1, <2>1, <2>2 DEF HInv, Early
  <1>5. NoEmpty' /\ SnapTyped'
    BY <1>1 DEF HInv, NoEmpty, SnapTyped
  <1>6. Wired' /\ Fresh' /\ Latest'
    BY <1>1, Silent
  <1>. QED  BY <1>3, <1>4, <1>5, <1>6 DEF HInv

\* A move to a phase in which the mixer does not run.
LEMMA MovesOn ==
    ASSUME RInv, EInv, HInv,
           UNCHANGED <<cms, slot, thread, fixated, hand, astray>>,
           handler'[ElementHandler].pc = "added"
               => handler'[ElementHandler] = handler[ElementHandler],
           phase' \notin {"built", "sync", "syncing", "synced", "paused"},
           phase' \notin {"paused", "stop", "stopping", "closing"} => ~fixated,
           SnapTyped', NoEmpty'
    PROVE  HInv'
  <1>1. FlightStill
    BY SlotSame DEF HInv, FlightStill
  <1>2. FlightTyped' /\ Early'
    BY <1>1, StillTyped, StillEarly, SameOwned
  <1>3. Wired' /\ Fresh' /\ Latest'
    BY Silent
  <1>. QED  BY <1>2, <1>3 DEF HInv

LEMMA MovesHeard ==
    ASSUME RInv, EInv, HInv,
           UNCHANGED <<cms, handler, slot, thread, handle, fixated, hand, astray>>,
           phase' \notin {"adding", "built", "sync", "syncing", "synced", "paused"},
           phase' \notin {"paused", "stop", "stopping", "closing"} => ~fixated,
           SnapTyped'
    PROVE  HInv'
  <1>1. NoEmpty'
    BY DEF HInv, NoEmpty
  <1>. QED  BY <1>1, MovesOn

LEMMA StopsHeard ==
    ASSUME RInv, EInv, HInv, ReadyToNull \/ TakeGraph \/ ForgetTopology
    PROVE  HInv'
  <1>1. UNCHANGED <<cms, handler, slot, thread, handle, fixated, hand, astray>>
    BY DEF ReadyToNull, TakeGraph, ForgetTopology, vars, daemon, router
  <1>2. /\ phase' \in {"stop", "stopping", "failing", "closing", "ready"}
        /\ phase' \in {"failing", "ready"} => phase \in {"failed", "failing"}
    BY DEF ReadyToNull, TakeGraph, ForgetTopology
  <1>3. SnapTyped'
    <2>1. snap' = snap \/ snap' = NoSnap
      BY DEF ReadyToNull, TakeGraph, ForgetTopology
    <2>2. CASE snap' = snap
      BY <2>2 DEF HInv, SnapTyped
    <2>3. CASE snap' = NoSnap
      <3>1. 1..Len(snap'.sinks) = {} /\ 1..Len(snap'.srcs) = {}
        BY <2>3 DEF NoSnap
      <3>. QED  BY <3>1 DEF SnapTyped
    <2>. QED  BY <2>1, <2>2, <2>3
  <1>4. phase' \notin {"paused", "stop", "stopping", "closing"} => ~fixated
    BY <1>2 DEF HInv, Early
  <1>. QED  BY <1>1, <1>2, <1>3, <1>4, MovesHeard

LEMMA PadSnapshots ==
    ASSUME PadsSet, phase # "closed", NEW s,
           s = [sinks |-> SinkSnapshots(pads.sinks), srcs |-> SrcSnapshots(pads.srcs)]
    PROVE  /\ "" \notin Wanted(s.sinks)
           /\ snap' = s => SnapTyped'
  <1>1. pads \in PadConfigs
    BY DEF PadsSet
  <1>2. /\ Len(pads.sinks) \in Nat /\ Len(pads.srcs) \in Nat
        /\ \A i \in 1..Len(pads.sinks) : /\ pads.sinks[i].declared \in Nat
                                         /\ pads.sinks[i].negotiated \in Nat
                                         /\ DefaultIds["inputs"][i] # ""
        /\ \A i \in 1..Len(pads.srcs) :
              /\ pads.srcs[i].declared \in Nat
              /\ pads.srcs[i].negotiated \in Nat
              /\ \A f \in Range(pads.srcs[i].map.fields) : f.key \in Nat /\ f.value.ch \in Nat
    BY <1>1, ElementAssumption, PadsAssumption
  <1>3. PICK sinks, srcs : sinks = pads.sinks /\ srcs = pads.srcs
    OBVIOUS
  <1>4. s.sinks = SinkSnapshots(sinks) /\ s.srcs = SrcSnapshots(srcs)
    BY <1>3
  <1>5. /\ Len(s.sinks) = Len(sinks)
        /\ \A i \in 1..Len(sinks) :
              s.sinks[i] = [id |-> sinks[i].id, channels |-> ResolvePadChannels(sinks[i])]
    <2>. DEFINE f == [i \in 1..Len(sinks) |->
                        [id |-> sinks[i].id, channels |-> ResolvePadChannels(sinks[i])]]
    <2>1. s.sinks = f
      BY <1>4 DEF SinkSnapshots
    <2>2. Len(sinks) \in Nat
      BY <1>2, <1>3
    <2>3. Len(f) = Len(sinks)
      BY <2>2
    <2>4. \A i \in 1..Len(sinks) :
             f[i] = [id |-> sinks[i].id, channels |-> ResolvePadChannels(sinks[i])]
      OBVIOUS
    <2>. HIDE DEF f
    <2>. QED  BY <2>1, <2>3, <2>4
  <1>6. /\ Len(s.srcs) = Len(srcs)
        /\ \A i \in 1..Len(srcs) :
              s.srcs[i] = [id |-> srcs[i].id, channels |-> ResolvePadChannels(srcs[i]),
                           map |-> srcs[i].map]
    <2>. DEFINE f == [i \in 1..Len(srcs) |->
                        [id |-> srcs[i].id, channels |-> ResolvePadChannels(srcs[i]),
                         map |-> srcs[i].map]]
    <2>1. s.srcs = f
      BY <1>4 DEF SrcSnapshots
    <2>2. Len(srcs) \in Nat
      BY <1>2, <1>3
    <2>3. Len(f) = Len(srcs)
      BY <2>2
    <2>4. \A i \in 1..Len(srcs) :
             f[i] = [id |-> srcs[i].id, channels |-> ResolvePadChannels(srcs[i]),
                     map |-> srcs[i].map]
      OBVIOUS
    <2>. HIDE DEF f
    <2>. QED  BY <2>1, <2>3, <2>4
  <1>7. "" \notin Wanted(s.sinks)
    BY <1>2, <1>3, <1>5 DEF Wanted, IdOf
  <1>8. ASSUME snap' = s PROVE SnapTyped'
    <2>1. ASSUME NEW i \in 1..Len(sinks)
          PROVE  /\ s.sinks[i] = [id |-> s.sinks[i].id, channels |-> s.sinks[i].channels]
                 /\ s.sinks[i].channels \in Nat
      <3>1. PICK e : e = s.sinks[i]
        OBVIOUS
      <3>2. e = [id |-> sinks[i].id, channels |-> ResolvePadChannels(sinks[i])]
        BY <1>5, <3>1
      <3>3. e.channels = ResolvePadChannels(sinks[i]) /\ e = [id |-> e.id, channels |-> e.channels]
        BY <3>2
      <3>4. ResolvePadChannels(sinks[i]) \in Nat
        BY <1>2, <1>3 DEF ResolvePadChannels
      <3>. QED  BY <3>1, <3>3, <3>4
    <2>2. ASSUME NEW i \in 1..Len(srcs)
          PROVE  /\ s.srcs[i] = [id |-> s.srcs[i].id, channels |-> s.srcs[i].channels,
                                 map |-> s.srcs[i].map]
                 /\ s.srcs[i].channels \in Nat
                 /\ \A f \in Range(s.srcs[i].map.fields) : f.key \in Nat /\ f.value.ch \in Nat
      <3>1. PICK e : e = s.srcs[i]
        OBVIOUS
      <3>2. e = [id |-> srcs[i].id, channels |-> ResolvePadChannels(srcs[i]), map |-> srcs[i].map]
        BY <1>6, <3>1
      <3>3. /\ e.channels = ResolvePadChannels(srcs[i]) /\ e.map = srcs[i].map
            /\ e = [id |-> e.id, channels |-> e.channels, map |-> e.map]
        BY <3>2
      <3>4. ResolvePadChannels(srcs[i]) \in Nat
        BY <1>2, <1>3 DEF ResolvePadChannels
      <3>. QED  BY <1>2, <1>3, <3>1, <3>3, <3>4
    <2>. QED  BY <1>5, <1>6, <1>8, <2>1, <2>2 DEF SnapTyped
  <1>. QED  BY <1>7, <1>8

LEMMA ReadyToPausedHeard ==
    ASSUME RInv, EInv, HInv, PadsSet, ReadyToPaused
    PROVE  HInv'
  <1>. DEFINE s == [sinks |-> SinkSnapshots(pads.sinks), srcs |-> SrcSnapshots(pads.srcs)]
  <1>1. /\ phase = "ready" /\ snap' = s /\ UNCHANGED <<handle, fixated, hand, astray>>
        /\ handle = NoHandle =>
              /\ PrepareAddChannelmapping(ElementHandler, Element, AddRequest(s))
              /\ phase' = "adding"
        /\ handle # NoHandle => phase' = "building" /\ UNCHANGED vars
    BY DEF ReadyToPaused
  <1>2. "" \notin Wanted(s.sinks) /\ SnapTyped'
    BY <1>1, PadSnapshots
  <1>. HIDE DEF s
  <1>3. ~fixated
    BY <1>1 DEF HInv, Early
  <1>4. CASE handle # NoHandle
    <2>1. UNCHANGED <<cms, handler, slot, thread>> /\ phase' = "building"
      BY <1>1, <1>4 DEF vars, daemon, router
    <2>. QED  BY <1>1, <1>2, <1>3, <2>1, MovesHeard
  <1>5. CASE handle = NoHandle
    <2>1. /\ UNCHANGED <<cms, thread>> /\ phase' = "adding" /\ slot' = Reaped(Element)
          /\ handler'[ElementHandler].pc = "added"
                => handler'[ElementHandler] = handler[ElementHandler]
      <3>1. PICK new : new = [pc |-> "add", name |-> AddRequest(s).name,
                              inputs |-> Effective("inputs", AddRequest(s).inputs),
                              outputs |-> Effective("outputs", AddRequest(s).outputs),
                              session |-> Element]
        OBVIOUS
      <3>2. handler' = handler \/ handler' = [handler EXCEPT ![ElementHandler] = new]
        BY <1>1, <1>5, <3>1 DEF PrepareAddChannelmapping
      <3>3. new.pc = "add"
        BY <3>1
      <3>. QED  BY <1>1, <1>5, <3>2, <3>3, ElementAssumption
                DEF PrepareAddChannelmapping, daemon, RInv, Typed
    <2>2. FlightStill
      BY <1>1, <2>1, SlotReaped DEF HInv, FlightStill
    <2>3. FlightTyped' /\ Early'
      BY <1>1, <1>3, <2>1, <2>2, StillTyped, StillEarly, SameOwned
    <2>4. NoEmpty'
      BY <1>1, <1>2, <1>5 DEF NoEmpty, Wanted, IdOf
    <2>5. Wired' /\ Fresh' /\ Latest'
      BY <2>1, Silent
    <2>. QED  BY <1>2, <2>3, <2>4, <2>5 DEF HInv
  <1>. QED  BY <1>4, <1>5

-----------------------------------------------------------------------------
(* fixate_and_build. *)

\* There is a src pad, and the output that is published is one.
Within ==
    /\ phase \in {"adding", "building", "built"} => Len(snap.srcs) > 0
    /\ phase \in {"sync", "syncing", "synced"} => output <= Len(snap.srcs)

\* The answer fills in ids and nothing else.
LEMMA FilledShape ==
    ASSUME NEW snaps, Len(snaps) \in Nat, NEW ids, NEW filled, filled = FilledIn(snaps, ids)
    PROVE  /\ Len(filled) = Len(snaps)
           /\ \A i \in 1..Len(snaps) :
                 filled[i] = snaps[i] \/ filled[i] = [snaps[i] EXCEPT !.id = ids[i]]
  <1>1. Len(filled) = Len(snaps)
    BY FilledLen
  <1>2. \A i \in 1..Len(snaps) :
           filled[i] = IF snaps[i].id # "" THEN snaps[i] ELSE [snaps[i] EXCEPT !.id = ids[i]]
    BY DEF FilledIn
  <1>. QED  BY <1>1, <1>2

LEMMA FilledTyped ==
    ASSUME Counts, SnapTyped, NEW ins, NEW outs,
           snap' = [sinks |-> FilledIn(snap.sinks, ins), srcs |-> FilledIn(snap.srcs, outs)]
    PROVE  SnapTyped'
  <1>1. PICK sinks, srcs : sinks = FilledIn(snap.sinks, ins) /\ srcs = FilledIn(snap.srcs, outs)
    OBVIOUS
  <1>2. PICK old, olds : old = snap.sinks /\ olds = snap.srcs
    OBVIOUS
  <1>3. Len(old) \in Nat /\ Len(olds) \in Nat
    BY <1>2 DEF Counts
  <1>4. /\ Len(sinks) = Len(old)
        /\ \A i \in 1..Len(old) : sinks[i] = old[i] \/ sinks[i] = [old[i] EXCEPT !.id = ins[i]]
    BY <1>1, <1>2, <1>3, FilledShape
  <1>5. /\ Len(srcs) = Len(olds)
        /\ \A i \in 1..Len(olds) : srcs[i] = olds[i] \/ srcs[i] = [olds[i] EXCEPT !.id = outs[i]]
    BY <1>1, <1>2, <1>3, FilledShape
  <1>6. ASSUME NEW i \in 1..Len(sinks)
        PROVE  /\ sinks[i] = [id |-> sinks[i].id, channels |-> sinks[i].channels]
               /\ sinks[i].channels \in Nat
    <2>1. PICK e, r, x : e = old[i] /\ r = sinks[i] /\ x = ins[i]
      OBVIOUS
    <2>2. e = [id |-> e.id, channels |-> e.channels] /\ e.channels \in Nat
      BY <1>2, <1>4, <2>1 DEF SnapTyped
    <2>3. r = e \/ r = [e EXCEPT !.id = x]
      BY <1>4, <2>1
    <2>4. r = [id |-> r.id, channels |-> r.channels] /\ r.channels \in Nat
      BY <2>2, <2>3
    <2>. QED  BY <2>1, <2>4
  <1>7. ASSUME NEW i \in 1..Len(srcs)
        PROVE  /\ srcs[i] = [id |-> srcs[i].id, channels |-> srcs[i].channels, map |-> srcs[i].map]
               /\ srcs[i].channels \in Nat
               /\ \A f \in Range(srcs[i].map.fields) : f.key \in Nat /\ f.value.ch \in Nat
    <2>1. PICK e, r, x : e = olds[i] /\ r = srcs[i] /\ x = outs[i]
      OBVIOUS
    <2>2. /\ e = [id |-> e.id, channels |-> e.channels, map |-> e.map] /\ e.channels \in Nat
          /\ \A f \in Range(e.map.fields) : f.key \in Nat /\ f.value.ch \in Nat
      BY <1>2, <1>5, <2>1 DEF SnapTyped
    <2>3. r = e \/ r = [e EXCEPT !.id = x]
      BY <1>5, <2>1
    <2>4. r = [id |-> r.id, channels |-> r.channels, map |-> r.map] /\ r.channels = e.channels
          /\ r.map = e.map
      BY <2>2, <2>3
    <2>. QED  BY <2>1, <2>2, <2>4
  <1>8. snap'.sinks = sinks /\ snap'.srcs = srcs
    BY <1>1
  <1>. QED  BY <1>6, <1>7, <1>8 DEF SnapTyped

LEMMA AddAnsweredHeard ==
    ASSUME RInv, EInv, HInv, AddAnswered
    PROVE  HInv'
  <1>. DEFINE mine == {c \in DOMAIN cms : cms[c].session = Element}
              ins == [i \in 1..Len(snap.sinks) |-> Effective("inputs", snap.sinks)[i].id]
              outs == [i \in 1..Len(snap.srcs) |-> Effective("outputs", snap.srcs)[i].id]
  <1>1. /\ phase = "adding" /\ ~fixated
        /\ UNCHANGED <<cms, handler, slot, thread, fixated, hand, astray>>
    BY DEF AddAnswered, HInv, Early, vars, daemon, router
  <1>2. CASE mine = {}
    <2>1. phase' = "failed" /\ UNCHANGED <<snap, handle>>
      BY <1>2 DEF AddAnswered
    <2>2. SnapTyped'
      BY <2>1 DEF HInv, SnapTyped
    <2>. QED  BY <1>1, <2>1, <2>2, MovesHeard
  <1>3. CASE mine # {}
    <2>1. /\ phase' = "building" /\ handle' = CHOOSE c \in mine : TRUE
          /\ snap' = [sinks |-> FilledIn(snap.sinks, ins), srcs |-> FilledIn(snap.srcs, outs)]
      BY <1>3 DEF AddAnswered
    <2>2. handle' \in mine
      BY <1>3, <2>1
    <2>. HIDE DEF ins, outs
    <2>3. SnapTyped'
      BY <2>1, FilledTyped DEF HInv, EInv
    <2>4. cms[handle'].inputs = Wanted(snap.sinks)
      BY <1>1, <2>2 DEF EInv, MineIs, IsMine
    <2>5. NoEmpty'
      BY <1>1, <2>1, <2>4 DEF HInv, NoEmpty
    <2>. QED  BY <1>1, <2>1, <2>3, <2>5, MovesOn
  <1>. QED  BY <1>2, <1>3

LEMMA BuildInternalsHeard ==
    ASSUME RInv, EInv, HInv, BuildInternals
    PROVE  HInv'
  <1>1. /\ phase = "building" /\ ~fixated
        /\ UNCHANGED <<cms, handler, slot, thread, handle, fixated, hand, astray, snap>>
    BY DEF BuildInternals, HInv, Early, vars, daemon, router
  <1>2. SnapTyped' /\ NoEmpty'
    <2>1. phase' \in {"failed", "built"}
      BY DEF BuildInternals
    <2>. QED  BY <1>1, <2>1 DEF HInv, SnapTyped, NoEmpty
  <1>3. CASE phase' = "failed"
    BY <1>1, <1>2, <1>3, MovesHeard
  <1>4. CASE phase' # "failed"
    <2>1. /\ phase' = "built" /\ topology' = SnapTopology
          /\ \A i \in 1..Len(snap.srcs) :
                ValidForOutput(SnapTopology, snap.srcs[i].channels, SrcRoutes(SnapTopology, i))
      BY <1>4 DEF BuildInternals
    <2>2. FlightStill
      BY <1>1, SlotSame DEF HInv, FlightStill
    <2>3. FlightTyped' /\ Early'
      BY <1>1, <2>2, StillTyped, StillEarly, SameOwned
    <2>4. PICK t : t = SnapTopology
      OBVIOUS
    <2>5. topology' = t /\ \A i \in 1..Len(snap.srcs) :
                ValidForOutput(t, snap.srcs[i].channels, SrcRoutes(t, i))
      BY <2>1, <2>4
    <2>6. Wired'
      BY <1>1, <2>1, <2>5 DEF Wired, Mixing, SrcRoutes
    <2>7. Fresh' /\ Latest'
      BY <2>1 DEF Fresh, Latest
    <2>. QED  BY <1>2, <2>1, <2>3, <2>6, <2>7 DEF HInv
  <1>. QED  BY <1>3, <1>4

LEMMA StoreGraphHeard ==
    ASSUME RInv, EInv, HInv, StoreGraph
    PROVE  HInv'
  <1>. DEFINE routes == [i \in 1..Len(snap.srcs) |-> SrcRoutes(topology, i)]
              outs == [i \in 1..Len(topology.output_ids) |->
                         BuildOutputMixMatrix(topology, topology.output_channels[i], routes[i])]
  <1>1. /\ phase = "built" /\ ~fixated /\ phase' = "sync" /\ output' = 1
        /\ UNCHANGED <<cms, handler, slot, thread, handle, fixated, hand, astray, snap, topology>>
        /\ graph' = BuildGraph(topology, routes)
    BY DEF StoreGraph, HInv, Early, vars, daemon, router
  <1>2. SnapTyped' /\ NoEmpty'
    BY <1>1 DEF HInv, SnapTyped, NoEmpty
  <1>3. FlightStill
    BY <1>1, SlotSame DEF HInv, FlightStill
  <1>4. FlightTyped' /\ Early'
    BY <1>1, <1>3, StillTyped, StillEarly, SameOwned
  <1>5. graph' = [inputs |-> Wiring(topology), outputs |-> outs]
    BY <1>1 DEF BuildGraph, Wiring
  <1>6. DOMAIN outs = 1..Len(topology.output_ids)
    OBVIOUS
  <1>7. /\ topology = SnapTopology /\ Len(topology.output_ids) = Len(snap.srcs)
        /\ \A i \in 1..Len(snap.srcs) : topology.output_channels[i] = snap.srcs[i].channels
    BY <1>1, FrozenTopology
  <1>8. \A i \in 1..Len(snap.srcs) :
           outs[i] = BuildOutputMixMatrix(topology, snap.srcs[i].channels, SrcRoutes(topology, i))
    BY <1>7
  <1>. HIDE DEF outs, routes
  <1>9. graph'.outputs = outs
    BY <1>5
  <1>10. Wired'
    BY <1>1, <1>5, <1>6, <1>9 DEF Wired, Mixing
  <1>11. Fresh'
    <2>1. SUFFICES ASSUME Apt, NEW i \in 1..Len(topology.output_ids)
                   PROVE  Sounds(topology, graph'.outputs[i], Asked(i)')
      BY <1>1 DEF Fresh, Apt, DistinctPads
    <2>2. i \in 1..Len(snap.srcs)
      BY <1>7
    <2>3. Asked(i)' = InitialEntries(i)
      <3>1. ~Synced(i)'
        BY <1>1, <2>2 DEF Synced
      <3>2. InitialEntries(i)' = InitialEntries(i)
        BY <1>1 DEF InitialEntries, SrcRoutes, SnapTopology
      <3>. QED  BY <3>1, <3>2 DEF Asked
    <2>4. PICK n, rs : n = snap.srcs[i].channels /\ rs = SrcRoutes(topology, i)
      OBVIOUS
    <2>5. n \in Nat /\ RoutesTyped(rs) /\ ValidForOutput(topology, n, rs)
      BY <1>1, <1>7, <2>2, <2>4, SrcRoutesTyped DEF HInv, SnapTyped, Wired, EInv
    <2>6. TopoShape(topology) /\ "" \notin Range(topology.input_ids)
      BY <1>7, <2>1, SnapTopo DEF HInv, EInv, Apt, DistinctPads
    <2>7. Sounds(topology, BuildOutputMixMatrix(topology, n, rs), EntriesFromRoutes(n, rs))
      BY <2>5, <2>6, InitialSounds
    <2>8. InitialEntries(i) = EntriesFromRoutes(n, rs)
      BY <1>7, <2>4 DEF InitialEntries
    <2>9. graph'.outputs[i] = BuildOutputMixMatrix(topology, n, rs)
      BY <1>8, <1>9, <2>2, <2>4
    <2>. QED  BY <2>3, <2>7, <2>8, <2>9
  <1>12. Latest'
    BY <1>1 DEF Latest
  <1>. QED  BY <1>2, <1>4, <1>10, <1>11, <1>12 DEF HInv

LEMMA SyncOutputHeard ==
    ASSUME RInv, EInv, HInv, SyncOutput
    PROVE  HInv'
  <1>1. /\ phase = "sync" /\ ~fixated /\ phase' = "syncing"
        /\ UNCHANGED <<cms, lib, slot, thread, handle, fixated, hand, astray, snap, topology,
                       graph, output>>
    BY DEF SyncOutput, SyncChannelmappingState, HInv, Early, daemon, router
  <1>2. handler'[ElementHandler].pc # "added"
    <2>1. PICK new : new = [pc |-> "sync", name |-> cms[handle].name,
                            output |-> snap.srcs[output].id, map |-> InitialEntries(output)]
      OBVIOUS
    <2>2. handler' = [handler EXCEPT ![ElementHandler] = new] /\ new.pc = "sync"
      BY <2>1 DEF SyncOutput, SyncChannelmappingState
    <2>. QED  BY <2>2, ElementAssumption DEF RInv, Typed
  <1>3. SnapTyped' /\ NoEmpty'
    BY <1>1 DEF HInv, SnapTyped, NoEmpty
  <1>4. FlightStill
    BY <1>1, SlotSame DEF HInv, FlightStill
  <1>5. FlightTyped' /\ Early'
    BY <1>1, <1>2, <1>4, StillTyped, StillEarly, SameOwned
  <1>6. Wired'
    BY <1>1 DEF HInv, Wired, Mixing
  <1>7. Fresh'
    <2>1. \A i : Asked(i)' = Asked(i)
      BY <1>1 DEF Asked, Synced, InitialEntries, SrcRoutes, SnapTopology
    <2>. QED  BY <1>1, <2>1 DEF HInv, Fresh, Apt, DistinctPads
  <1>8. Latest'
    BY <1>1 DEF Latest
  <1>. QED  BY <1>3, <1>5, <1>6, <1>7, <1>8 DEF HInv

\* What is asked of an output is what IS-08 shows when the Sync is accepted.
LEMMA SyncOutputFfiHeard ==
    ASSUME RInv, EInv, HInv, Within, SyncOutputFfi
    PROVE  HInv'
  <1>1. /\ phase = "syncing" /\ ~fixated
        /\ SyncAccepted(ElementHandler) => phase' = "synced"
        /\ ~SyncAccepted(ElementHandler) => phase' = "failed"
        /\ UNCHANGED <<cms, slot, thread, handle, fixated, hand, astray, snap, topology, graph,
                       output>>
        /\ handler' = [handler EXCEPT ![ElementHandler] = Idle]
    BY DEF SyncOutputFfi, SyncSucceeds, SyncChannelmappingFfi, HInv, Early, daemon, router
  <1>2. handler'[ElementHandler].pc # "added"
    BY <1>1, ElementAssumption DEF RInv, Typed, Idle
  <1>3. SnapTyped' /\ NoEmpty'
    BY <1>1 DEF HInv, SnapTyped, NoEmpty
  <1>4. CASE ~SyncAccepted(ElementHandler)
    BY <1>1, <1>2, <1>3, <1>4, MovesOn
  <1>5. CASE SyncAccepted(ElementHandler)
    <2>1. FlightStill
      BY <1>1, SlotSame DEF HInv, FlightStill
    <2>2. FlightTyped' /\ Early'
      BY <1>1, <1>2, <1>5, <2>1, StillTyped, StillEarly, SameOwned
    <2>3. Wired'
      BY <1>1, <1>5 DEF HInv, Wired, Mixing
    <2>4. PICK o, map : o = snap.srcs[output].id /\ map = InitialEntries(output)
      OBVIOUS
    <2>5. lib'.res[<<"outputs", o>>] = map /\ OnlyWritten(o)
      <3>1. PICK n : n = cms[handle].name
        OBVIOUS
      <3>2. PICK r : r = handler[ElementHandler]
        OBVIOUS
      <3>3. r = [pc |-> "sync", name |-> n, output |-> o, map |-> map]
        BY <1>1, <2>4, <3>1, <3>2 DEF EInv, Published
      <3>4. r.output = o /\ r.map = map /\ r.name = n
        BY <3>3
      <3>5. o \in lib.config[n].outputs /\ n \in DOMAIN lib.config
        BY <1>5, <3>2, <3>4 DEF SyncAccepted, NamesForOutput
      <3>6. <<"outputs", o>> \in DOMAIN lib.res
        BY <3>5 DEF RInv, ConfigHeld, Held
      <3>7. lib' = [lib EXCEPT !.res[<<"outputs", o>>] = map]
        BY <1>5, <3>2, <3>4 DEF SyncOutputFfi, SyncChannelmappingFfi
      <3>. QED  BY <3>6, <3>7, OutputWritten
    <2>6. Fresh'
      <3>1. SUFFICES ASSUME Apt, NEW i \in 1..Len(topology.output_ids),
                            topology.output_ids[i] \notin astray
                     PROVE  Sounds(topology, graph.outputs[i], Asked(i)')
        BY <1>1 DEF Fresh, Apt, DistinctPads
      <3>2. Sounds(topology, graph.outputs[i], Asked(i))
        BY <1>1, <3>1 DEF HInv, Fresh
      <3>3. /\ Len(topology.output_ids) = Len(snap.srcs) /\ i \in 1..Len(snap.srcs)
            /\ DOMAIN topology.output_ids = 1..Len(snap.srcs)
            /\ topology.output_ids[i] = snap.srcs[i].id
            /\ output \in 1..Len(snap.srcs) /\ Len(snap.srcs) \in Nat
            /\ topology.output_ids[output] = snap.srcs[output].id
        BY <1>1, FrozenTopology DEF EInv, Counts, Within
      <3>4. CASE i = output
        <4>1. ~Synced(i) /\ Synced(i)'
          BY <1>1, <1>5, <3>3, <3>4 DEF Synced
        <4>2. Asked(i) = map
          BY <2>4, <3>4, <4>1 DEF Asked
        <4>3. Asked(i)' = map
          BY <1>1, <2>4, <2>5, <3>3, <3>4, <4>1 DEF Asked
        <4>. QED  BY <3>2, <4>2, <4>3
      <3>5. CASE i # output
        <4>1. Synced(i)' <=> Synced(i)
          BY <1>1, <1>5, <3>3, <3>5 DEF Synced
        <4>2. topology.output_ids[i] # o
          BY <2>4, <3>1, <3>3, <3>5 DEF Apt, DistinctPads, IsInjective
        <4>3. CASE Synced(i)
          <5>1. <<"outputs", topology.output_ids[i]>> \in DOMAIN lib.res
            BY <1>1, <4>3, PublishedOutput
          <5>2. Asked(i)' = Asked(i)
            BY <1>1, <2>5, <4>1, <4>2, <4>3, <5>1 DEF Asked, OnlyWritten
          <5>. QED  BY <3>2, <5>2
        <4>4. CASE ~Synced(i)
          <5>1. Asked(i)' = Asked(i)
            BY <1>1, <4>1, <4>4 DEF Asked, InitialEntries, SrcRoutes, SnapTopology
          <5>. QED  BY <3>2, <5>1
        <4>. QED  BY <4>3, <4>4
      <3>. QED  BY <3>4, <3>5
    <2>7. Latest'
      BY <1>1, <1>5 DEF Latest
    <2>. QED  BY <1>3, <2>2, <2>3, <2>6, <2>7 DEF HInv
  <1>. QED  BY <1>4, <1>5

\* Once all outputs are published, none has anything on its way.
LEMMA SyncAnsweredHeard ==
    ASSUME RInv, EInv, HInv, Within, SyncAnswered
    PROVE  HInv'
  <1>1. /\ phase = "synced" /\ ~fixated
        /\ \/ phase' = "sync" /\ output' = output + 1 /\ fixated' = fixated
           \/ phase' = "paused" /\ output' = output /\ fixated' /\ ~(output < Len(snap.srcs))
        /\ UNCHANGED <<cms, lib, handler, slot, thread, handle, hand, astray, snap, topology,
                       graph>>
    BY DEF SyncAnswered, HInv, Early, vars, daemon, router
  <1>2. SnapTyped' /\ NoEmpty'
    BY <1>1 DEF HInv, SnapTyped, NoEmpty
  <1>3. FlightStill
    BY <1>1, SlotSame DEF HInv, FlightStill
  <1>4. FlightTyped'
    BY <1>3, StillTyped
  <1>5. Wired'
    BY <1>1 DEF HInv, Wired, Mixing
  <1>6. output \in Nat
    BY DEF EInv, Counts
  <1>7. CASE phase' = "sync" /\ output' = output + 1 /\ fixated' = fixated
    <2>1. Early'
      BY <1>1, <1>3, <1>7, StillEarly, SameOwned
    <2>2. ASSUME NEW i \in 1..Len(topology.output_ids) PROVE Asked(i)' = Asked(i)
      <3>1. Synced(i)' <=> Synced(i)
        BY <1>1, <1>6, <1>7 DEF Synced
      <3>. QED  BY <1>1, <3>1 DEF Asked, InitialEntries, SrcRoutes, SnapTopology
    <2>3. Fresh'
      BY <1>1, <1>7, <2>2 DEF HInv, Fresh, Apt, DistinctPads
    <2>4. Latest'
      BY <1>7 DEF Latest
    <2>. QED  BY <1>2, <1>4, <1>5, <2>1, <2>3, <2>4 DEF HInv
  <1>8. CASE phase' = "paused" /\ output' = output /\ fixated' /\ ~(output < Len(snap.srcs))
    <2>1. Early' /\ Fresh'
      BY <1>8 DEF Early, Fresh
    <2>2. Latest'
      <3>1. SUFFICES ASSUME Apt, NEW i, NEW o, NEW m, Due(i, o, m)
                     PROVE  Arrives(i, o, m)'
        BY <1>1, <1>8 DEF Latest, Apt, DistinctPads, Due
      <3>2. i \in 1..Len(topology.output_ids) /\ o = topology.output_ids[i] /\ o \notin astray
            /\ m = lib.res[<<"outputs", o>>]
        BY <3>1 DEF Due
      <3>3. Synced(i)
        BY <1>1, <1>6, <1>8, <3>2, FrozenTopology DEF Synced, EInv, Counts
      <3>4. Sounds(topology, graph.outputs[i], m)
        BY <1>1, <3>1, <3>2, <3>3 DEF HInv, Fresh, Asked
      <3>5. Owned(o)
        BY <1>1, <3>2, <3>3, PublishedOutput
      <3>6. /\ ~Waits(o)
            /\ \A k \in 1..Len(Queue) : Queue[k].output # o
            /\ hand.stage \in {"read", "routed"} => hand.output # o
        BY <1>1, <3>2, <3>5 DEF HInv, Early, Waits
      <3>7. (Waits(o)' <=> Waits(o)) /\ Queue' = Queue
        BY <1>1 DEF Waits, Queue
      <3>. QED  BY <1>1, <3>4, <3>6, <3>7 DEF Arrives
    <2>. QED  BY <1>2, <1>4, <1>5, <2>1, <2>2 DEF HInv
  <1>. QED  BY <1>1, <1>7, <1>8

LEMMA CloseElementHeard ==
    ASSUME RInv, EInv, HInv, CloseElement
    PROVE  HInv'
  <1>1. /\ phase = "closing" /\ phase' = "closed" /\ handle' = NoHandle
        /\ Unlisted({c \in DOMAIN cms : cms[c].session = Element})
        /\ slot' = [slot EXCEPT ![Element] = [state |-> "none", queue |-> <<>>]]
        /\ UNCHANGED <<handler, thread, snap>>
        /\ hand'.stage = "none"
    BY DEF CloseElement, CloseSession, NoEvent
  <1>2. \A o : ~Owned(o)'
    <2>1. \A c : ~IsMine(c)'
      BY <1>1 DEF IsMine, Unlisted, Without
    <2>2. handler'[ElementHandler].pc # "added"
      BY <1>1 DEF EInv, AddsApart, IsAdd
    <2>. QED  BY <2>1, <2>2 DEF IsMine, Owned
  <1>3. SlotShape' /\ Queue' = <<>>
    <2>1. DOMAIN slot' = Sessions /\ slot'[Element] = [state |-> "none", queue |-> <<>>]
      BY <1>1, ElementAssumption DEF HInv, FlightTyped, SlotShape
    <2>2. PICK e : e = slot'[Element]
      OBVIOUS
    <2>3. e.queue = <<>> /\ e = [state |-> e.state, queue |-> e.queue]
      BY <2>1, <2>2
    <2>. QED  BY <2>1, <2>2, <2>3 DEF SlotShape, Queue
  <1>4. <<>> \in Seq({}) /\ Len(<<>>) = 0
    OBVIOUS
  <1>5. \A k \in 1..Len(Queue') : FALSE
    BY <1>3, <1>4
  <1>6. FlightTyped'
    BY <1>1, <1>3, <1>4, <1>5 DEF HInv, FlightTyped
  <1>7. Early'
    <2>1. thread'.pc = "merged" /\ Owned(thread.output)' => FALSE
      <3>1. PICK o : o = thread.output
        OBVIOUS
      <3>2. Owned(thread.output)' => Owned(o)'
        BY <1>1, <3>1 DEF Owned
      <3>. QED  BY <1>2, <3>2
    <2>2. ~fixated'
      BY DEF CloseElement
    <2>. QED  BY <1>1, <1>5, <2>1, <2>2 DEF Early
  <1>8. NoEmpty' /\ SnapTyped'
    BY <1>1 DEF HInv, NoEmpty, SnapTyped
  <1>9. Wired' /\ Fresh' /\ Latest'
    BY <1>1, Silent
  <1>. QED  BY <1>6, <1>7, <1>8, <1>9 DEF HInv

\* Every step of the element keeps what comes out true to IS-08.
LEMMA ElementStepHeard ==
    ASSUME RInv, EInv, HInv, Within, PadsSet, ElementStep
    PROVE  HInv'
  BY ConfigurePadsHeard, NullToReadyHeard, ReadyToPausedHeard, StopsHeard, AddAnsweredHeard,
     BuildInternalsHeard, StoreGraphHeard, SyncOutputHeard, SyncOutputFfiHeard,
     SyncAnsweredHeard, CloseElementHeard, TakeEventHeard, CloneTopologyHeard,
     SetOutputMatrixHeard, AckEventHeard DEF ElementStep

LEMMA HeardKept ==
    ASSUME RInv, EInv, HInv, Within, PadsSet, [Next]_allVars
    PROVE  HInv'
  <1>1. ASSUME NEW o, NEW m \in ActiveMaps, ActivateOutput(o, m) PROVE HInv'
    BY <1>1, ActivateHeard
  <1>2. ASSUME NEW h \in Handlers \ {ElementHandler}, OthersSyncFfi(h) PROVE HInv'
    BY <1>2, OthersSyncHeard
  <1>3. ASSUME UNCHANGED allVars PROVE HInv'
    <2>1. UNCHANGED <<cms, lib, handler, slot, thread, phase, snap, handle, topology, graph,
                      output, fixated, hand, astray>>
      BY <1>3 DEF allVars, vars, daemon, router, element
    <2>2. SlotStays /\ ThreadStays /\ ShownKept /\ HandleKept /\ OwnedKept
      BY <2>1, SlotSame, SameOwned DEF HInv, ThreadStays, ShownKept, HandleKept
    <2>. QED  BY <2>1, <2>2, UnheardKeeps DEF Unheard
  <1>. QED  BY <1>1, <1>2, <1>3, ElementStepHeard, DispatchHeard, OthersHeard DEF Next

LEMMA InitHeard == InitElement => HInv
  <1>. SUFFICES ASSUME InitElement PROVE HInv
    OBVIOUS
  <1>1. /\ phase = "null" /\ snap = NoSnap /\ handle = NoHandle /\ fixated = FALSE
        /\ DOMAIN cms = {} /\ hand.stage = "none" /\ thread.pc = "idle"
        /\ handler[ElementHandler].pc = "idle"
        /\ slot = [s \in Sessions |-> [state |-> "none", queue |-> <<>>]]
    BY ElementAssumption DEF InitElement, Init, EmptyMap, Idle, NoThread, NoEvent
  <1>2. SlotShape /\ Queue = <<>>
    <2>1. DOMAIN slot = Sessions /\ slot[Element] = [state |-> "none", queue |-> <<>>]
      BY <1>1, ElementAssumption
    <2>2. PICK e : e = slot[Element]
      OBVIOUS
    <2>3. e.queue = <<>> /\ e = [state |-> e.state, queue |-> e.queue]
      BY <2>1, <2>2
    <2>. QED  BY <2>1, <2>2, <2>3 DEF SlotShape, Queue
  <1>3. <<>> \in Seq({}) /\ Len(<<>>) = 0
    OBVIOUS
  <1>4. \A k \in 1..Len(Queue) : FALSE
    BY <1>2, <1>3
  <1>5. FlightTyped /\ Early
    BY <1>1, <1>2, <1>3, <1>4 DEF FlightTyped, Early
  <1>6. NoEmpty
    BY <1>1 DEF NoEmpty
  <1>7. SnapTyped
    <2>1. 1..Len(snap.sinks) = {} /\ 1..Len(snap.srcs) = {}
      BY <1>1 DEF NoSnap
    <2>. QED  BY <2>1 DEF SnapTyped
  <1>8. Wired /\ Fresh /\ Latest
    BY <1>1 DEF Wired, Mixing, Fresh, Latest
  <1>. QED  BY <1>5, <1>6, <1>7, <1>8 DEF HInv

LEMMA EmptySnaps ==
    ASSUME NEW ps, Len(ps) \in Nat, SrcSnapshots(ps) # <<>>
    PROVE  Len(SrcSnapshots(ps)) > 0
  <1>. DEFINE f == [i \in 1..Len(ps) |-> [id |-> ps[i].id, channels |-> ResolvePadChannels(ps[i]),
                                          map |-> ps[i].map]]
  <1>1. SrcSnapshots(ps) = f
    BY DEF SrcSnapshots
  <1>2. Len(f) = Len(ps)
    OBVIOUS
  <1>3. ASSUME Len(ps) = 0 PROVE f = <<>>
    <2>1. 1..Len(ps) = {}
      BY <1>3
    <2>. QED  BY <2>1
  <1>. HIDE DEF f
  <1>. QED  BY <1>1, <1>2, <1>3

\* An output is published only when there is one.
LEMMA WithinKept ==
    ASSUME RInv, EInv, PadsSet, Within, [Next]_allVars
    PROVE  Within'
  <1>1. ASSUME UNCHANGED <<phase, snap, output>> PROVE Within'
    BY <1>1 DEF Within
  <1>2. ASSUME Aside \/ Resting PROVE Within'
    BY <1>1, <1>2 DEF Aside, Resting
  <1>3. CASE \/ \E p \in PadConfigs : ConfigurePads(p)
             \/ TakeEvent \/ CloneTopology \/ SetOutputMatrix \/ AckEvent
    BY <1>1, <1>3 DEF ConfigurePads, TakeEvent, CloneTopology, SetOutputMatrix, AckEvent
  <1>4. CASE NullToReady \/ ReadyToNull \/ TakeGraph \/ ForgetTopology \/ CloseElement
    BY <1>4 DEF NullToReady, ReadyToNull, TakeGraph, ForgetTopology, CloseElement, Within
  <1>5. CASE ReadyToPaused
    <2>1. PICK ps : ps = pads.srcs
      OBVIOUS
    <2>2. Len(ps) \in Nat
      BY <1>5, <2>1, ElementAssumption DEF PadsSet, ReadyToPaused
    <2>3. phase' \in {"adding", "building"} /\ snap'.srcs = SrcSnapshots(ps)
          /\ SrcSnapshots(ps) # <<>>
      BY <1>5, <2>1 DEF ReadyToPaused, Usable
    <2>4. Len(snap'.srcs) > 0
      BY <2>2, <2>3, EmptySnaps
    <2>. QED  BY <2>3, <2>4 DEF Within
  <1>6. CASE AddAnswered
    <2>1. CASE phase' = "failed"
      BY <2>1 DEF Within
    <2>2. CASE phase' # "failed"
      <3>1. PICK ids : snap'.srcs = FilledIn(snap.srcs, ids)
        BY <1>6, <2>2 DEF AddAnswered
      <3>2. Len(snap.srcs) \in Nat
        BY DEF EInv, Counts
      <3>3. Len(snap'.srcs) = Len(snap.srcs)
        BY <3>1, <3>2, FilledLen
      <3>4. phase = "adding" /\ phase' = "building"
        BY <1>6, <2>2 DEF AddAnswered
      <3>. QED  BY <3>3, <3>4 DEF Within
    <2>. QED  BY <2>1, <2>2
  <1>7. CASE BuildInternals \/ StoreGraph \/ SyncOutput \/ SyncOutputFfi
    BY <1>7 DEF BuildInternals, StoreGraph, SyncOutput, SyncOutputFfi, Within, EInv, Counts
  <1>8. CASE SyncAnswered
    BY <1>8 DEF SyncAnswered, Within, EInv, Counts
  <1>. QED  BY <1>2, <1>3, <1>4, <1>5, <1>6, <1>7, <1>8, StepKinds DEF ElementStep

-----------------------------------------------------------------------------
(* No two pads share an id: libnvnmos refuses an add in which they do. *)

ApartBy(type, snaps) ==
    \A i, j \in 1..Len(snaps) : IdOf(type, snaps, i) = IdOf(type, snaps, j) => i = j
SameIds(type, ios, snaps) ==
    /\ Len(ios) = Len(snaps)
    /\ \A i \in 1..Len(snaps) : ios[i].id = IdOf(type, snaps, i)
IdsApart(snaps) == \A i, j \in 1..Len(snaps) : snaps[i].id = snaps[j].id => i = j

Added == handler[ElementHandler].pc = "added" \/ \E c \in DOMAIN cms : IsMine(c)

PadsApart ==
    /\ IsAdd(ElementHandler) =>
          /\ SameIds("inputs", handler[ElementHandler].inputs, snap.sinks)
          /\ SameIds("outputs", handler[ElementHandler].outputs, snap.srcs)
    /\ phase = "adding" /\ Added => ApartBy("inputs", snap.sinks) /\ ApartBy("outputs", snap.srcs)
    /\ phase \in {"building", "built", "sync", "syncing", "synced", "paused"} /\ ~retried =>
          IdsApart(snap.sinks) /\ IdsApart(snap.srcs)

\* A step while nothing is added.
LEMMA ApartMoves ==
    ASSUME EInv, PadsApart, phase # "adding", phase' # "adding",
           handler'[ElementHandler].pc \in {"add", "added"}
               => handler'[ElementHandler].pc = handler[ElementHandler].pc,
           phase' \in {"building", "built", "sync", "syncing", "synced", "paused"} /\ ~retried' =>
               /\ phase \in {"building", "built", "sync", "syncing", "synced", "paused"}
               /\ snap' = snap /\ ~retried
    PROVE  PadsApart'
  <1>1. ~IsAdd(ElementHandler)'
    BY DEF EInv, AddsApart, IsAdd
  <1>. QED  BY <1>1 DEF PadsApart, IdsApart

LEMMA AsideApart ==
    ASSUME EInv, PadsApart, Aside
    PROVE  PadsApart'
  <1>1. Added' => Added
    BY DEF Aside, NoneNew, Added, IsMine
  <1>2. /\ UNCHANGED <<phase, snap, retried>>
        /\ handler'[ElementHandler] = handler[ElementHandler]
    BY DEF Aside
  <1>3. IsAdd(ElementHandler)' <=> IsAdd(ElementHandler)
    BY <1>2 DEF IsAdd
  <1>4. IsAdd(ElementHandler)' =>
           /\ SameIds("inputs", handler'[ElementHandler].inputs, snap'.sinks)
           /\ SameIds("outputs", handler'[ElementHandler].outputs, snap'.srcs)
    BY <1>2, <1>3 DEF PadsApart
  <1>5. /\ phase' = "adding" /\ Added'
              => ApartBy("inputs", snap'.sinks) /\ ApartBy("outputs", snap'.srcs)
        /\ phase' \in {"building", "built", "sync", "syncing", "synced", "paused"} /\ ~retried'
              => IdsApart(snap'.sinks) /\ IdsApart(snap'.srcs)
    BY <1>1, <1>2 DEF PadsApart
  <1>. QED  BY <1>4, <1>5 DEF PadsApart

LEMMA OwnAddApart ==
    ASSUME RInv, EInv, PadsApart, Resting,
           AddChannelmappingFfi(ElementHandler) \/ CommitAddChannelmapping(ElementHandler)
    PROVE  PadsApart'
  <1>1. PICK r : r = handler[ElementHandler]
    OBVIOUS
  <1>2. /\ phase = "adding" /\ phase' = "adding" /\ snap' = snap /\ AddShape(r)
        /\ DOMAIN handler = Handlers /\ ElementHandler \in Handlers /\ LibShape(lib)
    BY <1>1, ElementAssumption DEF AddChannelmappingFfi, CommitAddChannelmapping, EInv, AddsApart,
                             IsAdd, RInv, Typed, Resting
  <1>3. SameIds("inputs", r.inputs, snap.sinks) /\ SameIds("outputs", r.outputs, snap.srcs)
    BY <1>1 DEF AddChannelmappingFfi, CommitAddChannelmapping, PadsApart, IsAdd
  <1>4. CASE AddChannelmappingFfi(ElementHandler)
    <2>1. PICK a : a = LibAdd(lib, r.name, r.inputs, r.outputs)
      OBVIOUS
    <2>2. PICK new : /\ handler' = [handler EXCEPT ![ElementHandler] = new]
                     /\ a.ok => new = [r EXCEPT !.pc = "added"]
                     /\ ~a.ok => new = Idle
      BY <1>1, <1>4, <2>1 DEF AddChannelmappingFfi
    <2>3. handler'[ElementHandler] = new /\ cms' = cms
      BY <1>2, <1>4, <2>2 DEF AddChannelmappingFfi, daemon
    <2>4. CASE ~a.ok
      <3>1. ~IsAdd(ElementHandler)' /\ (Added' => Added)
        BY <2>2, <2>3, <2>4 DEF IsAdd, Idle, Added, IsMine
      <3>. QED  BY <1>2, <3>1 DEF PadsApart, ApartBy, IdOf
    <2>5. CASE a.ok
      <3>1. new.inputs = r.inputs /\ new.outputs = r.outputs
        BY <1>2, <2>2, <2>5 DEF AddShape
      <3>2. PICK inputs, outputs : inputs = r.inputs /\ outputs = r.outputs
        OBVIOUS
      <3>3. /\ a = LibAdd(lib, r.name, inputs, outputs)
            /\ Len(inputs) \in Nat /\ Len(outputs) \in Nat
        BY <1>2, <2>1, <3>2 DEF AddShape
      <3>4. /\ \A i, j \in 1..Len(inputs) : inputs[i].id = inputs[j].id => i = j
            /\ \A i, j \in 1..Len(outputs) : outputs[i].id = outputs[j].id => i = j
        <4>1. PICK l, n : l = lib /\ n = r.name
          OBVIOUS
        <4>2. a = LibAdd(l, n, inputs, outputs)
          BY <3>3, <4>1
        <4>. QED  BY <2>5, <3>3, <4>2, LibAddApart
      <3>5. ApartBy("inputs", snap.sinks) /\ ApartBy("outputs", snap.srcs)
        BY <1>3, <3>2, <3>4 DEF SameIds, ApartBy
      <3>6. /\ SameIds("inputs", handler'[ElementHandler].inputs, snap'.sinks)
            /\ SameIds("outputs", handler'[ElementHandler].outputs, snap'.srcs)
        BY <1>2, <1>3, <2>3, <3>1 DEF SameIds, IdOf
      <3>. QED  BY <1>2, <3>5, <3>6 DEF PadsApart, ApartBy, IdOf
    <2>. QED  BY <2>4, <2>5
  <1>5. CASE CommitAddChannelmapping(ElementHandler)
    <2>1. Added
      BY <1>5 DEF CommitAddChannelmapping, Added
    <2>2. ~IsAdd(ElementHandler)'
      BY <1>2, <1>5 DEF CommitAddChannelmapping, IsAdd, Idle
    <2>. QED  BY <1>2, <2>1, <2>2 DEF PadsApart, ApartBy, IdOf
  <1>. QED  BY <1>4, <1>5

LEMMA ReadyToPausedApart ==
    ASSUME RInv, EInv, PadsSet, PadsApart, ReadyToPaused
    PROVE  PadsApart'
  <1>. DEFINE s == [sinks |-> SinkSnapshots(pads.sinks), srcs |-> SrcSnapshots(pads.srcs)]
  <1>1. /\ phase = "ready" /\ snap' = s
        /\ handle = NoHandle =>
              /\ PrepareAddChannelmapping(ElementHandler, Element, AddRequest(s))
              /\ phase' = "adding"
        /\ handle # NoHandle => phase' = "building" /\ retried' /\ UNCHANGED vars
    BY DEF ReadyToPaused
  <1>2. Len(s.sinks) \in Nat /\ Len(s.srcs) \in Nat
    BY <1>1, ElementAssumption DEF PadsSet, SinkSnapshots, SrcSnapshots
  <1>. HIDE DEF s
  <1>3. CASE handle # NoHandle
    <2>1. UNCHANGED handler
      BY <1>1, <1>3 DEF vars
    <2>. QED  BY <1>1, <1>3, <2>1, ApartMoves
  <1>4. CASE handle = NoHandle
    <2>1. PICK new : new = [pc |-> "add", name |-> AddRequest(s).name,
                            inputs |-> Effective("inputs", AddRequest(s).inputs),
                            outputs |-> Effective("outputs", AddRequest(s).outputs),
                            session |-> Element]
      OBVIOUS
    <2>2. /\ cms' = cms /\ handler[ElementHandler].pc = "idle" /\ phase' = "adding"
          /\ handler' = handler \/ handler' = [handler EXCEPT ![ElementHandler] = new]
      BY <1>1, <1>4, <2>1 DEF PrepareAddChannelmapping, Idle, daemon
    <2>3. /\ new.pc = "add"
          /\ new.inputs = Effective("inputs", AddRequest(s).inputs)
          /\ new.outputs = Effective("outputs", AddRequest(s).outputs)
      BY <2>1
    <2>4. SameIds("inputs", new.inputs, s.sinks) /\ SameIds("outputs", new.outputs, s.srcs)
      BY <1>2, <2>3, RequestIds DEF SameIds
    <2>5. handler'[ElementHandler].pc = "idle" \/ handler'[ElementHandler] = new
      BY <2>2, ElementAssumption DEF RInv, Typed
    <2>6. ~Added'
      BY <1>1, <1>4, <2>2, <2>3, <2>5 DEF Added, IsMine, EInv, MineIs
    <2>7. IsAdd(ElementHandler)' => /\ SameIds("inputs", handler'[ElementHandler].inputs, s.sinks)
                                    /\ SameIds("outputs", handler'[ElementHandler].outputs, s.srcs)
      BY <2>4, <2>5 DEF IsAdd
    <2>. QED  BY <1>1, <2>2, <2>6, <2>7 DEF PadsApart, SameIds, IdOf
  <1>. QED  BY <1>3, <1>4

LEMMA AddAnsweredApart ==
    ASSUME RInv, EInv, HInv, PadsApart, AddAnswered
    PROVE  PadsApart'
  <1>. DEFINE mine == {c \in DOMAIN cms : cms[c].session = Element}
  <1>1. phase = "adding" /\ handler[ElementHandler] = Idle /\ UNCHANGED <<cms, handler>>
    BY DEF AddAnswered, vars, daemon
  <1>2. ~IsAdd(ElementHandler)'
    BY <1>1 DEF IsAdd, Idle
  <1>3. CASE mine = {}
    <2>1. phase' = "failed"
      BY <1>3 DEF AddAnswered
    <2>. QED  BY <1>2, <2>1 DEF PadsApart
  <1>4. CASE mine # {}
    <2>1. PICK old, olds : old = snap.sinks /\ olds = snap.srcs
      OBVIOUS
    <2>2. PICK sinks, srcs :
             /\ sinks = FilledIn(old, [i \in 1..Len(old) |-> Effective("inputs", old)[i].id])
             /\ srcs = FilledIn(olds, [i \in 1..Len(olds) |-> Effective("outputs", olds)[i].id])
      OBVIOUS
    <2>3. phase' = "building" /\ snap' = [sinks |-> sinks, srcs |-> srcs]
      BY <1>4, <2>1, <2>2 DEF AddAnswered
    <2>4. Len(old) \in Nat /\ Len(olds) \in Nat
      BY <2>1 DEF EInv, Counts
    <2>5. ASSUME NEW i \in 1..Len(old) PROVE "id" \in DOMAIN old[i]
      <3>1. PICK e : e = old[i]
        OBVIOUS
      <3>2. e = [id |-> e.id, channels |-> e.channels]
        BY <2>1, <3>1 DEF HInv, SnapTyped
      <3>. QED  BY <3>1, <3>2
    <2>6. ASSUME NEW i \in 1..Len(olds) PROVE "id" \in DOMAIN olds[i]
      <3>1. PICK e : e = olds[i]
        OBVIOUS
      <3>2. e = [id |-> e.id, channels |-> e.channels, map |-> e.map]
        BY <2>1, <3>1 DEF HInv, SnapTyped
      <3>. QED  BY <3>1, <3>2
    <2>7. Len(sinks) = Len(old) /\ \A i \in 1..Len(old) : sinks[i].id = IdOf("inputs", old, i)
      BY <2>2, <2>4, <2>5, FilledIds
    <2>8. Len(srcs) = Len(olds) /\ \A i \in 1..Len(olds) : srcs[i].id = IdOf("outputs", olds, i)
      BY <2>2, <2>4, <2>6, FilledIds
    <2>9. ApartBy("inputs", old) /\ ApartBy("outputs", olds)
      BY <1>1, <1>4, <2>1 DEF PadsApart, Added, IsMine
    <2>10. IdsApart(sinks) /\ IdsApart(srcs)
      BY <2>7, <2>8, <2>9 DEF IdsApart, ApartBy
    <2>11. IdsApart(snap'.sinks) /\ IdsApart(snap'.srcs)
      BY <2>3, <2>10
    <2>. QED  BY <1>2, <2>3, <2>11 DEF PadsApart, IdsApart
  <1>. QED  BY <1>3, <1>4

LEMMA PadsApartKept ==
    ASSUME RInv, EInv, HInv, PadsSet, PadsApart, [Next]_allVars
    PROVE  PadsApart'
  <1>1. CASE \/ \E p \in PadConfigs : ConfigurePads(p)
             \/ TakeEvent \/ CloneTopology \/ SetOutputMatrix \/ AckEvent
    <2>1. Resting /\ UNCHANGED <<cms, lib, handler>>
      BY <1>1 DEF ConfigurePads, TakeEvent, CloneTopology, SetOutputMatrix, AckEvent, ReadEvent,
                  AckChannelmappingActivation, Resting, vars, daemon
    <2>. QED  BY <2>1, StillAside, AsideApart
  <1>2. CASE NullToReady \/ ReadyToNull \/ TakeGraph \/ ForgetTopology \/ CloseElement
    <2>1. /\ phase # "adding" /\ handler' = handler
          /\ phase' \in {"ready", "stop", "stopping", "failing", "closing", "closed"}
      BY <1>2 DEF NullToReady, SubscribeChannelmapping, ReadyToNull, TakeGraph, ForgetTopology,
                  CloseElement, CloseSession, vars
    <2>. QED  BY <2>1, ApartMoves
  <1>3. CASE BuildInternals \/ StoreGraph \/ SyncAnswered
    <2>1. /\ phase \in {"building", "built", "synced"} /\ UNCHANGED <<handler, snap, retried>>
          /\ phase' # "adding"
      BY <1>3 DEF BuildInternals, StoreGraph, SyncAnswered, vars
    <2>. QED  BY <2>1, ApartMoves
  <1>4. CASE SyncOutput
    <2>1. PICK new : new = [pc |-> "sync", name |-> cms[handle].name,
                            output |-> snap.srcs[output].id, map |-> InitialEntries(output)]
      OBVIOUS
    <2>2. /\ phase = "sync" /\ phase' = "syncing" /\ UNCHANGED <<snap, retried>>
          /\ handler' = [handler EXCEPT ![ElementHandler] = new] /\ new.pc = "sync"
      BY <1>4, <2>1 DEF SyncOutput, SyncChannelmappingState
    <2>3. handler'[ElementHandler].pc = "sync"
      BY <2>2, ElementAssumption DEF RInv, Typed
    <2>. QED  BY <2>2, <2>3, ApartMoves
  <1>5. CASE SyncOutputFfi
    <2>1. /\ phase = "syncing" /\ phase' \in {"synced", "failed"} /\ UNCHANGED <<snap, retried>>
          /\ handler' = [handler EXCEPT ![ElementHandler] = Idle]
      BY <1>5 DEF SyncOutputFfi, SyncChannelmappingFfi
    <2>2. handler'[ElementHandler].pc = "idle"
      BY <2>1, ElementAssumption DEF RInv, Typed, Idle
    <2>. QED  BY <2>1, <2>2, ApartMoves
  <1>. QED  BY <1>1, <1>2, <1>3, <1>4, <1>5, StepKinds, AsideApart, OwnAddApart,
               ReadyToPausedApart, AddAnsweredApart DEF ElementStep

LEMMA InitMore == InitElement => Within /\ PadsApart
  BY ElementAssumption
     DEF InitElement, Init, Within, PadsApart, Added, IsAdd, IsMine, Idle, EmptyMap

-----------------------------------------------------------------------------
(* What a fixated element has, and what comes out of it. *)

\* The inductive invariant of the element and its mappings.
LEMMA InvHolds == Spec => [](RInv /\ PadsSet /\ EInv /\ HInv /\ Within /\ PadsApart)
  BY InitRegistries, RegistriesKept, PadsSetKept, InitElementInv, ElementInvKept, InitHeard,
     HeardKept, InitMore, WithinKept, PadsApartKept, PTL DEF Spec

\* A fixated element has its mapping, whose outputs have the channels of its src pads
\* and whose inputs are its sink pads, no two with one id, unless a retry skipped the
\* add: fixate_and_build, against all that another client does to the Node.
THEOREM FixatedIsRegisteredHolds == Spec => []FixatedIsRegistered
  <1>1. EInv /\ PadsApart => FixatedIsRegistered
    <2>. SUFFICES ASSUME EInv, PadsApart, phase = "paused"
                  PROVE  /\ handle \in DOMAIN cms
                         /\ cms[handle].session = Element
                         /\ \A i \in 1..Len(topology.output_ids) :
                               /\ topology.output_ids[i] \in cms[handle].outputs
                               /\ DOMAIN lib.res[<<"outputs", topology.output_ids[i]>>]
                                      = 0..(topology.output_channels[i] - 1)
                         /\ ~retried => RegisteredInputs /\ DistinctPads
      BY DEF FixatedIsRegistered
    <2>1. handle \in DOMAIN cms /\ cms[handle].session = Element
      BY DEF EInv, Frozen, MineIs, IsMine
    <2>2. topology = FromSnapshots(snap.sinks, snap.srcs)
          /\ Len(snap.sinks) \in Nat /\ Len(snap.srcs) \in Nat
      BY DEF EInv, Frozen, SnapTopology, Counts
    <2>3. PICK sinks, srcs : sinks = snap.sinks /\ srcs = snap.srcs
      OBVIOUS
    <2>4. /\ topology.output_ids = [i \in 1..Len(srcs) |-> srcs[i].id]
          /\ topology.output_channels = [i \in 1..Len(srcs) |-> srcs[i].channels]
          /\ topology.input_ids = [i \in 1..Len(sinks) |-> sinks[i].id]
      BY <2>2, <2>3 DEF FromSnapshots
    <2>5. Len(topology.output_ids) = Len(srcs)
      BY <2>2, <2>3, <2>4
    <2>6. ASSUME NEW i \in 1..Len(topology.output_ids)
          PROVE  /\ topology.output_ids[i] \in cms[handle].outputs
                 /\ DOMAIN lib.res[<<"outputs", topology.output_ids[i]>>]
                        = 0..(topology.output_channels[i] - 1)
      <3>1. SyncedAt(i)
        BY <2>3, <2>5 DEF EInv, Published
      <3>. QED  BY <2>3, <2>4, <2>5, <3>1 DEF SyncedAt
    <2>7. ~retried => RegisteredInputs
      <3>1. Range(topology.input_ids) = Ids(sinks)
        <4>1. PICK f : f = topology.input_ids
          OBVIOUS
        <4>2. DOMAIN f = 1..Len(sinks) /\ \A i \in 1..Len(sinks) : f[i] = sinks[i].id
          BY <2>4, <4>1
        <4>3. {f[i] : i \in DOMAIN f} = {sinks[i].id : i \in 1..Len(sinks)}
          BY <4>2
        <4>. QED  BY <4>1, <4>3 DEF Range, Ids
      <3>. QED  BY <2>3, <3>1 DEF EInv, Frozen, RegisteredInputs
    <2>8. ~retried => DistinctPads
      <3>1. SUFFICES ASSUME ~retried PROVE DistinctPads
        OBVIOUS
      <3>2. IdsApart(sinks) /\ IdsApart(srcs)
        BY <2>3, <3>1 DEF PadsApart
      <3>3. PICK f, g : f = topology.input_ids /\ g = topology.output_ids
        OBVIOUS
      <3>4. /\ DOMAIN f = 1..Len(sinks) /\ \A i \in 1..Len(sinks) : f[i] = sinks[i].id
            /\ DOMAIN g = 1..Len(srcs) /\ \A i \in 1..Len(srcs) : g[i] = srcs[i].id
        BY <2>4, <3>3
      <3>5. IsInjective(f) /\ IsInjective(g)
        BY <3>2, <3>4 DEF IdsApart, IsInjective
      <3>. QED  BY <3>3, <3>5 DEF DistinctPads
    <2>. QED  BY <2>1, <2>6, <2>7, <2>8
  <1>. QED  BY <1>1, InvHolds, PTL

\* What comes out of a fixated element is what IS-08 shows, through apply_activation,
\* set_output_matrix and both matrices, whatever is activated, times out or is synced in
\* the meantime.
THEOREM HeardIsMappedHolds == Spec => []HeardIsMapped
  <1>1. RInv /\ EInv /\ HInv => HeardIsMapped
    <2>1. SUFFICES ASSUME RInv, EInv, HInv, phase = "paused", RegisteredInputs, DistinctPads,
                          NEW i \in 1..Len(topology.output_ids),
                          NEW o, o = topology.output_ids[i], o \notin astray, Settled(o),
                          NEW m, m = lib.res[<<"outputs", o>>], NEW c \in DOMAIN m
                   PROVE  Heard(graph, i, c) = Named(topology.input_ids, m[c])
      BY DEF HeardIsMapped
    <2>2. Apt
      BY <2>1, FrozenTopology DEF Apt, RegisteredInputs, HInv, NoEmpty
    <2>3. Due(i, o, m)
      BY <2>1 DEF Due
    <2>4. Arrives(i, o, m)
      BY <2>1, <2>2, <2>3 DEF HInv, Latest
    <2>5. Sounds(topology, graph.outputs[i], m)
      BY <2>1, <2>4 DEF Arrives
    <2>6. graph = [inputs |-> Wiring(topology), outputs |-> graph.outputs]
      BY <2>1 DEF HInv, Wired, Mixing
    <2>7. PICK t, os : t = topology /\ os = graph.outputs
      OBVIOUS
    <2>8. Heard(graph, i, c) = Mixed(t, os[i], c)
      BY <2>6, <2>7, HeardIsMixed
    <2>9. Mixed(t, os[i], c) = Named(t.input_ids, m[c])
      BY <2>1, <2>5, <2>7 DEF Sounds
    <2>. QED  BY <2>7, <2>8, <2>9
  <1>. QED  BY <1>1, InvHolds, PTL
=============================================================================
