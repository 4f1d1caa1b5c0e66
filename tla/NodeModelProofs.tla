--------------------------- MODULE NodeModelProofs ---------------------------
(***************************************************************************)
(* Proofs about NodeModel, for all files, all that controllers stage and   *)
(* any number of operations: ResourcesWhole, InterfacesBound and           *)
(* ConnectionAgrees.                                                       *)
(*                                                                         *)
(* ResourcesWhole is inductive with KeysWhole: the rollback of a failed    *)
(* add is right because the resources of a name exist all or none          *)
(* (AllOrNone).  The reference counts need more than ResourcesWhole: that  *)
(* every bound leg is counted while its configuration exists (Counted), so *)
(* that a remove gives up exactly what the add of the same key counted.    *)
(* ConnectionAgrees needs the shape of a connection and, for the Senders   *)
(* and Receivers without a /transportfile, that none is ever served.       *)
(***************************************************************************)
EXTENDS NodeModel, FiniteSetTheorems, TLAPS

-----------------------------------------------------------------------------
(* The inductive invariant. *)

\* A key names a Sender or a Receiver, which the application has a state for.
KeysWhole ==
    /\ \A key \in DOMAIN configs :
          key = <<key[1], key[2]>> /\ key[1] \in {"sender", "receiver"}
    /\ DOMAIN app = DOMAIN configs

\* The fields of a resource and of a connection.
ResShape(r) ==
    r = [bindings |-> r.bindings, subscribed |-> r.subscribed, label |-> r.label,
         caps |-> r.caps]
ConnShape(c) ==
    /\ c = [staged |-> c.staged, active |-> c.active, served |-> c.served,
            pending |-> c.pending]
    /\ c.active = [on |-> c.active.on, file |-> c.active.file, params |-> c.active.params]

\* The references to one interface: finitely many legs, counted while there are any.
Counted(i) ==
    /\ IsFiniteSet(BoundTo(i))
    /\ i \in DOMAIN refCounts <=> BoundTo(i) # {}
    /\ i \in DOMAIN refCounts => refCounts[i] = Cardinality(BoundTo(i))

\* ConnectionAgrees of one connection; a Receiver and an MXL Sender have no
\* /transportfile.
Shared(key) ==
    /\ res[key].subscribed = conn[key].active.on
    /\ app[key].on <=> Running(key)
    /\ app[key].on => app[key].params = conn[key].active.params

ServesActive(key) ==
    /\ conn[key].served # NoFile => conn[key].served.params = conn[key].active.params
    /\ ~IsRtpSender(key) => conn[key].served = NoFile

Open(key, params) ==
    \E file \in Files : /\ Reportable(key, file) /\ file.transport = "rtp"
                        /\ TransportParams(key[1], file) = params

ResolvedAt(key) ==
    configs[key].transport = "rtp" =>
        \A leg \in DOMAIN conn[key].active.params :
            conn[key].active.params[leg].dst = AutoParam => Open(key, conn[key].active.params)

Agrees(key) ==
    /\ ConnShape(conn[key])
    /\ key \notin torn => Shared(key)
    /\ ServesActive(key)
    /\ ResolvedAt(key)

Listing ==
    /\ interfaces = SetToBag(DOMAIN refCounts)
    /\ \A i : Counted(i)

Inv ==
    /\ ResourcesWhole
    /\ KeysWhole
    /\ \A i \in DOMAIN res : ResShape(res[i])
    /\ Listing
    /\ \A key \in DOMAIN conn : Agrees(key)

-----------------------------------------------------------------------------
(* The reference counts. *)

\* Interfaces that leave the list of the Node and others that join it.
LEMMA BagChange ==
    ASSUME NEW S, NEW G, NEW N, G \subseteq S, N \cap (S \ G) = {}
    PROVE  (SetToBag(S) (-) SetToBag(G)) (+) SetToBag(N) = SetToBag((S \ G) \cup N)
  <1>1. SetToBag(S) (-) SetToBag(G) = SetToBag(S \ G)
    BY DEF (-), SetToBag
  <1>2. SetToBag(S \ G) (+) SetToBag(N) = SetToBag((S \ G) \cup N)
    BY DEF (+), SetToBag
  <1>. QED  BY <1>1, <1>2

Legs(names, i) == {leg \in DOMAIN names : names[leg] = i}

\* The legs of one key and those of the others are counted apart.
LEMMA PairsCounted ==
    ASSUME NEW key, NEW L, IsFiniteSet(L)
    PROVE  /\ IsFiniteSet({key} \X L) /\ Cardinality({key} \X L) = Cardinality(L)
           /\ Cardinality(L) \in Nat
           /\ Cardinality(L) = 0 <=> L = {}
  <1>1. IsFiniteSet({key}) /\ Cardinality({key}) = 1
    BY FS_Singleton
  <1>2. IsFiniteSet({key} \X L) /\ Cardinality({key} \X L) = 1 * Cardinality(L)
    BY <1>1, FS_Product
  <1>3. Cardinality(L) \in Nat
    BY FS_CardinalityType
  <1>4. Cardinality(L) = 0 <=> L = {}
    BY FS_EmptySet
  <1>. QED  BY <1>2, <1>3, <1>4

LEMMA NoLegs ==
    ASSUME NEW names, NEW i
    PROVE  Legs(names, i) = {} <=> i \notin ToSet(names)
  BY DEF Legs, ToSet

\* The cardinality of a disjoint union, and that 0 means empty.
LEMMA DisjointCounted ==
    ASSUME NEW S, NEW T, IsFiniteSet(S), IsFiniteSet(T), S \cap T = {}
    PROVE  /\ IsFiniteSet(S \cup T)
           /\ Cardinality(S \cup T) = Cardinality(S) + Cardinality(T)
           /\ Cardinality(S) \in Nat /\ Cardinality(T) \in Nat
           /\ Cardinality(S) = 0 <=> S = {}
           /\ Cardinality(T) = 0 <=> T = {}
  <1>1. Cardinality(S) \in Nat /\ Cardinality(T) \in Nat
    BY FS_CardinalityType
  <1>2. Cardinality({}) = 0
    BY FS_EmptySet
  <1>. QED  BY <1>1, <1>2, FS_Union, FS_EmptySet

\* A finite set of bound legs with those of one key set apart.
LegsApart(all, others, key, names, i) ==
    /\ IsFiniteSet(all)
    /\ all = others \cup ({key} \X Legs(names, i))
    /\ others \cap ({key} \X Legs(names, i)) = {}

\* What one key contributes to a count is the number of its legs bound to i.
LEMMA CountedApart ==
    ASSUME NEW key, NEW names, NEW i, NEW all, NEW others,
           LegsApart(all, others, key, names, i)
    PROVE  /\ IsFiniteSet(others)
           /\ Cardinality(all) = Cardinality(others) + Occurrences(names, i)
           /\ Cardinality(others) \in Nat /\ Occurrences(names, i) \in Nat
           /\ Cardinality(others) = 0 <=> others = {}
           /\ Cardinality(all) = 0 <=> all = {}
           /\ Occurrences(names, i) = 0 <=> i \notin ToSet(names)
  <1>1. IsFiniteSet(others) /\ IsFiniteSet({key} \X Legs(names, i))
    BY FS_Subset DEF LegsApart
  <1>2. IsFiniteSet(Legs(names, i))
    <2>1. DEFINE f == [leg \in Legs(names, i) |-> <<key, leg>>]
    <2>2. f \in Injection(Legs(names, i), {key} \X Legs(names, i))
      BY DEF Injection, IsInjective
    <2>. QED  BY <1>1, <2>2, FS_Injection
  <1>3. Occurrences(names, i) = Cardinality(Legs(names, i))
    BY DEF Occurrences, Legs
  <1>4. /\ Cardinality({key} \X Legs(names, i)) = Occurrences(names, i)
        /\ Occurrences(names, i) \in Nat
        /\ Occurrences(names, i) = 0 <=> Legs(names, i) = {}
    BY <1>2, <1>3, PairsCounted
  <1>5. Occurrences(names, i) = 0 <=> i \notin ToSet(names)
    BY <1>4, NoLegs
  <1>6. /\ Cardinality(all) = Cardinality(others) + Occurrences(names, i)
        /\ Cardinality(others) \in Nat
        /\ Cardinality(others) = 0 <=> others = {}
    BY <1>1, <1>4, DisjointCounted DEF LegsApart
  <1>7. Cardinality(all) = 0 <=> all = {}
    BY FS_EmptySet DEF LegsApart
  <1>. QED  BY <1>1, <1>4, <1>5, <1>6, <1>7

LEMMA EmptyLegs ==
    /\ \A i : Occurrences(<<>>, i) = 0
    /\ ToSet(<<>>) = {}
  <1>1. ASSUME NEW i PROVE Occurrences(<<>>, i) = 0
    <2>1. {leg \in DOMAIN <<>> : <<>>[leg] = i} = {}
      OBVIOUS
    <2>. QED  BY <2>1, FS_EmptySet DEF Occurrences
  <1>2. ToSet(<<>>) = {}
    BY DEF ToSet
  <1>. QED  BY <1>1, <1>2

LEMMA CountsPositive ==
    ASSUME Listing
    PROVE  \A i \in DOMAIN refCounts : refCounts[i] \in Nat /\ refCounts[i] > 0
  <1>. SUFFICES ASSUME NEW i \in DOMAIN refCounts
                PROVE  refCounts[i] \in Nat /\ refCounts[i] > 0
    OBVIOUS
  <1>1. IsFiniteSet(BoundTo(i)) /\ BoundTo(i) # {} /\ refCounts[i] = Cardinality(BoundTo(i))
    BY DEF Listing, Counted
  <1>2. Cardinality(BoundTo(i)) \in Nat /\ Cardinality(BoundTo(i)) # 0
    BY <1>1, FS_CardinalityType, FS_EmptySet
  <1>. QED  BY <1>1, <1>2

\* update_node_interfaces, when nothing is bound, an add binds and a remove unbinds.
LEMMA ListingUnchanged ==
    ASSUME Listing, UNCHANGED <<refCounts, interfaces>>, DOMAIN configs' = DOMAIN configs,
           \A key \in DOMAIN configs : res'[key].bindings = res[key].bindings
    PROVE  Listing'
  <1>1. ASSUME NEW i PROVE BoundTo(i)' = BoundTo(i)
    BY DEF BoundTo
  <1>2. ASSUME NEW i PROVE Counted(i)'
    BY <1>1 DEF Counted, Listing
  <1>. QED  BY <1>2 DEF Listing

LEMMA ListingAdded ==
    ASSUME Listing, NEW key, key \notin DOMAIN configs, NEW names, IsFiniteSet(DOMAIN names),
           DOMAIN configs' = DOMAIN configs \cup {key}, res'[key].bindings = names,
           \A k \in DOMAIN configs : res'[k].bindings = res[k].bindings,
           UpdateNodeInterfaces(<<>>, names)
    PROVE  Listing'
  <1>1. Dropped(refCounts, <<>>) = [i \in DOMAIN refCounts |-> refCounts[i]]
    <2>1. \A i \in DOMAIN refCounts : refCounts[i] > 0 /\ refCounts[i] - 0 = refCounts[i]
      BY CountsPositive
    <2>2. {j \in DOMAIN refCounts : refCounts[j] > Occurrences(<<>>, j)} = DOMAIN refCounts
      BY <2>1, EmptyLegs
    <2>. QED  BY <2>1, <2>2, EmptyLegs DEF Dropped
  <1>2. /\ DOMAIN refCounts' = DOMAIN refCounts \cup ToSet(names)
        /\ \A i \in DOMAIN refCounts' :
              refCounts'[i] = (IF i \in DOMAIN refCounts THEN refCounts[i] ELSE 0)
                              + Occurrences(names, i)
    BY <1>1 DEF UpdateNodeInterfaces, Added
  <1>3. ASSUME NEW i PROVE Counted(i)'
    <2>. DEFINE all == BoundTo(i)'
                others == BoundTo(i)
    <2>1. /\ all = others \cup ({key} \X Legs(names, i))
          /\ others \cap ({key} \X Legs(names, i)) = {}
      BY DEF BoundTo, Legs
    <2>2. /\ IsFiniteSet(others)
          /\ i \in DOMAIN refCounts <=> others # {}
          /\ i \in DOMAIN refCounts => refCounts[i] = Cardinality(others)
      BY DEF Listing, Counted
    <2>. SUFFICES /\ IsFiniteSet(all)
                  /\ i \in DOMAIN refCounts' <=> all # {}
                  /\ i \in DOMAIN refCounts' => refCounts'[i] = Cardinality(all)
      BY DEF Counted
    <2>. HIDE DEF all, others
    <2>3. IsFiniteSet(all)
      <3>1. IsFiniteSet(Legs(names, i))
        BY FS_Subset DEF Legs
      <3>2. IsFiniteSet({key} \X Legs(names, i))
        BY <3>1, PairsCounted
      <3>. QED  BY <2>1, <2>2, <3>2, FS_Union
    <2>4. /\ Cardinality(all) = Cardinality(others) + Occurrences(names, i)
          /\ Cardinality(others) \in Nat /\ Occurrences(names, i) \in Nat
          /\ Cardinality(others) = 0 <=> others = {}
          /\ Cardinality(all) = 0 <=> all = {}
          /\ Occurrences(names, i) = 0 <=> i \notin ToSet(names)
      <3>1. LegsApart(all, others, key, names, i)
        BY <2>1, <2>3 DEF LegsApart
      <3>. QED  BY <3>1, CountedApart
    <2>. QED  BY <1>2, <2>2, <2>3, <2>4
  <1>4. interfaces' = SetToBag(DOMAIN refCounts')
    <2>1. interfaces' = (SetToBag(DOMAIN refCounts) (-) SetToBag({}))
                        (+) SetToBag(ToSet(names) \ DOMAIN refCounts)
      BY <1>1, EmptyLegs DEF UpdateNodeInterfaces, Listing
    <2>2. (SetToBag(DOMAIN refCounts) (-) SetToBag({})) (+) SetToBag(ToSet(names) \ DOMAIN refCounts)
          = SetToBag((DOMAIN refCounts \ {}) \cup (ToSet(names) \ DOMAIN refCounts))
      BY BagChange
    <2>3. (DOMAIN refCounts \ {}) \cup (ToSet(names) \ DOMAIN refCounts) = DOMAIN refCounts'
      BY <1>2
    <2>. QED  BY <2>1, <2>2, <2>3
  <1>. QED  BY <1>3, <1>4 DEF Listing

LEMMA ListingRemoved ==
    ASSUME Listing, NEW key \in DOMAIN configs,
           DOMAIN configs' = DOMAIN configs \ {key},
           \A k \in DOMAIN configs' : res'[k].bindings = res[k].bindings,
           UpdateNodeInterfaces(res[key].bindings, <<>>)
    PROVE  Listing'
  <1>. DEFINE names == res[key].bindings
              left == Dropped(refCounts, names)
  <1>1. ASSUME NEW i
        PROVE  /\ BoundTo(i) = BoundTo(i)' \cup ({key} \X Legs(names, i))
               /\ BoundTo(i)' \cap ({key} \X Legs(names, i)) = {}
    BY DEF BoundTo, Legs
  <1>2. ASSUME NEW i
        PROVE  /\ Occurrences(names, i) \in Nat
               /\ Occurrences(names, i) = 0 <=> i \notin ToSet(names)
               /\ i \in ToSet(names) => i \in DOMAIN refCounts
    <2>. DEFINE all == BoundTo(i)
                others == BoundTo(i)'
    <2>1. /\ IsFiniteSet(all)
          /\ i \in DOMAIN refCounts <=> all # {}
      BY DEF Listing, Counted
    <2>2. /\ all = others \cup ({key} \X Legs(names, i))
          /\ others \cap ({key} \X Legs(names, i)) = {}
      BY <1>1
    <2>. HIDE DEF all, others, names
    <2>3. LegsApart(all, others, key, names, i)
      BY <2>1, <2>2 DEF LegsApart
    <2>4. /\ Occurrences(names, i) \in Nat
          /\ Occurrences(names, i) = 0 <=> i \notin ToSet(names)
          /\ Cardinality(all) = Cardinality(others) + Occurrences(names, i)
          /\ Cardinality(others) \in Nat
          /\ Cardinality(all) = 0 <=> all = {}
      BY <2>3, CountedApart
    <2>. QED  BY <2>1, <2>4
  <1>3. /\ DOMAIN left = {i \in DOMAIN refCounts : refCounts[i] > Occurrences(names, i)}
        /\ \A i \in DOMAIN left : left[i] = refCounts[i] - Occurrences(names, i)
    BY DEF Dropped
  <1>4. \A i \in DOMAIN left : left[i] \in Nat
    <2>. HIDE DEF left, names
    <2>. QED  BY <1>2, <1>3, CountsPositive
  <1>5. refCounts' = Added(left, <<>>)
    BY DEF UpdateNodeInterfaces
  <1>6. /\ DOMAIN refCounts' = DOMAIN left
        /\ \A i \in DOMAIN left : refCounts'[i] = left[i]
    <2>. HIDE DEF left, names
    <2>1. \A i \in DOMAIN left : left[i] + 0 = left[i]
      BY <1>4
    <2>. QED  BY <1>5, <2>1, EmptyLegs DEF Added
  <1>7. ASSUME NEW i PROVE Counted(i)'
    <2>. DEFINE all == BoundTo(i)
                others == BoundTo(i)'
    <2>1. /\ IsFiniteSet(all)
          /\ i \in DOMAIN refCounts <=> all # {}
          /\ i \in DOMAIN refCounts => refCounts[i] = Cardinality(all)
      BY DEF Listing, Counted
    <2>2. /\ all = others \cup ({key} \X Legs(names, i))
          /\ others \cap ({key} \X Legs(names, i)) = {}
      BY <1>1
    <2>. SUFFICES /\ IsFiniteSet(others)
                  /\ i \in DOMAIN refCounts' <=> others # {}
                  /\ i \in DOMAIN refCounts' => refCounts'[i] = Cardinality(others)
      BY DEF Counted
    <2>. HIDE DEF all, others, names, left
    <2>3. /\ IsFiniteSet(others)
          /\ Cardinality(all) = Cardinality(others) + Occurrences(names, i)
          /\ Cardinality(others) \in Nat /\ Occurrences(names, i) \in Nat
          /\ Cardinality(others) = 0 <=> others = {}
          /\ Cardinality(all) = 0 <=> all = {}
      <3>1. LegsApart(all, others, key, names, i)
        BY <2>1, <2>2 DEF LegsApart
      <3>. QED  BY <3>1, CountedApart
    <2>. QED  BY <1>3, <1>6, <2>1, <2>2, <2>3
  <1>8. interfaces' = SetToBag(DOMAIN refCounts')
    <2>1. interfaces' = (SetToBag(DOMAIN refCounts) (-) SetToBag(ToSet(names) \ DOMAIN left))
                        (+) SetToBag({})
      BY EmptyLegs DEF UpdateNodeInterfaces, Listing
    <2>. HIDE DEF left, names
    <2>2. \A i \in DOMAIN refCounts : i \notin ToSet(names) => i \in DOMAIN left
      BY <1>2, <1>3, CountsPositive
    <2>3. ToSet(names) \ DOMAIN left \subseteq DOMAIN refCounts
      BY <1>2
    <2>4. (SetToBag(DOMAIN refCounts) (-) SetToBag(ToSet(names) \ DOMAIN left)) (+) SetToBag({})
          = SetToBag((DOMAIN refCounts \ (ToSet(names) \ DOMAIN left)) \cup {})
      BY <2>3, BagChange
    <2>5. (DOMAIN refCounts \ (ToSet(names) \ DOMAIN left)) \cup {} = DOMAIN refCounts'
      BY <1>3, <1>6, <2>2
    <2>. QED  BY <2>1, <2>4, <2>5
  <1>. QED  BY <1>7, <1>8 DEF Listing

-----------------------------------------------------------------------------
LEMMA InitInv == Init => Inv
  <1>. SUFFICES ASSUME Init PROVE Inv
    OBVIOUS
  <1>1. /\ ResourcesWhole /\ KeysWhole
        /\ \A i \in DOMAIN res : ResShape(res[i])
        /\ \A key \in DOMAIN conn : Agrees(key)
    BY DEF Init, EmptyMap, ResourcesWhole, KeysWhole
  <1>2. Listing
    <2>1. \A i : BoundTo(i) = {}
      BY DEF Init, EmptyMap, BoundTo
    <2>2. DOMAIN refCounts = {}
      BY DEF Init, EmptyMap
    <2>3. \A i : Counted(i)
      BY <2>1, <2>2, FS_EmptySet DEF Counted
    <2>. QED  BY <2>2, <2>3 DEF Listing, Init, EmptyBag
  <1>. QED  BY <1>1, <1>2 DEF Inv

\* What a step leaves alone at a key.
Kept(key) ==
    /\ conn'[key] = conn[key]
    /\ res'[key].subscribed = res[key].subscribed
    /\ app'[key] = app[key]
    /\ configs'[key] = configs[key]
    /\ key \in torn => key \in torn'

\* A connection that a step leaves alone still agrees.
LEMMA KeptAgrees ==
    ASSUME NEW key, Kept(key), Agrees(key)
    PROVE  Agrees(key)'
  <1>1. (key \notin torn => Shared(key))'
    BY DEF Kept, Agrees, Shared, Running
  <1>2. ServesActive(key)'
    BY DEF Kept, Agrees, ServesActive, IsRtpSender
  <1>3. ResolvedAt(key)'
    BY DEF Kept, Agrees, ResolvedAt, Open, Reportable
  <1>. QED  BY <1>1, <1>2, <1>3 DEF Agrees, Kept

LEMMA InvImplies ==
    ASSUME Inv
    PROVE  ResourcesWhole /\ InterfacesBound /\ ConnectionAgrees
  <1>1. ConnectionAgrees
    BY DEF Inv, Agrees, Shared, ServesActive, ResolvedAt, Open, ConnectionAgrees,
           ActiveIsShared, ServedIsActive, Resolved
  <1>2. InterfacesBound
    <2>1. ASSUME NEW i
          PROVE  i \in UNION {ToSet(res[key].bindings) : key \in DOMAIN configs}
                     <=> BoundTo(i) # {}
      <3>1. ASSUME NEW key \in DOMAIN configs, i \in ToSet(res[key].bindings)
            PROVE  BoundTo(i) # {}
        <4>1. PICK leg \in DOMAIN res[key].bindings : res[key].bindings[leg] = i
          BY <3>1 DEF ToSet
        <4>2. <<key, leg>> \in {key} \X {n \in DOMAIN res[key].bindings : res[key].bindings[n] = i}
          BY <4>1
        <4>. QED  BY <4>2 DEF BoundTo
      <3>2. ASSUME BoundTo(i) # {}
            PROVE  \E key \in DOMAIN configs : i \in ToSet(res[key].bindings)
        BY <3>2 DEF BoundTo, ToSet
      <3>. QED  BY <3>1, <3>2
    <2>. QED  BY <2>1 DEF Inv, Listing, Counted, InterfacesBound
  <1>. QED  BY <1>1, <1>2 DEF Inv

-----------------------------------------------------------------------------
(* Adding. *)

SenderIds(name) == {<<"source", name>>, <<"flow", name>>, <<"sender", name>>}

LEMMA IdsOf ==
    ASSUME NEW side \in {"sender", "receiver"}, NEW file
    PROVE  /\ ToSet(Resources(side, file)) = IF side = "sender" THEN SenderIds(file.name)
                                             ELSE {<<"receiver", file.name>>}
           /\ DOMAIN Resources(side, file) = IF side = "sender" THEN 1..3 ELSE 1..1
           /\ Resources(side, file)[1] \in ToSet(Resources(side, file))
  BY DEF Resources, ToSet, SenderIds

\* All the resources of a Sender or Receiver exist, or none.
LEMMA AllOrNone ==
    ASSUME Inv, NEW side \in {"sender", "receiver"}, NEW file
    PROVE  /\ Key(side, file) \in DOMAIN configs
                 => /\ ToSet(Resources(side, file)) \subseteq DOMAIN res
                    /\ InsertedBefore(Resources(side, file)) = {}
           /\ Key(side, file) \notin DOMAIN configs
                 => /\ ToSet(Resources(side, file)) \cap DOMAIN res = {}
                    /\ InsertedBefore(Resources(side, file)) = ToSet(Resources(side, file))
  <1>. DEFINE ids == Resources(side, file)
  <1>1. \A name, t : t \in {"source", "flow"} =>
            (<<t, name>> \in DOMAIN res <=> <<"sender", name>> \in DOMAIN configs)
    BY DEF Inv, ResourcesWhole, KeysWhole
  <1>2. \A name, t : t \in {"sender", "receiver"} =>
            (<<t, name>> \in DOMAIN res <=> <<t, name>> \in DOMAIN configs)
    BY DEF Inv, ResourcesWhole, KeysWhole
  <1>3. CASE Key(side, file) \in DOMAIN configs
    <2>1. ToSet(ids) \subseteq DOMAIN res
      <3>1. CASE side = "sender"
        <4>1. ToSet(ids) = SenderIds(file.name)
          BY <3>1, IdsOf
        <4>. HIDE DEF ids
        <4>. QED  BY <1>1, <1>2, <1>3, <3>1, <4>1 DEF Key, SenderIds
      <3>2. CASE side = "receiver"
        <4>1. ToSet(ids) = {<<"receiver", file.name>>}
          BY <3>2, IdsOf
        <4>. HIDE DEF ids
        <4>. QED  BY <1>2, <1>3, <3>2, <4>1 DEF Key
      <3>. QED  BY <3>1, <3>2
    <2>2. 1 \in DOMAIN ids /\ ids[1] \in DOMAIN res /\ DOMAIN ids \subseteq 1..3
      BY <2>1, IdsOf
    <2>3. InsertedBefore(ids) = {}
      <3>. HIDE DEF ids
      <3>. QED  BY <2>2 DEF InsertedBefore
    <2>. QED  BY <1>3, <2>1, <2>3
  <1>4. CASE Key(side, file) \notin DOMAIN configs
    <2>1. ToSet(ids) \cap DOMAIN res = {}
      <3>1. CASE side = "sender"
        <4>1. ToSet(ids) = SenderIds(file.name)
          BY <3>1, IdsOf
        <4>. HIDE DEF ids
        <4>. QED  BY <1>1, <1>2, <1>4, <3>1, <4>1 DEF Key, SenderIds
      <3>2. CASE side = "receiver"
        <4>1. ToSet(ids) = {<<"receiver", file.name>>}
          BY <3>2, IdsOf
        <4>. HIDE DEF ids
        <4>. QED  BY <1>2, <1>4, <3>2, <4>1 DEF Key
      <3>. QED  BY <3>1, <3>2
    <2>2. InsertedBefore(ids) = ToSet(ids)
      <3>. HIDE DEF ids
      <3>. QED  BY <2>1 DEF InsertedBefore, ToSet
    <2>. QED  BY <1>4, <2>1, <2>2
  <1>. QED  BY <1>3, <1>4

LEMMA NewIsOff ==
    ASSUME NEW side, NEW file
    PROVE  /\ NewConnection(side, file).active.on = FALSE
           /\ NewResource(side, file).subscribed = FALSE
           /\ ~Off.on
  BY DEF NewConnection, NewResource, Off

\* A new connection has no /transportfile and is off, like the application.
LEMMA NewAgrees ==
    ASSUME NEW side \in {"sender", "receiver"}, NEW file, NEW key, key = Key(side, file),
           configs'[key] = file, conn'[key] = NewConnection(side, file), app'[key] = Off,
           res'[key] = NewResource(side, file)
    PROVE  Agrees(key)'
  <1>1. ConnShape(conn'[key])
    BY DEF ConnShape, NewConnection
  <1>2. Shared(key)'
    <2>1. ~app'[key].on /\ ~conn'[key].active.on
      BY NewIsOff
    <2>2. res'[key].subscribed = conn'[key].active.on
      BY NewIsOff
    <2>3. ~Running(key)'
      BY <2>1 DEF Running
    <2>. QED  BY <2>1, <2>2, <2>3 DEF Shared
  <1>3. ServesActive(key)'
    BY DEF ServesActive, NewConnection
  <1>4. ResolvedAt(key)'
    <2>. SUFFICES ASSUME file.transport = "rtp",
                         NEW leg \in DOMAIN conn'[key].active.params,
                         conn'[key].active.params[leg].dst = AutoParam
                  PROVE  FALSE
      BY DEF ResolvedAt
    <2>1. conn'[key].active.params = ResolveRtp(side, file, AllAuto(side, file))
      BY DEF NewConnection, Resolve
    <2>. QED  BY <2>1 DEF ResolveRtp, AutoParam
  <1>. QED  BY <1>1, <1>2, <1>3, <1>4 DEF Agrees

\* An add, and the rollback of one that fails between its inserts.
LEMMA AddStep ==
    ASSUME Inv, NEW side \in {"sender", "receiver"}, NEW file \in Files, NEW ck,
           InsertAll(side, file, ck)
    PROVE  Inv'
  <1>. DEFINE ids == ToSet(Resources(side, file))
              put == InsertedBefore(Resources(side, file))
              key == Key(side, file)
  <1>1. /\ defaults' = [i \in DOMAIN defaults \cup ids |->
                            IF i \in ids THEN file.label ELSE defaults[i]]
        /\ res' = [i \in DOMAIN res \cup put |->
                       IF i \in put THEN NewResource(side, file) ELSE res[i]]
        /\ UNCHANGED torn
    BY DEF InsertAll
  <1>2. /\ key \in ids /\ key = <<side, file.name>> /\ key[1] = side /\ key[2] = file.name
        /\ ids = IF side = "sender" THEN SenderIds(key[2]) ELSE {key}
    BY IdsOf DEF Key, SenderIds
  <1>3. CASE key \in DOMAIN configs
    <2>1. ids \subseteq DOMAIN res /\ put = {}
      BY <1>3, AllOrNone
    <2>2. UNCHANGED <<conn, refCounts, interfaces, clock, configs, app>>
      <3>1. put # ids
        BY <1>2, <2>1
      <3>. QED  BY <3>1 DEF InsertAll
    <2>. HIDE DEF ids, put, key
    <2>3. DOMAIN res' = DOMAIN res /\ \A i \in DOMAIN res : res'[i] = res[i]
      BY <1>1, <2>1
    <2>4. ResourcesWhole' /\ KeysWhole'
      BY <1>1, <2>1, <2>2, <2>3 DEF Inv, ResourcesWhole, KeysWhole
    <2>5. DOMAIN configs \subseteq DOMAIN res /\ DOMAIN conn = DOMAIN configs
      BY DEF Inv, ResourcesWhole
    <2>6. Listing'
      BY <2>2, <2>3, <2>5, ListingUnchanged DEF Inv
    <2>7. ASSUME NEW k \in DOMAIN conn' PROVE Agrees(k)'
      BY <1>1, <2>2, <2>3, <2>5, KeptAgrees DEF Inv, Kept
    <2>. QED  BY <2>3, <2>4, <2>6, <2>7 DEF Inv
  <1>4. CASE key \notin DOMAIN configs
    <2>1. ids \cap DOMAIN res = {} /\ put = ids
      BY <1>4, AllOrNone
    <2>2. DOMAIN conn = DOMAIN configs
      BY DEF Inv, ResourcesWhole
    <2>3. /\ conn' = With(conn, key, NewConnection(side, file))
          /\ UpdateNodeInterfaces(<<>>, InterfaceNames(file))
          /\ configs' = With(configs, key, file)
          /\ app' = With(app, key, Off)
      BY <1>4, <2>1, <2>2 DEF InsertAll
    <2>. HIDE DEF ids, put, key
    <2>4. /\ DOMAIN conn' = DOMAIN conn \cup {key}
          /\ DOMAIN configs' = DOMAIN configs \cup {key}
          /\ DOMAIN app' = DOMAIN app \cup {key}
          /\ DOMAIN res' = DOMAIN res \cup ids
          /\ DOMAIN defaults' = DOMAIN defaults \cup ids
          /\ conn'[key] = NewConnection(side, file)
          /\ configs'[key] = file
          /\ app'[key] = Off
          /\ \A i \in ids : res'[i] = NewResource(side, file)
      BY <1>1, <2>1, <2>3 DEF With
    <2>5. /\ \A k \in DOMAIN configs : /\ conn'[k] = conn[k] /\ configs'[k] = configs[k]
                                       /\ app'[k] = app[k]
          /\ \A i \in DOMAIN res : res'[i] = res[i]
      BY <1>1, <1>4, <2>1, <2>2, <2>3 DEF With, Inv, KeysWhole
    <2>6. KeysWhole'
      BY <1>2, <2>4 DEF Inv, KeysWhole
    <2>7. ResourcesWhole'
      <3>1. CASE side = "sender"
        <4>1. ids = {key} \cup {<<t, key[2]>> : t \in {"source", "flow"}}
          BY <1>2, <3>1 DEF SenderIds
        <4>. QED  BY <1>2, <2>4, <3>1, <4>1 DEF Inv, ResourcesWhole
      <3>2. CASE side = "receiver"
        <4>1. ids = {key} /\ key[1] # "sender"
          BY <1>2, <3>2
        <4>. QED  BY <2>4, <4>1 DEF Inv, ResourcesWhole
      <3>. QED  BY <3>1, <3>2
    <2>8. \A i \in DOMAIN res' : ResShape(res'[i])
      BY <2>4, <2>5 DEF Inv, ResShape, NewResource
    <2>9. Listing'
      <3>1. DOMAIN configs \subseteq DOMAIN res
        BY DEF Inv, ResourcesWhole
      <3>2. res'[key].bindings = InterfaceNames(file)
        BY <1>2, <2>4 DEF NewResource
      <3>3. IsFiniteSet(DOMAIN InterfaceNames(file))
        BY LegsAssumption DEF InterfaceNames
      <3>. QED  BY <1>4, <2>3, <2>4, <2>5, <3>1, <3>2, <3>3, ListingAdded DEF Inv
    <2>10. ASSUME NEW k \in DOMAIN conn' PROVE Agrees(k)'
      <3>1. CASE k = key
        <4>1. res'[key] = NewResource(side, file)
          BY <1>2, <2>4
        <4>2. key = Key(side, file)
          BY DEF key
        <4>. QED  BY <2>4, <3>1, <4>1, <4>2, NewAgrees
      <3>2. CASE k # key
        <4>1. k \in DOMAIN conn /\ k \in DOMAIN configs /\ k \in DOMAIN res
          BY <2>2, <2>4, <3>2 DEF Inv, ResourcesWhole
        <4>2. Kept(k)
          BY <1>1, <2>5, <4>1 DEF Kept
        <4>. QED  BY <4>1, <4>2, KeptAgrees DEF Inv
      <3>. QED  BY <3>1, <3>2
    <2>. QED  BY <2>6, <2>7, <2>8, <2>9, <2>10 DEF Inv
  <1>. QED  BY <1>3, <1>4

-----------------------------------------------------------------------------
(* Removing. *)

\* A remove takes the resources, the legs and the connection of its key together.
LEMMA RemoveStep ==
    ASSUME Inv, NEW key \in DOMAIN configs, RemoveConnection(key[1], key[2])
    PROVE  Inv'
  <1>. DEFINE gone == IF key[1] = "sender"
                      THEN {key, <<"flow", key[2]>>, <<"source", key[2]>>} ELSE {key}
  <1>1. key = <<key[1], key[2]>> /\ key[1] \in {"sender", "receiver"}
    BY DEF Inv, KeysWhole
  <1>2. /\ conn' = Without(conn, {key})
        /\ res' = Without(res, gone)
        /\ UpdateNodeInterfaces(res[key].bindings, <<>>)
        /\ configs' = Without(configs, {key})
        /\ defaults' = Without(defaults, gone)
        /\ app' = Without(app, {key})
        /\ torn' = torn \ {key}
    BY <1>1 DEF RemoveConnection
  <1>3. /\ DOMAIN conn' = DOMAIN conn \ {key}
        /\ DOMAIN configs' = DOMAIN configs \ {key}
        /\ DOMAIN app' = DOMAIN app \ {key}
        /\ DOMAIN res' = DOMAIN res \ gone
        /\ DOMAIN defaults' = DOMAIN defaults \ gone
        /\ \A i \in DOMAIN res' : res'[i] = res[i]
        /\ \A k \in DOMAIN conn' : conn'[k] = conn[k]
        /\ \A k \in DOMAIN configs' : configs'[k] = configs[k]
        /\ \A k \in DOMAIN app' : app'[k] = app[k]
    BY <1>2 DEF Without
  <1>4. KeysWhole'
    BY <1>3 DEF Inv, KeysWhole
  <1>5. ResourcesWhole'
    <2>1. CASE key[1] = "sender"
      <3>1. gone = {key} \cup {<<t, key[2]>> : t \in {"source", "flow"}}
        BY <2>1
      <3>2. \A k \in DOMAIN configs : k[1] = "sender" /\ k[2] = key[2] => k = key
        BY <1>1, <2>1 DEF Inv, KeysWhole
      <3>3. \A k \in DOMAIN configs : k \in gone => k = key
        BY <1>1, <2>1, <3>1 DEF Inv, KeysWhole
      <3>. HIDE DEF gone
      <3>4. DOMAIN configs' \cup {<<t, k[2]>> : t \in {"source", "flow"},
                                        k \in {j \in DOMAIN configs' : j[1] = "sender"}}
            = DOMAIN res \ gone
        <4>1. ASSUME NEW x \in DOMAIN res \ gone
              PROVE  x \in DOMAIN configs' \cup {<<t, k[2]>> : t \in {"source", "flow"},
                                        k \in {j \in DOMAIN configs' : j[1] = "sender"}}
          BY <1>3, <3>1 DEF Inv, ResourcesWhole
        <4>2. ASSUME NEW x \in DOMAIN configs' PROVE x \in DOMAIN res \ gone
          BY <1>3, <3>3 DEF Inv, ResourcesWhole
        <4>3. ASSUME NEW t \in {"source", "flow"}, NEW k \in DOMAIN configs', k[1] = "sender"
              PROVE  <<t, k[2]>> \in DOMAIN res \ gone
          <5>1. k \in DOMAIN configs /\ k # key /\ k[2] # key[2]
            BY <1>3, <3>2, <4>3
          <5>2. <<t, k[2]>> \in DOMAIN res
            BY <4>3, <5>1 DEF Inv, ResourcesWhole
          <5>3. <<t, k[2]>> \notin gone
            BY <1>1, <2>1, <3>1, <5>1
          <5>. QED  BY <5>2, <5>3
        <4>. QED  BY <4>1, <4>2, <4>3
      <3>. QED  BY <1>3, <3>4 DEF Inv, ResourcesWhole
    <2>2. CASE key[1] = "receiver"
      <3>1. gone = {key}
        BY <2>2
      <3>2. \A t \in {"source", "flow"}, k \in DOMAIN configs : <<t, k[2]>> # key
        BY <1>1, <2>2
      <3>. HIDE DEF gone
      <3>. QED  BY <1>3, <2>2, <3>1, <3>2 DEF Inv, ResourcesWhole
    <2>. QED  BY <1>1, <2>1, <2>2
  <1>6. \A i \in DOMAIN res' : ResShape(res'[i])
    BY <1>3 DEF Inv, ResShape
  <1>7. DOMAIN conn' = DOMAIN configs' /\ DOMAIN configs' \subseteq DOMAIN res'
        /\ DOMAIN app' = DOMAIN configs'
    BY <1>4, <1>5 DEF ResourcesWhole, KeysWhole
  <1>8. Listing'
    BY <1>2, <1>3, <1>7, ListingRemoved DEF Inv
  <1>9. ASSUME NEW k \in DOMAIN conn' PROVE Agrees(k)'
    BY <1>2, <1>3, <1>7, KeptAgrees DEF Inv, Kept
  <1>. QED  BY <1>4, <1>5, <1>6, <1>8, <1>9 DEF Inv

-----------------------------------------------------------------------------
(* Activation. *)

\* A step that changes one connection, and only the subscription of its resource.
ConnectionOnly(key) ==
    /\ UNCHANGED <<settings, refCounts, interfaces>>
    /\ DOMAIN conn' = DOMAIN conn /\ DOMAIN res' = DOMAIN res /\ DOMAIN app' = DOMAIN app
    /\ \A i \in DOMAIN res : ResShape(res'[i]) /\ res'[i].bindings = res[i].bindings
    /\ \A k \in DOMAIN conn \ {key} :
          /\ conn'[k] = conn[k] /\ res'[k] = res[k] /\ app'[k] = app[k]
          /\ k \in torn => k \in torn'

\* Such a step preserves the invariant when that connection agrees after it.
LEMMA ConnectionStep ==
    ASSUME Inv, NEW key \in DOMAIN configs, ConnectionOnly(key), Agrees(key)'
    PROVE  Inv'
  <1>1. /\ DOMAIN conn' = DOMAIN conn /\ DOMAIN res' = DOMAIN res /\ DOMAIN app' = DOMAIN app
        /\ UNCHANGED <<configs, defaults, refCounts, interfaces>>
    BY DEF ConnectionOnly, settings
  <1>2. ResourcesWhole' /\ KeysWhole'
    BY <1>1 DEF Inv, ResourcesWhole, KeysWhole
  <1>3. \A i \in DOMAIN res' : ResShape(res'[i])
    BY <1>1 DEF ConnectionOnly
  <1>4. DOMAIN configs \subseteq DOMAIN res
    BY DEF Inv, ResourcesWhole
  <1>5. Listing'
    BY <1>1, <1>4, ListingUnchanged DEF Inv, ConnectionOnly
  <1>6. ASSUME NEW k \in DOMAIN conn' PROVE Agrees(k)'
    <2>1. CASE k = key
      BY <2>1
    <2>2. CASE k # key
      <3>1. Kept(k)
        BY <1>1, <2>2 DEF ConnectionOnly, Kept
      <3>. QED  BY <1>1, <3>1, KeptAgrees DEF Inv
    <2>. QED  BY <2>1, <2>2
  <1>. QED  BY <1>2, <1>3, <1>5, <1>6 DEF Inv

\* The key of a connection has a resource and a state of the application.
LEMMA KeyThere ==
    ASSUME Inv, NEW key \in DOMAIN configs
    PROVE  /\ key \in DOMAIN conn /\ key \in DOMAIN res /\ key \in DOMAIN app
           /\ ConnShape(conn[key]) /\ Agrees(key)
           /\ \A i \in DOMAIN res : ResShape(res[i])
  BY DEF Inv, ResourcesWhole, KeysWhole, Agrees

LEMMA SubscribedOnly ==
    ASSUME Inv, NEW key \in DOMAIN res, NEW on,
           res' = [res EXCEPT ![key].subscribed = on]
    PROVE  /\ DOMAIN res' = DOMAIN res
           /\ \A i \in DOMAIN res : ResShape(res'[i]) /\ res'[i].bindings = res[i].bindings
           /\ \A i \in DOMAIN res \ {key} : res'[i] = res[i]
           /\ res'[key].subscribed = on
  <1>1. \A i \in DOMAIN res : ResShape(res[i])
    BY DEF Inv
  <1>2. /\ DOMAIN res' = DOMAIN res
        /\ \A i \in DOMAIN res \ {key} : res'[i] = res[i]
        /\ res'[key] = [res[key] EXCEPT !.subscribed = on]
    OBVIOUS
  <1>3. /\ ResShape(res'[key]) /\ res'[key].bindings = res[key].bindings
        /\ res'[key].subscribed = on
    BY <1>1, <1>2 DEF ResShape
  <1>. QED  BY <1>1, <1>2, <1>3

\* A PATCH stages and leaves /active alone.
LEMMA PatchStep ==
    ASSUME Inv, NEW key \in DOMAIN configs, NEW s \in Staged, PatchStaged(key, s)
    PROVE  Inv'
  <1>1. PICK staged : conn' = [conn EXCEPT ![key].staged = staged, ![key].pending = TRUE]
    BY DEF PatchStaged
  <1>2. UNCHANGED <<res, settings, refCounts, interfaces, clock, app, torn>>
    BY DEF PatchStaged
  <1>3. /\ DOMAIN conn' = DOMAIN conn
        /\ \A k \in DOMAIN conn \ {key} : conn'[k] = conn[k]
        /\ conn'[key] = [conn[key] EXCEPT !.staged = staged, !.pending = TRUE]
    BY <1>1, KeyThere
  <1>4. /\ ConnShape(conn'[key]) /\ conn'[key].active = conn[key].active
        /\ conn'[key].served = conn[key].served
    BY <1>3, KeyThere DEF ConnShape
  <1>5. ConnectionOnly(key)
    BY <1>2, <1>3, KeyThere DEF ConnectionOnly
  <1>6. Agrees(key)'
    <2>1. Agrees(key) /\ UNCHANGED <<res, configs, app, torn>>
      BY <1>2, KeyThere DEF settings
    <2>2. (key \notin torn => Shared(key))'
      BY <1>4, <2>1 DEF Agrees, Shared, Running
    <2>3. ServesActive(key)'
      BY <1>4, <2>1 DEF Agrees, ServesActive, IsRtpSender
    <2>4. ResolvedAt(key)'
      BY <1>4, <2>1 DEF Agrees, ResolvedAt, Open, Reportable
    <2>. QED  BY <1>4, <2>2, <2>3, <2>4 DEF Agrees
  <1>. QED  BY <1>5, <1>6, ConnectionStep

\* An activation: what was staged is resolved, served and subscribed in one step.
LEMMA ActivateStep ==
    ASSUME Inv, NEW key \in DOMAIN configs, NEW applied \in BOOLEAN,
           ActivateStaged(key, applied)
    PROVE  Inv'
  <1>. DEFINE params == Resolve(key[1], configs[key], conn[key].staged.params)
              active == [on |-> conn[key].staged.on, file |-> conn[key].staged.file,
                         params |-> params]
              served == IF IsRtpSender(key) THEN Served(key, params, clock) ELSE NoFile
  <1>1. /\ conn' = [conn EXCEPT ![key].active = active, ![key].served = served,
                                ![key].pending = FALSE]
        /\ res' = [res EXCEPT ![key].subscribed = conn[key].staged.on]
        /\ UNCHANGED <<settings, refCounts, interfaces, clock>>
    BY DEF ActivateStaged
  <1>2. /\ applied => /\ app' = [app EXCEPT ![key] = Effective(key, active)]
                      /\ torn' = torn \ {key}
        /\ ~applied => torn' = torn \cup {key} /\ app' = app
    BY DEF ActivateStaged
  <1>3. active.on = conn[key].staged.on /\ active.params = params
    OBVIOUS
  <1>4. active = [on |-> active.on, file |-> active.file, params |-> active.params]
    OBVIOUS
  <1>5. served # NoFile => served.params = params
    BY DEF Served
  <1>6. ~IsRtpSender(key) => served = NoFile
    OBVIOUS
  <1>7. /\ Effective(key, active).on <=> active.on /\ (configs[key].transport = "mxl"
                                                      => params[1].flow # NoFile)
        /\ Effective(key, active).on => Effective(key, active).params = params
    <2>. HIDE DEF params
    <2>. QED  BY DEF Effective, Off
  <1>8. /\ DOMAIN conn' = DOMAIN conn
        /\ \A k \in DOMAIN conn \ {key} : conn'[k] = conn[k]
        /\ conn'[key] = [conn[key] EXCEPT !.active = active, !.served = served,
                                          !.pending = FALSE]
    <2>. HIDE DEF active, served
    <2>. QED  BY <1>1, KeyThere
  <1>9. ConnShape(conn'[key]) /\ conn'[key].active = active /\ conn'[key].served = served
    <2>. HIDE DEF active, served
    <2>. QED  BY <1>4, <1>8, KeyThere DEF ConnShape
  <1>10. /\ DOMAIN res' = DOMAIN res
         /\ \A i \in DOMAIN res : ResShape(res'[i]) /\ res'[i].bindings = res[i].bindings
         /\ \A i \in DOMAIN res \ {key} : res'[i] = res[i]
         /\ res'[key].subscribed = conn[key].staged.on
    BY <1>1, KeyThere, SubscribedOnly
  <1>. HIDE DEF active, served, params
  <1>11. ConnectionOnly(key)
    BY <1>1, <1>2, <1>8, <1>10, KeyThere DEF ConnectionOnly, Inv, ResourcesWhole
  <1>12. (key \notin torn => Shared(key))'
    <2>. SUFFICES ASSUME applied PROVE Shared(key)'
      BY <1>2
    <2>1. app'[key] = Effective(key, active)
      BY <1>2, KeyThere
    <2>2. configs'[key] = configs[key]
      BY <1>1 DEF settings
    <2>3. Running(key)' <=> active.on /\ (configs[key].transport = "mxl"
                                              => params[1].flow # NoFile)
      BY <1>3, <1>9, <2>2 DEF Running
    <2>. QED  BY <1>3, <1>7, <1>9, <1>10, <2>1, <2>3 DEF Shared
  <1>13. ServesActive(key)'
    <2>1. configs'[key] = configs[key]
      BY <1>1 DEF settings
    <2>. QED  BY <1>3, <1>5, <1>6, <1>9, <2>1 DEF ServesActive, IsRtpSender
  <1>14. ResolvedAt(key)'
    <2>. SUFFICES ASSUME configs[key].transport = "rtp", NEW leg \in DOMAIN params,
                         params[leg].dst = AutoParam
                  PROVE  FALSE
      BY <1>1, <1>3, <1>9 DEF ResolvedAt, settings
    <2>1. params = ResolveRtp(key[1], configs[key], conn[key].staged.params)
      BY DEF params, Resolve
    <2>. QED  BY <2>1 DEF ResolveRtp, AutoParam
  <1>15. Agrees(key)'
    BY <1>9, <1>12, <1>13, <1>14 DEF Agrees
  <1>. QED  BY <1>11, <1>15, ConnectionStep

\* A report of an RTP connection: /active and what the application runs change together.
LEMMA ReportRtpStep ==
    ASSUME Inv, NEW key \in DOMAIN configs, NEW file \in Files \cup {NoFile},
           Reportable(key, file), configs[key].transport = "rtp", ReportRtp(key, file),
           UNCHANGED <<settings, refCounts, interfaces>>
    PROVE  Inv'
  <1>. DEFINE on == file # NoFile
  <1>1. PICK params : params = IF on THEN TransportParams(key[1], file)
                                     ELSE conn[key].active.params
    OBVIOUS
  <1>2. PICK active, ck :
            /\ active.on <=> on
            /\ active = [on |-> active.on, file |-> active.file, params |-> params]
            /\ conn' = [conn EXCEPT
                   ![key].active = active,
                   ![key].served = IF IsRtpSender(key) THEN Served(key, params, ck) ELSE @]
            /\ res' = [res EXCEPT ![key].subscribed = active.on]
            /\ app' = [app EXCEPT ![key] = Reported(file, params)]
            /\ torn' = torn \ {key}
    <2>. DEFINE a == [on |-> on, params |-> params,
                      file |-> IF on /\ key[1] = "receiver" THEN file ELSE conn[key].active.file]
                c == IF key[1] = "sender" /\ on THEN NodeClock(file) ELSE clock
    <2>1. /\ a.on <=> on
          /\ a = [on |-> a.on, file |-> a.file, params |-> params]
      OBVIOUS
    <2>2. /\ conn' = [conn EXCEPT
                 ![key].active = a,
                 ![key].served = IF IsRtpSender(key) THEN Served(key, params, c) ELSE @]
          /\ res' = [res EXCEPT ![key].subscribed = a.on]
          /\ app' = [app EXCEPT ![key] = Reported(file, params)]
          /\ torn' = torn \ {key}
      BY <1>1 DEF ReportRtp
    <2>. HIDE DEF a, c, on
    <2>. QED  BY <2>1, <2>2
  <1>3. /\ Reported(file, params).on <=> on
        /\ on => Reported(file, params).params = params
    BY DEF Reported, Off
  <1>4. PICK served : served = IF IsRtpSender(key) THEN Served(key, params, ck)
                               ELSE conn[key].served
    OBVIOUS
  <1>5. IsRtpSender(key) => served.params = params
    BY <1>4 DEF Served
  <1>. HIDE DEF on
  <1>6. /\ DOMAIN conn' = DOMAIN conn
        /\ \A k \in DOMAIN conn \ {key} : conn'[k] = conn[k]
        /\ conn'[key] = [conn[key] EXCEPT !.active = active, !.served = served]
    BY <1>2, <1>4, KeyThere DEF ConnShape
  <1>7. /\ conn'[key].active = active /\ conn'[key].served = served
        /\ ConnShape(conn'[key]) /\ active.params = params
    <2>1. active.params = params
      BY <1>2
    <2>2. active = [on |-> active.on, file |-> active.file, params |-> active.params]
      BY <1>2, <2>1
    <2>. QED  BY <1>6, <2>1, <2>2, KeyThere DEF ConnShape
  <1>8. /\ DOMAIN res' = DOMAIN res
        /\ \A i \in DOMAIN res : ResShape(res'[i]) /\ res'[i].bindings = res[i].bindings
        /\ \A i \in DOMAIN res \ {key} : res'[i] = res[i]
        /\ res'[key].subscribed = active.on
    BY <1>2, KeyThere, SubscribedOnly
  <1>9. ConnectionOnly(key)
    <2>1. /\ DOMAIN app' = DOMAIN app
          /\ \A k \in DOMAIN conn \ {key} : app'[k] = app[k] /\ (k \in torn => k \in torn')
      BY <1>2, KeyThere DEF Inv, ResourcesWhole, KeysWhole
    <2>. QED  BY <1>6, <1>8, <2>1 DEF ConnectionOnly, Inv, ResourcesWhole
  <1>10. UNCHANGED configs
    BY DEF settings
  <1>11. Shared(key)'
    <2>1. app'[key] = Reported(file, params)
      BY <1>2, KeyThere
    <2>2. Running(key)' <=> active.on
      BY <1>7, <1>10 DEF Running
    <2>. QED  BY <1>2, <1>3, <1>7, <1>8, <2>1, <2>2 DEF Shared
  <1>12. ServesActive(key)'
    BY <1>4, <1>5, <1>7, <1>10, KeyThere DEF ServesActive, IsRtpSender, Agrees
  <1>13. ResolvedAt(key)'
    <2>1. CASE on
      <3>1. TransportParams(key[1], file) = params
        BY <1>1, <2>1
      <3>2. file \in Files /\ file.transport = "rtp"
        BY <2>1 DEF Reportable, on
      <3>3. Open(key, params)'
        BY <1>10, <3>1, <3>2 DEF Open, Reportable
      <3>. QED  BY <1>7, <3>3 DEF ResolvedAt
    <2>2. CASE ~on
      <3>1. params = conn[key].active.params
        BY <1>1, <2>2
      <3>. QED  BY <1>7, <1>10, <3>1, KeyThere DEF ResolvedAt, Agrees, Open, Reportable
    <2>. QED  BY <2>1, <2>2
  <1>14. Agrees(key)'
    BY <1>7, <1>11, <1>12, <1>13 DEF Agrees
  <1>. QED  BY <1>9, <1>14, ConnectionStep

\* A report of an MXL connection: a flow without an id throws after the enable.
LEMMA ReportMxlStep ==
    ASSUME Inv, NEW key \in DOMAIN configs, NEW file,
           configs[key].transport # "rtp", ReportMxl(key, file),
           UNCHANGED <<settings, refCounts, interfaces>>
    PROVE  Inv'
  <1>. DEFINE on == file # NoFile
  <1>1. UNCHANGED configs
    BY DEF settings
  <1>2. ~IsRtpSender(key) /\ conn[key].served = NoFile
    BY KeyThere DEF IsRtpSender, Agrees, ServesActive
  <1>3. CASE on => file.flow # NoFile
    <2>1. PICK active :
              /\ active.on <=> on
              /\ active = [on |-> active.on, file |-> active.file, params |-> active.params]
              /\ on => active.params[1].flow = file.flow
              /\ conn' = [conn EXCEPT ![key].active = active]
              /\ res' = [res EXCEPT ![key].subscribed = active.on]
              /\ app' = [app EXCEPT ![key] = Reported(file, active.params)]
              /\ torn' = torn \ {key}
      <3>. DEFINE a == [conn[key].active EXCEPT !.on = on,
                           !.params = IF on THEN <<[mxlDomain |-> file.mxlDomain,
                                                    flow |-> file.flow]>> ELSE @]
      <3>1. conn[key].active = [on |-> conn[key].active.on, file |-> conn[key].active.file,
                                params |-> conn[key].active.params]
        BY KeyThere DEF ConnShape
      <3>2. /\ a.on <=> on
            /\ a = [on |-> a.on, file |-> a.file, params |-> a.params]
            /\ on => a.params[1].flow = file.flow
        <4>1. a.on <=> on
          BY <3>1
        <4>2. a = [on |-> a.on, file |-> a.file, params |-> a.params]
          <5>1. PICK params : a = [conn[key].active EXCEPT !.on = on, !.params = params]
            BY <3>1
          <5>. HIDE DEF a, on
          <5>. QED  BY <3>1, <5>1
        <4>3. on => a.params = <<[mxlDomain |-> file.mxlDomain, flow |-> file.flow]>>
          BY <3>1
        <4>. QED  BY <4>1, <4>2, <4>3
      <3>3. /\ conn' = [conn EXCEPT ![key].active = a]
            /\ res' = [res EXCEPT ![key].subscribed = on]
            /\ app' = [app EXCEPT ![key] = Reported(file, a.params)]
            /\ torn' = torn \ {key}
        BY <1>3 DEF ReportMxl
      <3>4. a.on = on
        BY <3>1
      <3>. HIDE DEF a, on
      <3>. QED  BY <3>2, <3>3, <3>4
    <2>2. /\ Reported(file, active.params).on <=> on
          /\ on => Reported(file, active.params).params = active.params
      BY DEF Reported, Off
    <2>. HIDE DEF on
    <2>3. /\ DOMAIN conn' = DOMAIN conn
          /\ \A k \in DOMAIN conn \ {key} : conn'[k] = conn[k]
          /\ conn'[key] = [conn[key] EXCEPT !.active = active]
      BY <2>1, KeyThere
    <2>4. /\ conn'[key].active = active /\ conn'[key].served = conn[key].served
          /\ ConnShape(conn'[key])
      <3>1. active = [on |-> active.on, file |-> active.file, params |-> active.params]
        BY <2>1
      <3>. QED  BY <2>3, <3>1, KeyThere DEF ConnShape
    <2>5. /\ DOMAIN res' = DOMAIN res
          /\ \A i \in DOMAIN res : ResShape(res'[i]) /\ res'[i].bindings = res[i].bindings
          /\ \A i \in DOMAIN res \ {key} : res'[i] = res[i]
          /\ res'[key].subscribed = active.on
      BY <2>1, KeyThere, SubscribedOnly
    <2>6. ConnectionOnly(key)
      BY <2>1, <2>3, <2>5, KeyThere DEF ConnectionOnly, Inv, ResourcesWhole
    <2>7. Shared(key)'
      <3>1. app'[key] = Reported(file, active.params)
        BY <2>1, KeyThere
      <3>2. Running(key)' <=> active.on
        BY <1>1, <1>3, <2>1, <2>4 DEF Running
      <3>. QED  BY <2>1, <2>2, <2>4, <2>5, <3>1, <3>2 DEF Shared
    <2>8. ServesActive(key)' /\ ResolvedAt(key)'
      BY <1>1, <1>2, <2>4 DEF ServesActive, IsRtpSender, ResolvedAt
    <2>9. Agrees(key)'
      BY <2>4, <2>7, <2>8 DEF Agrees
    <2>. QED  BY <2>6, <2>9, ConnectionStep
  <1>4. CASE on /\ file.flow = NoFile
    <2>1. /\ conn' = [conn EXCEPT ![key].active.on = TRUE]
          /\ torn' = torn \cup {key}
          /\ UNCHANGED <<res, app>>
      BY <1>4 DEF ReportMxl
    <2>2. PICK active : active = [conn[key].active EXCEPT !.on = TRUE]
      OBVIOUS
    <2>3. active = [on |-> active.on, file |-> active.file, params |-> active.params]
      BY <2>2, KeyThere DEF ConnShape
    <2>4. /\ DOMAIN conn' = DOMAIN conn
          /\ \A k \in DOMAIN conn \ {key} : conn'[k] = conn[k]
          /\ conn'[key] = [conn[key] EXCEPT !.active = active]
      BY <2>1, <2>2, KeyThere
    <2>5. /\ conn'[key].active = active /\ conn'[key].served = conn[key].served
          /\ ConnShape(conn'[key])
      BY <2>3, <2>4, KeyThere DEF ConnShape
    <2>6. ConnectionOnly(key)
      BY <2>1, <2>4, KeyThere DEF ConnectionOnly
    <2>7. ServesActive(key)' /\ ResolvedAt(key)'
      BY <1>1, <1>2, <2>5 DEF ServesActive, IsRtpSender, ResolvedAt
    <2>8. Agrees(key)'
      BY <2>1, <2>5, <2>7 DEF Agrees
    <2>. QED  BY <2>6, <2>8, ConnectionStep
  <1>. QED  BY <1>3, <1>4 DEF ReportMxl

-----------------------------------------------------------------------------
(* The theorems. *)

LEMMA NextInv ==
    ASSUME Inv, [Next]_vars
    PROVE  Inv'
  <1>1. CASE UNCHANGED vars
    <2>1. UNCHANGED <<res, conn, configs, defaults, refCounts, interfaces, clock, app, torn>>
      BY <1>1 DEF vars
    <2>2. ResourcesWhole' /\ KeysWhole'
      BY <2>1 DEF Inv, ResourcesWhole, KeysWhole
    <2>3. Listing'
      BY <2>1, ListingUnchanged DEF Inv
    <2>4. ASSUME NEW k \in DOMAIN conn' PROVE Agrees(k)'
      BY <2>1, KeptAgrees DEF Inv, Kept
    <2>. QED  BY <2>1, <2>2, <2>3, <2>4 DEF Inv
  <1>2. ASSUME NEW file \in Files, NEW side \in {"sender", "receiver"}, NEW ck,
               InsertAll(side, file, ck)
        PROVE  Inv'
    BY <1>2, AddStep
  <1>3. ASSUME NEW file \in Files,
               \/ AddRtpSender(file) \/ AddRtpReceiver(file)
               \/ AddMxlSender(file) \/ AddMxlReceiver(file)
        PROVE  Inv'
    <2>1. PICK rtpClock : rtpClock = NodeClock(file)
      OBVIOUS
    <2>2. PICK ck : ck = clock
      OBVIOUS
    <2>3. \/ InsertAll("sender", file, rtpClock) \/ InsertAll("receiver", file, ck)
          \/ InsertAll("sender", file, ck)
      BY <1>3, <2>1, <2>2 DEF AddRtpSender, AddRtpReceiver, AddMxlSender, AddMxlReceiver
    <2>. QED  BY <1>2, <2>3
  <1>4. ASSUME NEW key \in DOMAIN configs, RemoveConnection(key[1], key[2])
        PROVE  Inv'
    BY <1>4, RemoveStep
  <1>5. ASSUME NEW key \in DOMAIN configs, NEW s \in Staged, PatchStaged(key, s)
        PROVE  Inv'
    BY <1>5, PatchStep
  <1>6. ASSUME NEW key \in DOMAIN configs, NEW applied \in BOOLEAN,
               ActivateStaged(key, applied)
        PROVE  Inv'
    BY <1>6, ActivateStep
  <1>7. ASSUME NEW key \in DOMAIN configs, NEW file \in Files \cup {NoFile},
               Reportable(key, file), Report(key, file)
        PROVE  Inv'
    <2>1. CASE configs[key].transport = "rtp"
      BY <1>7, <2>1, ReportRtpStep DEF Report
    <2>2. CASE configs[key].transport # "rtp"
      BY <1>7, <2>2, ReportMxlStep DEF Report
    <2>. QED  BY <2>1, <2>2
  <1>. QED  BY <1>1, <1>3, <1>4, <1>5, <1>6, <1>7 DEF Next

LEMMA InvHolds == Spec => []Inv
  BY InitInv, NextInv, PTL DEF Spec

\* A Sender has its Source, Flow, connection and configuration, a Receiver its
\* connection and configuration, and nothing is left of a failed add or of a remove:
\* the rollback when insert_resource throws between the inserts of
\* node_implementation_add_sender_, and the remove functions.
THEOREM ResourcesWholeHolds == Spec => []ResourcesWhole
  BY InvHolds, InvImplies, PTL

\* The Node lists an interface once, while a leg is bound to it, and counts the legs:
\* update_node_interfaces never counts a reference twice and gives none up that it
\* did not count.
THEOREM InterfacesBoundHolds == Spec => []InterfacesBound
  BY InvHolds, InvImplies, PTL

\* /active, /transportfile, the subscription and the application agree on every
\* connection, and "auto" is in /active only where the application reported it: the
\* activation handler, the setters of nmos-cpp and
\* node_implementation_activate_connection.
THEOREM ConnectionAgreesHolds == Spec => []ConnectionAgrees
  BY InvHolds, InvImplies, PTL
=============================================================================
