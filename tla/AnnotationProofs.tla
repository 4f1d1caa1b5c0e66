-------------------------- MODULE AnnotationProofs --------------------------
(*************************************************************************)
(* Annotations for every set of keys and annotations and every limit:    *)
(* CheckpointInv and FlushedIsSaved of AnnotationStore for every number  *)
(* of updates and faults; LiveViewCurrent and ShownIsStored of           *)
(* AnnotationEvents for every number of sessions, objects, handlers,     *)
(* updates and streams and every buffer.                                 *)
(*                                                                       *)
(* LiveViewCurrent is inductive over the types. ShownIsStored is not:    *)
(* what a resource will show is decided when add_to_server reads the     *)
(* store (ReadIsStored) or when a patch is merged (MergedIsStored),      *)
(* steps before the resource shows it.                                   *)
(*                                                                       *)
(* CheckpointInv and FlushedIsSaved are not inductive. AInv says of      *)
(* every file that may become the checkpoint, the ones a loss of power   *)
(* may bring back included, that it is a whole map on the disk (Files),  *)
(* of the write under way which map it writes (InFlight), that an image  *)
(* of this process that has the number of the current update has the     *)
(* current map (Current), and who waits for which write (WriterAt,       *)
(* Messages, Asked).                                                     *)
(*************************************************************************)
EXTENDS AnnotationStore, AnnotationEvents, FiniteSetTheorems, TLAPS

-----------------------------------------------------------------------------
(* The inductive invariant of AnnotationEvents. *)

StreamRecord == [state : {"none", "live", "closed", "dropped"},
                 queue : Seq([key : Keys, annotation : Annotation]), capacity : Nat]

HandlerTyped(x) ==
    /\ x.pc \in {"idle", "update", "add", "read", "added"}
    /\ x.pc \in {"add", "read", "added"} => x.obj \in Objects /\ x.session \in Sessions

Typed ==
    /\ DOMAIN entries \subseteq Keys /\ \A k \in DOMAIN entries : entries[k] \in Annotation
    /\ DOMAIN data \subseteq Keys
    /\ merging = NoMerge \/ merging.key \in DOMAIN data
    /\ owner \in [Objects -> Sessions \cup {NoSession}]
    /\ open \subseteq Sessions
    /\ DOMAIN handler = Handlers /\ \A h \in Handlers : HandlerTyped(handler[h])
    /\ stream \in [Sessions -> StreamRecord]
    /\ DOMAIN view = Sessions
    /\ stale \in BOOLEAN

Shows(d, e) == d = Effective(e, Default)

\* Every resource shows some annotation over its defaults.
DataAt(k) ==
    \E e \in Annotation : /\ Shows(data[k], e)
                          /\ ~stale /\ merging.key # k => e = EntryOf(entries, k)

DataIsStored == \A k \in DOMAIN data : DataAt(k)

\* What modify_resource will show is what the callback has stored.
MergedIsStored ==
    merging # NoMerge => \E e \in Annotation :
        /\ Shows(merging.merged, e)
        /\ ~stale => e = EntryOf(entries, merging.key)

\* What add_to_server has read is still stored.
ReadKey(r, k, store, changed) ==
    \E e \in Annotation : /\ r.create[k] = AnnotationAtCreate(e)
                          /\ ~changed => e = EntryOf(store, k)

ReadOf(r, store, changed) ==
    r.pc = "read" => \A k \in KeysOf(r.obj) : ReadKey(r, k, store, changed)

ReadAt(h) == ReadOf(handler[h], entries, stale)

ReadIsStored == \A h \in Handlers : ReadAt(h)

EventsInv == Typed /\ DataIsStored /\ MergedIsStored /\ ReadIsStored /\ LiveViewCurrent

-----------------------------------------------------------------------------
(* Keys and annotations. *)

LEMMA AnnotationIs ==
    ASSUME NEW e \in Annotation
    PROVE  /\ e = [text |-> e.text, tags |-> e.tags]
           /\ e.text \in [TextFields -> Texts \cup {Absent}] /\ e.tags \in SUBSET Tags
BY DEF Annotation

LEMMA BlankIs == BlankAnnotation \in Annotation
BY DEF BlankAnnotation, Annotation

LEMMA EntryTyped ==
    ASSUME NEW S, \A k \in DOMAIN S : S[k] \in Annotation, NEW k
    PROVE  EntryOf(S, k) \in Annotation
BY BlankIs DEF EntryOf

\* The keys are those of the Node and of the objects, and NoMerge has none of them.
LEMMA KeysAre ==
    /\ NoMerge.key \notin Keys
    /\ \A o \in Objects : KeysOf(o) \subseteq Keys
    /\ NodeKeys \subseteq Keys
BY DEF Keys, NodeKeys, KeysOf, TypesForSide, NoMerge

\* A resource that is created shows what add_to_server read.
LEMMA CreateShows ==
    ASSUME NEW e \in Annotation
    PROVE  Shows(MergePatch(Default, AnnotationAtCreate(e), Default), e)
<1> DEFINE p == AnnotationAtCreate(e)
<1>1. ASSUME NEW f \in TextFields
      PROVE  (CASE p.text[f].op = "unchanged" -> Default.text[f]
                [] p.text[f].op = "reset" -> Default.text[f]
                [] p.text[f].op = "set" -> p.text[f].value)
             = IF e.text[f] = Absent THEN Default.text[f] ELSE e.text[f]
  <2>1. p.text[f] = CreateOperation(f, e)
    BY DEF AnnotationAtCreate
  <2> HIDE DEF p
  <2>2. CASE e.text[f] = Absent
    BY <2>1, <2>2 DEF CreateOperation, Unchanged
  <2>3. CASE e.text[f] # Absent
    BY <2>1, <2>3 DEF CreateOperation, Set
  <2> QED BY <2>2, <2>3
<1>2. (CASE p.tags.op = "unchanged" -> Default.tags
         [] p.tags.op = "reset" -> Default.tags \cap ReadOnlyTags
         [] p.tags.op = "set" -> (Default.tags \ p.tags.value.clear) \cup p.tags.value.write)
      = e.tags \cup Default.tags
  <2>1. CASE e.tags = {}
    <3>1. p.tags = Unchanged
      BY <2>1 DEF AnnotationAtCreate
    <3> HIDE DEF p
    <3> QED BY <2>1, <3>1 DEF Unchanged
  <2>2. CASE e.tags # {}
    <3>1. p.tags = Set([write |-> e.tags, clear |-> {}])
      BY <2>2 DEF AnnotationAtCreate
    <3> HIDE DEF p
    <3> QED BY <3>1 DEF Set
  <2> QED BY <2>1, <2>2
<1>3. MergePatch(Default, p, Default).text =
        [f \in TextFields |-> IF e.text[f] = Absent THEN Default.text[f] ELSE e.text[f]]
  <2> HIDE DEF p
  <2> QED BY <1>1 DEF MergePatch
<1>4. MergePatch(Default, p, Default) =
        [text |-> MergePatch(Default, p, Default).text, tags |-> e.tags \cup Default.tags]
  <2> HIDE DEF p
  <2> QED BY <1>2 DEF MergePatch
<1> QED BY <1>3, <1>4 DEF Effective, Shows

LEMMA AcceptedIs ==
    ASSUME NEW p \in Accepted
    PROVE  /\ \A f \in TextFields : \/ p.text[f].op = "unchanged"
                                    \/ p.text[f].op = "reset"
                                    \/ p.text[f].op = "set" /\ p.text[f].value \in Texts
           /\ \/ p.tags.op = "unchanged"
              \/ p.tags.op = "reset"
              \/ /\ p.tags.op = "set"
                 /\ p.tags.value.write \subseteq Tags \cup ReadOnlyTags
                 /\ p.tags.value.write \cap ReadOnlyTags = {}
                 /\ p.tags.value.clear \cap ReadOnlyTags = {}
<1>1. p.text \in [TextFields -> TextOp] /\ p.tags \in TagsPatch /\ PatchValid(p)
  BY DEF Accepted, Patch
<1>2. \A op \in TextOp : op.op = "unchanged" \/ op.op = "reset" \/ (op.op = "set" /\ op.value \in Texts)
  BY DEF TextOp, Unchanged, Reset, Set
<1>3. \/ p.tags.op = "unchanged"
      \/ p.tags.op = "reset"
      \/ p.tags.op = "set" /\ p.tags.value.write \subseteq Tags \cup ReadOnlyTags
  BY <1>1 DEF TagsPatch, Unchanged, Reset, Set
<1> QED BY <1>1, <1>2, <1>3 DEF PatchValid

\* The callback reports, as an update of the store, what the patch made of the
\* resource: if the store had what the resource showed, it has it again.
LEMMA PatchShows ==
    ASSUME NEW d \in Annotation, NEW e \in Annotation, NEW p \in Accepted, NEW m,
           m = MergePatch(Effective(d, Default), p, Default)
    PROVE  /\ ApplyUpdate(e, CallbackUpdate(m, p)) \in Annotation
           /\ Shows(m, ApplyUpdate(d, CallbackUpdate(m, p)))
<1> DEFINE u == CallbackUpdate(m, p)
           w == Effective(d, Default)
<1>1. /\ w.tags = d.tags \cup ReadOnlyTags
      /\ \A f \in TextFields : w.text[f] = IF d.text[f] = Absent THEN Default.text[f] ELSE d.text[f]
  BY DEF Effective, Default
<1>2. /\ \A f \in TextFields : d.text[f] \in Texts \cup {Absent} /\ e.text[f] \in Texts \cup {Absent}
      /\ d.tags \subseteq Tags /\ e.tags \subseteq Tags
  BY AnnotationIs
<1>3. /\ m.text = [f \in TextFields |-> CASE p.text[f].op = "unchanged" -> w.text[f]
                                          [] p.text[f].op = "reset" -> Default.text[f]
                                          [] p.text[f].op = "set" -> p.text[f].value]
      /\ m.tags = CASE p.tags.op = "unchanged" -> w.tags
                    [] p.tags.op = "reset" -> w.tags \cap ReadOnlyTags
                    [] p.tags.op = "set" -> (w.tags \ p.tags.value.clear) \cup p.tags.value.write
      /\ m = [text |-> m.text, tags |-> m.tags]
  BY DEF MergePatch
<1>4. /\ \A f \in TextFields : u.text[f] = IF p.text[f].op = "set" THEN Set(m.text[f]) ELSE p.text[f]
      /\ u.tags = IF p.tags.op = "set" THEN Set(m.tags \ ReadOnlyTags) ELSE p.tags
  BY DEF CallbackUpdate
<1> HIDE DEF u, w
<1>5. ASSUME NEW f \in TextFields
      PROVE  /\ ApplyField(e.text[f], u.text[f], Absent) \in Texts \cup {Absent}
             /\ m.text[f] = IF ApplyField(d.text[f], u.text[f], Absent) = Absent
                            THEN Default.text[f] ELSE ApplyField(d.text[f], u.text[f], Absent)
  <2>1. CASE p.text[f].op = "unchanged"
    BY <2>1, <1>1, <1>2, <1>3, <1>4 DEF ApplyField
  <2>2. CASE p.text[f].op = "reset"
    BY <2>2, <1>3, <1>4 DEF ApplyField
  <2>3. CASE p.text[f].op = "set" /\ p.text[f].value \in Texts
    <3>1. m.text[f] \in Texts /\ m.text[f] # Absent
      BY <2>3, <1>3, FormsAssumption
    <3>2. u.text[f] = Set(m.text[f])
      BY <2>3, <1>4
    <3>3. \A old : ApplyField(old, u.text[f], Absent) = m.text[f]
      BY <3>2 DEF ApplyField, Set
    <3> QED BY <3>1, <3>3
  <2> QED BY <2>1, <2>2, <2>3, AcceptedIs
<1>6. /\ ApplyField(e.tags, u.tags, {}) \subseteq Tags
      /\ m.tags = ApplyField(d.tags, u.tags, {}) \cup ReadOnlyTags
  <2>1. CASE p.tags.op = "unchanged"
    BY <2>1, <1>1, <1>2, <1>3, <1>4 DEF ApplyField
  <2>2. CASE p.tags.op = "reset"
    <3>1. m.tags = ReadOnlyTags
      BY <2>2, <1>1, <1>3
    <3> QED BY <2>2, <3>1, <1>4 DEF ApplyField
  <2>3. CASE /\ p.tags.op = "set"
             /\ p.tags.value.write \subseteq Tags \cup ReadOnlyTags
             /\ p.tags.value.write \cap ReadOnlyTags = {}
             /\ p.tags.value.clear \cap ReadOnlyTags = {}
    <3>1. m.tags = (w.tags \ p.tags.value.clear) \cup p.tags.value.write
      BY <2>3, <1>3
    <3>2. m.tags \ ReadOnlyTags \subseteq Tags /\ ReadOnlyTags \subseteq m.tags
      BY <2>3, <3>1, <1>1, <1>2
    <3>3. \A old : ApplyField(old, u.tags, {}) = m.tags \ ReadOnlyTags
      BY <2>3, <1>4 DEF ApplyField, Set
    <3> QED BY <3>2, <3>3
  <2> QED BY <2>1, <2>2, <2>3, AcceptedIs
<1>7. ApplyUpdate(e, u) \in Annotation
  BY <1>5, <1>6 DEF ApplyUpdate, Annotation
<1>8. Shows(m, ApplyUpdate(d, u))
  <2>1. Effective(ApplyUpdate(d, u), Default) =
          [text |-> [f \in TextFields |->
                       IF ApplyField(d.text[f], u.text[f], Absent) = Absent
                       THEN Default.text[f] ELSE ApplyField(d.text[f], u.text[f], Absent)],
           tags |-> ApplyField(d.tags, u.tags, {}) \cup ReadOnlyTags]
    BY DEF Effective, ApplyUpdate, Default
  <2>2. m.text = [f \in TextFields |->
                    IF ApplyField(d.text[f], u.text[f], Absent) = Absent
                    THEN Default.text[f] ELSE ApplyField(d.text[f], u.text[f], Absent)]
    BY <1>3, <1>5
  <2> QED BY <2>1, <2>2, <1>3, <1>6 DEF Shows
<1> QED BY <1>7, <1>8 DEF u

\* The store after an update.
LEMMA StoreAppliedIs ==
    ASSUME NEW S, NEW k, NEW u, NEW T, T = StoreApplied(S, k, u)
    PROVE  /\ EntryOf(T, k) = ApplyUpdate(EntryOf(S, k), u)
           /\ \A j : j # k => EntryOf(T, j) = EntryOf(S, j)
           /\ DOMAIN T \subseteq DOMAIN S \cup {k}
           /\ \A j \in DOMAIN T : T[j] = IF j = k THEN ApplyUpdate(EntryOf(S, k), u) ELSE S[j]
<1> DEFINE e == ApplyUpdate(EntryOf(S, k), u)
<1>1. T = IF e = BlankAnnotation THEN Without(S, k) ELSE With(S, k, e)
  BY DEF StoreApplied
<1> HIDE DEF e
<1>2. CASE e = BlankAnnotation
  BY <1>1, <1>2 DEF Without, EntryOf, e
<1>3. CASE e # BlankAnnotation
  BY <1>1, <1>3 DEF With, EntryOf, e
<1> QED BY <1>2, <1>3

-----------------------------------------------------------------------------
(* Streams. *)

\* SetToSeq names every element.
LEMMA ListAll ==
    ASSUME NEW K, IsFiniteSet(K), NEW q, q = SetToSeq(K)
    PROVE  /\ q \in Seq(K)
           /\ \A k \in K : \E i \in 1 .. Len(q) : q[i] = k
           /\ \A i, j \in 1 .. Len(q) : q[i] = q[j] => i = j
<1> DEFINE n == Cardinality(K)
<1>1. n \in Nat /\ ExistsBijection(1 .. n, K)
  BY FS_CardinalityType
<1>2. \E f \in [1 .. n -> K] : IsInjective(f)
  BY <1>1 DEF ExistsBijection, Bijection, Injection, IsInjective
<1>3. q \in [1 .. n -> K] /\ IsInjective(q)
  BY <1>2 DEF SetToSeq
<1>4. Cardinality(Range(q)) = n /\ Range(q) \subseteq K
  <2>1. q \in Bijection(1 .. n, Range(q))
    BY <1>3 DEF Bijection, Injection, Surjection, IsInjective, Range
  <2>2. ExistsBijection(1 .. n, Range(q))
    BY <2>1 DEF ExistsBijection
  <2> QED BY <1>1, <1>3, <2>2, FS_CountingElements DEF Range
<1>5. Range(q) = K
  BY <1>4, FS_Subset
<1> HIDE DEF n
<1>6. q \in Seq(K) /\ Len(q) = n
  BY <1>1, <1>3
<1>7. \A k \in K : \E i \in 1 .. n : q[i] = k
  BY <1>3, <1>5 DEF Range
<1>8. \A i, j \in 1 .. n : q[i] = q[j] => i = j
  BY <1>3 DEF IsInjective
<1> QED BY <1>6, <1>7, <1>8

LEMMA KeysFinite == IsFiniteSet(Keys)
<1> DEFINE T == {"node", "device", "source", "flow", "sender", "receiver"}
<1>1. IsFiniteSet(T)
  <2> DEFINE A == {"node"} \cup {"device"}
             B == A \cup {"source"}
             C == B \cup {"flow"}
             D == C \cup {"sender"}
             E == D \cup {"receiver"}
  <2>1. IsFiniteSet({"node"})
    BY FS_Singleton
  <2>2. IsFiniteSet(A)
    BY <2>1, FS_AddElement
  <2>3. IsFiniteSet(B)
    BY <2>2, FS_AddElement
  <2>4. IsFiniteSet(C)
    BY <2>3, FS_AddElement
  <2>5. IsFiniteSet(D)
    BY <2>4, FS_AddElement
  <2>6. IsFiniteSet(E)
    BY <2>5, FS_AddElement
  <2>7. T = E
    OBVIOUS
  <2> QED BY <2>6, <2>7
<1>2. IsFiniteSet(Objects \cup {NodeObj})
  BY EventsAssumption, FS_AddElement
<1>3. IsFiniteSet(T \X (Objects \cup {NodeObj}))
  BY <1>1, <1>2, FS_Product
<1>4. Keys \subseteq T \X (Objects \cup {NodeObj})
  BY DEF Keys, NodeKeys, KeysOf, TypesForSide
<1> QED BY <1>3, <1>4, FS_Subset

\* An event for each key.
LEMMA EventsAre ==
    ASSUME Typed, NEW K, K \subseteq Keys, NEW q, q = Events(K)
    PROVE  /\ q \in Seq([key : Keys, annotation : Annotation])
           /\ \A i \in 1 .. Len(q) : q[i].key \in K /\ q[i] = Event(q[i].key, entries)
           /\ \A k \in K : \E i \in 1 .. Len(q) :
                 q[i].key = k /\ \A j \in i + 1 .. Len(q) : q[j].key # k
<1> DEFINE keys == SetToSeq(K)
<1>1. IsFiniteSet(K)
  BY KeysFinite, FS_Subset
<1>2. /\ keys \in Seq(K)
      /\ \A k \in K : \E i \in 1 .. Len(keys) : keys[i] = k
      /\ \A i, j \in 1 .. Len(keys) : keys[i] = keys[j] => i = j
  BY <1>1, ListAll
<1>3. q = [i \in 1 .. Len(keys) |-> Event(keys[i], entries)]
  BY DEF Events
<1> HIDE DEF keys
<1>4. Len(keys) \in Nat /\ \A i \in 1 .. Len(keys) : keys[i] \in K
  BY <1>2
<1>5. \A k : Event(k, entries).key = k /\ Event(k, entries).annotation \in Annotation
             /\ Event(k, entries) = [key |-> k, annotation |-> EntryOf(entries, k)]
  BY EntryTyped DEF Typed, Event
<1>6. \A k \in K : Event(k, entries) \in [key : Keys, annotation : Annotation]
  BY <1>5
<1>7. /\ q \in Seq([key : Keys, annotation : Annotation]) /\ Len(q) = Len(keys)
      /\ \A i \in 1 .. Len(q) : q[i] = Event(keys[i], entries)
  BY <1>3, <1>4, <1>6
<1>8. \A i \in 1 .. Len(q) : q[i].key = keys[i]
  BY <1>5, <1>7
<1>9. ASSUME NEW k \in K
      PROVE  \E i \in 1 .. Len(q) : q[i].key = k /\ \A j \in i + 1 .. Len(q) : q[j].key # k
  <2>1. PICK i \in 1 .. Len(keys) : keys[i] = k
    BY <1>2
  <2>2. \A j \in i + 1 .. Len(q) : j \in 1 .. Len(keys) /\ j # i
    BY <1>4, <1>7
  <2> QED BY <2>1, <2>2, <1>2, <1>7, <1>8
<1> QED BY <1>4, <1>7, <1>8, <1>9

\* The last word about k, from queue q and view v, is e.
LastWord(q, v, k, e) ==
    \/ \E i \in 1 .. Len(q) : /\ q[i] = [key |-> k, annotation |-> e]
                              /\ \A j \in i + 1 .. Len(q) : q[j].key # k
    \/ /\ \A j \in 1 .. Len(q) : q[j].key # k
       /\ k \in DOMAIN v /\ v[k] = e

LEMMA KnowsIs ==
    \A s, k : Knows(s, k) <=> LastWord(stream[s].queue, view[s], k, EntryOf(entries, k))
BY DEF Knows, LastWord, Event

\* Events about other keys change nothing, an event about k is the last word.
LEMMA WordAppended ==
    ASSUME NEW R, NEW q \in Seq(R), NEW p \in Seq(R), NEW v, NEW k, NEW e,
           \/ LastWord(q, v, k, e) /\ \A i \in 1 .. Len(p) : p[i].key # k
           \/ \E i \in 1 .. Len(p) : /\ p[i] = [key |-> k, annotation |-> e]
                                     /\ \A j \in i + 1 .. Len(p) : p[j].key # k
    PROVE  LastWord(q \o p, v, k, e)
<1> DEFINE r == q \o p
           n == Len(q)
<1>1. /\ n \in Nat /\ Len(p) \in Nat /\ Len(r) = n + Len(p)
      /\ \A i \in 1 .. n : r[i] = q[i]
      /\ \A i \in n + 1 .. n + Len(p) : i - n \in 1 .. Len(p) /\ r[i] = p[i - n]
      /\ \A i \in 1 .. Len(p) : n + i \in 1 .. Len(r) /\ r[n + i] = p[i]
  OBVIOUS
<1> HIDE DEF r, n
<1>2. ASSUME NEW i \in 1 .. Len(p), p[i] = [key |-> k, annotation |-> e],
             \A j \in i + 1 .. Len(p) : p[j].key # k
      PROVE  LastWord(r, v, k, e)
  <2>1. \A j \in n + i + 1 .. Len(r) : j - n \in i + 1 .. Len(p) /\ r[j] = p[j - n]
    BY <1>1
  <2>2. n + i \in 1 .. Len(r) /\ r[n + i] = [key |-> k, annotation |-> e]
    BY <1>1, <1>2
  <2> QED BY <2>1, <2>2, <1>2 DEF LastWord
<1>3. ASSUME LastWord(q, v, k, e), \A i \in 1 .. Len(p) : p[i].key # k
      PROVE  LastWord(r, v, k, e)
  <2>1. \A j \in n + 1 .. Len(r) : r[j].key # k
    BY <1>1, <1>3
  <2>2. CASE \E i \in 1 .. n : /\ q[i] = [key |-> k, annotation |-> e]
                               /\ \A j \in i + 1 .. n : q[j].key # k
    <3>1. PICK i \in 1 .. n : /\ q[i] = [key |-> k, annotation |-> e]
                              /\ \A j \in i + 1 .. n : q[j].key # k
      BY <2>2
    <3>2. \A j \in i + 1 .. Len(r) : r[j].key # k
      <4> TAKE j \in i + 1 .. Len(r)
      <4>1. CASE j <= n
        BY <4>1, <3>1, <1>1
      <4>2. CASE j > n
        BY <4>2, <2>1, <1>1
      <4> QED BY <4>1, <4>2, <1>1
    <3>3. i \in 1 .. Len(r) /\ r[i] = [key |-> k, annotation |-> e]
      BY <3>1, <1>1
    <3> QED BY <3>2, <3>3 DEF LastWord
  <2>3. CASE (\A j \in 1 .. n : q[j].key # k) /\ k \in DOMAIN v /\ v[k] = e
    <3>1. \A j \in 1 .. Len(r) : r[j].key # k
      <4> TAKE j \in 1 .. Len(r)
      <4>1. CASE j <= n
        BY <4>1, <2>3, <1>1
      <4>2. CASE j > n
        BY <4>2, <2>1, <1>1
      <4> QED BY <4>1, <4>2, <1>1
    <3> QED BY <3>1, <2>3 DEF LastWord
  <2> QED BY <2>2, <2>3, <1>3 DEF LastWord, n
<1> QED BY <1>2, <1>3 DEF r

\* Reading an event moves it from the queue to the view.
LEMMA WordRead ==
    ASSUME NEW R, NEW q \in Seq(R), q # <<>>, NEW v, NEW k, NEW e, LastWord(q, v, k, e)
    PROVE  LastWord(Tail(q), With(v, Head(q).key, Head(q).annotation), k, e)
<1> DEFINE t == Tail(q)
           w == With(v, Head(q).key, Head(q).annotation)
<1>1. /\ Len(q) \in Nat /\ Len(q) >= 1 /\ Len(t) = Len(q) - 1 /\ Head(q) = q[1]
      /\ \A i \in 1 .. Len(t) : i + 1 \in 2 .. Len(q) /\ t[i] = q[i + 1]
      /\ \A i \in 2 .. Len(q) : i - 1 \in 1 .. Len(t) /\ t[i - 1] = q[i]
  OBVIOUS
<1>2. /\ q[1].key = k => k \in DOMAIN w /\ w[k] = q[1].annotation
      /\ q[1].key # k /\ k \in DOMAIN v => k \in DOMAIN w /\ w[k] = v[k]
  BY <1>1 DEF With
<1> HIDE DEF t, w
<1>3. ASSUME \E i \in 1 .. Len(q) : /\ q[i] = [key |-> k, annotation |-> e]
                                    /\ \A j \in i + 1 .. Len(q) : q[j].key # k
      PROVE  LastWord(t, w, k, e)
  <2>1. PICK i \in 1 .. Len(q) : /\ q[i] = [key |-> k, annotation |-> e]
                                 /\ \A j \in i + 1 .. Len(q) : q[j].key # k
    BY <1>3
  <2>2. \A j \in i .. Len(t) : t[j].key # k
    <3> TAKE j \in i .. Len(t)
    <3>1. j \in 1 .. Len(t) /\ j + 1 \in i + 1 .. Len(q)
      BY <1>1
    <3> QED BY <3>1, <2>1, <1>1
  <2>3. CASE i = 1
    <3>1. q[1].key = k /\ q[1].annotation = e
      BY <2>1, <2>3
    <3>2. \A j \in 1 .. Len(t) : t[j].key # k
      BY <2>2, <2>3
    <3> QED BY <3>1, <3>2, <1>2 DEF LastWord
  <2>4. CASE i > 1
    <3>1. i - 1 \in 1 .. Len(t) /\ t[i - 1] = [key |-> k, annotation |-> e]
      BY <2>4, <2>1, <1>1
    <3>2. \A j \in (i - 1) + 1 .. Len(t) : t[j].key # k
      BY <2>2, <1>1
    <3> QED BY <3>1, <3>2 DEF LastWord
  <2> QED BY <2>3, <2>4
<1>4. ASSUME \A j \in 1 .. Len(q) : q[j].key # k, k \in DOMAIN v, v[k] = e
      PROVE  LastWord(t, w, k, e)
  <2>1. q[1].key # k /\ \A j \in 1 .. Len(t) : t[j].key # k
    BY <1>4, <1>1
  <2> QED BY <2>1, <1>2, <1>4 DEF LastWord
<1> QED BY <1>3, <1>4 DEF LastWord, t, w

-----------------------------------------------------------------------------
(* Steps. *)

\* What a client knows is untouched by a step that neither stores nor sends, and
\* lets its session see no more.
LEMMA ViewsKept ==
    ASSUME EventsInv, entries' = entries,
           \A s \in open' : stream'[s].state \in {"live", "deaf"} =>
               /\ s \in open /\ stream'[s] = stream[s] /\ view'[s] = view[s]
               /\ \A o \in Objects : owner'[o] = s => owner[o] = s
    PROVE  LiveViewCurrent'
<1> SUFFICES ASSUME NEW s \in open', stream'[s].state \in {"live", "deaf"}, NEW k \in Visible(s)'
             PROVE  Knows(s, k)'
  BY DEF LiveViewCurrent
<1>1. k \in Visible(s)
  BY DEF Visible
<1>2. Knows(s, k)
  BY <1>1 DEF EventsInv, LiveViewCurrent
<1> QED BY <1>2 DEF Knows

\* What resources show is untouched by a step that leaves store and libnvnmos
\* alone.
LEMMA ShownKept ==
    ASSUME EventsInv, UNCHANGED <<entries, data, merging, stale>>,
           \A h \in Handlers : handler'[h].pc = "read" => handler'[h] = handler[h]
    PROVE  DataIsStored' /\ MergedIsStored' /\ ReadIsStored'
<1>1. DataIsStored' /\ MergedIsStored'
  BY DEF EventsInv, DataIsStored, DataAt, MergedIsStored
<1>2. ReadIsStored'
  <2> SUFFICES ASSUME NEW h \in Handlers PROVE ReadAt(h)'
    BY DEF ReadIsStored
  <2>1. CASE handler'[h] = handler[h]
    BY <2>1 DEF EventsInv, ReadIsStored, ReadAt
  <2>2. CASE handler'[h].pc # "read"
    BY <2>2 DEF ReadAt, ReadOf
  <2> QED BY <2>1, <2>2
<1> QED BY <1>1, <1>2

\* One stream changes.
LEMMA StreamTyped ==
    ASSUME Typed, NEW s, NEW st \in StreamRecord, stream' = [stream EXCEPT ![s] = st]
    PROVE  /\ stream' \in [Sessions -> StreamRecord]
           /\ \A t \in Sessions : t # s => stream'[t] = stream[t]
           /\ s \in Sessions => stream'[s] = st
BY DEF Typed

LEMMA NoStreamTyped ==
    \A x \in {"none", "closed", "dropped"} : [NoStream EXCEPT !.state = x] \in StreamRecord
<1>1. \A x : [NoStream EXCEPT !.state = x] = [state |-> x, queue |-> <<>>, capacity |-> 0]
  BY DEF NoStream
<1>2. <<>> \in Seq([key : Keys, annotation : Annotation])
  OBVIOUS
<1> HIDE DEF NoStream
<1> TAKE x \in {"none", "closed", "dropped"}
<1>3. [state |-> x, queue |-> <<>>, capacity |-> 0] \in StreamRecord
  BY <1>2 DEF StreamRecord
<1> QED BY <1>1, <1>3

LEMMA QueueTyped ==
    ASSUME NEW x \in StreamRecord, NEW q \in Seq([key : Keys, annotation : Annotation]),
           NEW y, y = [x EXCEPT !.queue = q]
    PROVE  y \in StreamRecord /\ y.queue = q /\ y.state = x.state /\ y.capacity = x.capacity
BY DEF StreamRecord

\* send_annotation delivers all events or closes the stream.
LEMMA SentTyped ==
    ASSUME NEW st \in StreamRecord, NEW w \in Seq([key : Keys, annotation : Annotation]),
           NEW y, y = Sent(st, w)
    PROVE  /\ y \in StreamRecord
           /\ y.state = "live" => st.state = "live" /\ y.queue = st.queue \o w
<1>1. Closed \in StreamRecord /\ Closed.state # "live"
  BY NoStreamTyped DEF Closed, NoStream
<1>2. st.queue \o w \in Seq([key : Keys, annotation : Annotation])
  BY DEF StreamRecord
<1>3. PICK z : z = [st EXCEPT !.queue = st.queue \o w]
  OBVIOUS
<1>4. z \in StreamRecord /\ z.queue = st.queue \o w
  BY <1>2, <1>3, QueueTyped
<1> QED BY <1>1, <1>3, <1>4 DEF Sent

LEMMA SubscribeKeeps ==
    ASSUME EventsInv, NEW s \in Sessions, SubscribeAnnotations(s)
    PROVE  EventsInv'
<1> DEFINE q == Events(Visible(s))
<1>1. Visible(s) \subseteq Keys
  BY KeysAre DEF Visible
<1>2. /\ q \in Seq([key : Keys, annotation : Annotation])
      /\ \A i \in 1 .. Len(q) : q[i].key \in Visible(s) /\ q[i] = Event(q[i].key, entries)
      /\ \A k \in Visible(s) : \E i \in 1 .. Len(q) :
            q[i].key = k /\ \A j \in i + 1 .. Len(q) : q[j].key # k
  BY <1>1, EventsAre DEF EventsInv
<1>3. PICK c \in Nat : stream' = [stream EXCEPT ![s] = [state |-> "live", queue |-> q,
                                                         capacity |-> c]]
  <2>1. Len(q) \in Nat
    BY <1>2
  <2> QED BY <2>1, EventsAssumption DEF SubscribeAnnotations, Snapshot
<1> HIDE DEF q
<1>4. [state |-> "live", queue |-> q, capacity |-> c] \in StreamRecord
  BY <1>2 DEF StreamRecord
<1>5. /\ stream' \in [Sessions -> StreamRecord]
      /\ \A t \in Sessions : t # s => stream'[t] = stream[t]
      /\ stream'[s].queue = q
  BY <1>3, <1>4, StreamTyped DEF EventsInv
<1>6. /\ DOMAIN view' = Sessions /\ \A t \in Sessions : t # s => view'[t] = view[t]
      /\ UNCHANGED <<entries, data, merging, owner, open, handler, stale>>
  BY DEF SubscribeAnnotations, EventsInv, Typed
<1>7. Typed'
  BY <1>5, <1>6 DEF EventsInv, Typed
<1>8. LiveViewCurrent'
  <2> SUFFICES ASSUME NEW t \in open', stream'[t].state \in {"live", "deaf"}, NEW k \in Visible(t)'
               PROVE  Knows(t, k)'
    BY DEF LiveViewCurrent
  <2>1. t \in Sessions /\ t \in open /\ k \in Visible(t)
    BY <1>6 DEF EventsInv, Typed, Visible
  <2>2. CASE t = s
    <3>1. PICK i \in 1 .. Len(q) : q[i].key = k /\ \A j \in i + 1 .. Len(q) : q[j].key # k
      BY <2>1, <2>2, <1>2
    <3>2. q[i] = Event(k, entries')
      BY <3>1, <1>2, <1>6
    <3> QED BY <2>2, <3>1, <3>2, <1>5 DEF Knows
  <2>3. CASE t # s
    <3>1. Knows(t, k)
      BY <2>1, <2>3, <1>5 DEF EventsInv, LiveViewCurrent
    <3> QED BY <3>1, <2>1, <2>3, <1>5, <1>6 DEF Knows
  <2> QED BY <2>2, <2>3
<1> QED BY <1>6, <1>7, <1>8, ShownKept DEF EventsInv

LEMMA ReadKeeps ==
    ASSUME EventsInv, NEW s \in Sessions, ReadEvent(s)
    PROVE  EventsInv'
<1> DEFINE q == stream[s].queue
<1>1. /\ q \in Seq([key : Keys, annotation : Annotation]) /\ q # <<>>
      /\ stream[s] \in StreamRecord
  BY DEF EventsInv, Typed, StreamRecord, ReadEvent
<1>2. stream' = [stream EXCEPT ![s] = [stream[s] EXCEPT !.queue = Tail(q)]]
  BY DEF ReadEvent, EventsInv, Typed
<1>3. /\ [stream[s] EXCEPT !.queue = Tail(q)] \in StreamRecord
      /\ [stream[s] EXCEPT !.queue = Tail(q)].queue = Tail(q)
      /\ [stream[s] EXCEPT !.queue = Tail(q)].state = stream[s].state
  <2>1. Tail(q) \in Seq([key : Keys, annotation : Annotation])
    BY <1>1
  <2>2. PICK y : y = [stream[s] EXCEPT !.queue = Tail(q)]
    OBVIOUS
  <2>3. y \in StreamRecord /\ y.queue = Tail(q) /\ y.state = stream[s].state
    BY <2>1, <2>2, <1>1, QueueTyped
  <2> QED BY <2>2, <2>3
<1>4. /\ stream' \in [Sessions -> StreamRecord]
      /\ \A t \in Sessions : t # s => stream'[t] = stream[t]
      /\ stream'[s].queue = Tail(q) /\ stream'[s].state = stream[s].state
  BY <1>2, <1>3, StreamTyped DEF EventsInv
<1>5. /\ DOMAIN view' = Sessions /\ \A t \in Sessions : t # s => view'[t] = view[t]
      /\ view'[s] = With(view[s], Head(q).key, Head(q).annotation)
      /\ UNCHANGED <<entries, data, merging, owner, open, handler, stale>>
  BY DEF ReadEvent, EventsInv, Typed
<1> HIDE DEF q
<1>6. Typed'
  BY <1>4, <1>5 DEF EventsInv, Typed
<1>7. LiveViewCurrent'
  <2> SUFFICES ASSUME NEW t \in open', stream'[t].state \in {"live", "deaf"}, NEW k \in Visible(t)'
               PROVE  Knows(t, k)'
    BY DEF LiveViewCurrent
  <2>1. t \in Sessions /\ t \in open /\ k \in Visible(t) /\ stream[t].state \in {"live", "deaf"}
    BY <1>4, <1>5 DEF EventsInv, Typed, Visible
  <2>2. Knows(t, k)
    BY <2>1 DEF EventsInv, LiveViewCurrent
  <2>3. CASE t = s
    <3>1. LastWord(q, view[s], k, EntryOf(entries, k))
      BY <2>2, <2>3, KnowsIs DEF q
    <3>2. LastWord(Tail(q), view'[s], k, EntryOf(entries', k))
      BY <3>1, <1>1, <1>5, WordRead
    <3> QED BY <3>2, <2>3, <1>4 DEF Knows, LastWord, Event
  <2>4. CASE t # s
    BY <2>1, <2>2, <2>4, <1>4, <1>5 DEF Knows
  <2> QED BY <2>3, <2>4
<1> QED BY <1>5, <1>6, <1>7, ShownKept DEF EventsInv

LEMMA DropKeeps ==
    ASSUME EventsInv, NEW s \in Sessions,
           StreamDropped(s) \/ ReapAnnotationSubscription(s) \/ CloseSession(s)
    PROVE  EventsInv'
<1>1. PICK st \in StreamRecord : /\ stream' = [stream EXCEPT ![s] = st]
                                 /\ st.state = "live" => st = stream[s] /\ view' = view
  <2>1. CASE StreamDropped(s)
    BY <2>1, NoStreamTyped DEF StreamDropped, StreamRecord, NoStream
  <2>2. CASE ReapAnnotationSubscription(s)
    <3>1. stream[s] \in StreamRecord
      BY DEF EventsInv, Typed
    <3>2. PICK y : y = [stream[s] EXCEPT !.state = IF @ = "dropped" THEN "none" ELSE @]
      OBVIOUS
    <3>3. y \in StreamRecord /\ (y.state = "live" => y = stream[s])
      BY <3>1, <3>2 DEF StreamRecord
    <3>4. stream' = [stream EXCEPT ![s] = y] /\ view' = view
      BY <2>2, <3>2 DEF ReapAnnotationSubscription, EventsInv, Typed
    <3> QED BY <3>3, <3>4
  <2>3. CASE CloseSession(s)
    <3>1. Closed \in StreamRecord /\ Closed.state = "closed"
      BY NoStreamTyped DEF Closed, NoStream, StreamRecord
    <3>2. NoStream \in StreamRecord /\ NoStream.state = "none"
      BY DEF NoStream, StreamRecord
    <3> QED BY <2>3, <3>1, <3>2 DEF CloseSession
  <2> QED BY <2>1, <2>2, <2>3
<1>2. /\ stream' \in [Sessions -> StreamRecord]
      /\ \A t \in Sessions : t # s => stream'[t] = stream[t]
      /\ stream'[s] = st
  BY <1>1, StreamTyped DEF EventsInv
<1>3. /\ DOMAIN view' = Sessions /\ \A t \in Sessions : t # s => view'[t] = view[t]
      /\ UNCHANGED <<entries, data, merging, handler, stale>>
      /\ open' \subseteq open
      /\ owner' \in [Objects -> Sessions \cup {NoSession}]
      /\ \A o \in Objects : owner'[o] \in {owner[o], NoSession}
  BY DEF StreamDropped, ReapAnnotationSubscription, CloseSession, EventsInv, Typed
<1>4. Typed'
  BY <1>2, <1>3 DEF EventsInv, Typed
<1>5. LiveViewCurrent'
  <2>1. ASSUME NEW t \in open', stream'[t].state \in {"live", "deaf"}
        PROVE  /\ t \in open /\ stream'[t] = stream[t] /\ view'[t] = view[t]
               /\ \A o \in Objects : owner'[o] = t => owner[o] = t
    <3>1. t \in Sessions /\ t \in open
      BY <1>3 DEF EventsInv, Typed
    <3>2. stream'[t].state = "live"
      BY <3>1, <2>1, <1>2 DEF StreamRecord
    <3> QED BY <3>1, <3>2, <1>1, <1>2, <1>3, EventsAssumption
  <2> QED BY <2>1, <1>3, ViewsKept
<1> QED BY <1>3, <1>4, <1>5, ShownKept DEF EventsInv

\* Requests that only move on.
LEMMA HandlerKeeps ==
    ASSUME EventsInv, NEW h \in Handlers, NEW r, HandlerTyped(r), r.pc # "read",
           handler' = [handler EXCEPT ![h] = r],
           UNCHANGED <<entries, data, merging, owner, open, stream, view, stale>>
    PROVE  EventsInv'
<1>1. \A g \in Handlers : handler'[g] = IF g = h THEN r ELSE handler[g]
  BY DEF EventsInv, Typed
<1>2. Typed'
  BY <1>1 DEF EventsInv, Typed
<1>3. LiveViewCurrent'
  BY ViewsKept
<1> QED BY <1>1, <1>2, <1>3, ShownKept DEF EventsInv

LEMMA IdleTyped == HandlerTyped(Idle) /\ Idle.pc # "read"
BY DEF HandlerTyped, Idle

LEMMA PrepareUpdateKeeps ==
    ASSUME EventsInv, NEW h \in Handlers, NEW s, NEW k, PrepareAnnotationUpdate(h, s, k)
    PROVE  EventsInv'
BY HandlerKeeps DEF PrepareAnnotationUpdate, HandlerTyped

LEMMA UpdateFailsKeeps ==
    ASSUME EventsInv, NEW h \in Handlers, UpdateAnnotationFails(h)
    PROVE  EventsInv'
BY HandlerKeeps, IdleTyped DEF UpdateAnnotationFails

LEMMA PrepareAddKeeps ==
    ASSUME EventsInv, NEW h \in Handlers, NEW s \in Sessions, NEW o \in Objects,
           PrepareAddResource(h, s, o)
    PROVE  EventsInv'
BY HandlerKeeps DEF PrepareAddResource, HandlerTyped

\* add_to_server reads what is stored.
LEMMA ReadStoredKeeps ==
    ASSUME EventsInv, NEW h \in Handlers, ReadStored(h)
    PROVE  EventsInv'
<1> DEFINE c == [k \in KeysOf(handler[h].obj) |-> AnnotationAtCreate(EntryOf(entries, k))]
           r == [pc |-> "read", obj |-> handler[h].obj, session |-> handler[h].session,
                 create |-> c]
<1>1. \A g \in Handlers : handler'[g] = IF g = h THEN r ELSE handler[g]
  BY DEF EventsInv, Typed, ReadStored
<1>2. /\ DOMAIN handler' = Handlers /\ handler[h].pc = "add"
      /\ UNCHANGED <<entries, data, merging, owner, open, stream, view, stale>>
  BY DEF EventsInv, Typed, ReadStored
<1>3. HandlerTyped(r) /\ r.pc = "read" /\ r.obj = handler[h].obj /\ r.create = c
  BY <1>2 DEF EventsInv, Typed, HandlerTyped
<1>4. \A k \in KeysOf(handler[h].obj) : c[k] = AnnotationAtCreate(EntryOf(entries, k))
                                          /\ EntryOf(entries, k) \in Annotation
  BY EntryTyped DEF EventsInv, Typed
<1> HIDE DEF c, r
<1>5. Typed'
  BY <1>1, <1>2, <1>3 DEF EventsInv, Typed
<1>6. DataIsStored' /\ MergedIsStored'
  BY <1>2 DEF EventsInv, DataIsStored, DataAt, MergedIsStored
<1>7. ReadIsStored'
  <2> SUFFICES ASSUME NEW g \in Handlers PROVE ReadAt(g)'
    BY DEF ReadIsStored
  <2>1. CASE g = h
    <3>1. PICK x : x = r
      OBVIOUS
    <3>2. \A k \in KeysOf(x.obj) : ReadKey(x, k, entries, stale)
      BY <3>1, <1>3, <1>4 DEF ReadKey
    <3>3. ReadOf(x, entries, stale)
      BY <3>2 DEF ReadOf
    <3> QED BY <2>1, <3>1, <3>3, <1>1, <1>2 DEF ReadAt
  <2>2. CASE g # h
    BY <2>2, <1>1, <1>2 DEF EventsInv, ReadIsStored, ReadAt
  <2> QED BY <2>1, <2>2
<1>8. LiveViewCurrent'
  BY <1>2, ViewsKept
<1> QED BY <1>5, <1>6, <1>7, <1>8 DEF EventsInv

\* MergeAndPublish: the patch is merged, stored and sent.
LEMMA MergeKeeps ==
    ASSUME EventsInv, NEW k \in Keys, NEW p \in Accepted, MergeAndPublish(k, p),
           UNCHANGED <<data, owner, open, view>>,
           DOMAIN handler' = Handlers, \A h \in Handlers : handler'[h] \in {handler[h], Idle}
    PROVE  EventsInv'
<1> DEFINE m == MergePatch(data[k], p, Default)
           u == CallbackUpdate(m, p)
           e == EntryOf(entries, k)
           new == ApplyUpdate(e, u)
<1>1. /\ merging = NoMerge /\ k \in DOMAIN data /\ entries' = StoreApplied(entries, k, u)
      /\ stream' = Published(k, entries') /\ merging' = [key |-> k, merged |-> m]
      /\ stale' = (stale \/ \E h \in Handlers :
                               handler[h].pc = "read" /\ k \in KeysOf(handler[h].obj))
  BY DEF MergeAndPublish
<1>2. e \in Annotation
  BY EntryTyped DEF EventsInv, Typed
<1>3. k # NoMerge.key /\ merging.key = NoMerge.key
  BY <1>1, KeysAre
<1>4. PICK d \in Annotation : /\ data[k] = Effective(d, Default)
                              /\ ~stale => d = e
  BY <1>1, <1>3 DEF EventsInv, DataIsStored, DataAt, Shows
<1>5. new \in Annotation /\ ApplyUpdate(d, u) \in Annotation /\ Shows(m, ApplyUpdate(d, u))
  BY <1>2, <1>4, PatchShows
<1>6. /\ EntryOf(entries', k) = new
      /\ \A j : j # k => EntryOf(entries', j) = EntryOf(entries, j)
      /\ DOMAIN entries' \subseteq DOMAIN entries \cup {k}
      /\ \A j \in DOMAIN entries' : entries'[j] = IF j = k THEN new ELSE entries[j]
  BY <1>1, StoreAppliedIs
<1>7. merging'.key = k /\ merging'.merged = m /\ merging' # NoMerge
  <2>1. merging'.key = k /\ merging'.merged = m
    BY <1>1
  <2> QED BY <2>1, <1>3
<1> HIDE DEF m, u, e, new
<1>8. MergedIsStored'
  <2>1. ~stale' => ApplyUpdate(d, u) = new
    BY <1>1, <1>4 DEF new
  <2> QED BY <2>1, <1>5, <1>6, <1>7 DEF MergedIsStored
<1>9. DataIsStored'
  <2> SUFFICES ASSUME NEW j \in DOMAIN data PROVE DataAt(j)'
    BY DEF DataIsStored
  <2>1. PICK x \in Annotation : /\ Shows(data[j], x)
                                /\ ~stale /\ merging.key # j => x = EntryOf(entries, j)
    BY DEF EventsInv, DataIsStored, DataAt
  <2>2. merging.key # j
    BY <1>3, KeysAre DEF EventsInv, Typed
  <2>3. ~stale' /\ merging'.key # j => x = EntryOf(entries', j)
    BY <2>1, <2>2, <1>1, <1>6, <1>7
  <2> QED BY <2>1, <2>3 DEF DataAt, Shows
<1>10. ReadIsStored'
  <2> SUFFICES ASSUME NEW h \in Handlers PROVE ReadAt(h)'
    BY DEF ReadIsStored
  <2>1. CASE handler'[h] = Idle
    BY <2>1, IdleTyped DEF ReadAt, ReadOf
  <2>2. CASE handler'[h] = handler[h] /\ handler[h].pc = "read"
    <3>1. PICK r : r = handler[h]
      OBVIOUS
    <3>2. PICK S : S = entries'
      OBVIOUS
    <3>3. PICK c \in BOOLEAN : c = stale'
      BY <1>1
    <3>4. ReadOf(r, entries, stale) /\ r.pc = "read"
      BY <2>2, <3>1 DEF EventsInv, ReadIsStored, ReadAt
    <3>5. ASSUME NEW j \in KeysOf(r.obj)
          PROVE  ReadKey(r, j, S, c)
      <4>1. PICK x \in Annotation : /\ r.create[j] = AnnotationAtCreate(x)
                                    /\ ~stale => x = EntryOf(entries, j)
        BY <3>4 DEF ReadOf, ReadKey
      <4>2. ~c => ~stale /\ j # k
        BY <3>1, <3>3, <3>4, <1>1
      <4> QED BY <4>1, <4>2, <3>2, <1>6 DEF ReadKey
    <3>6. ReadOf(r, S, c)
      BY <3>5 DEF ReadOf
    <3> QED BY <2>2, <3>1, <3>2, <3>3, <3>6 DEF ReadAt
  <2>3. CASE handler'[h] = handler[h] /\ handler[h].pc # "read"
    BY <2>3 DEF ReadAt, ReadOf
  <2> QED BY <2>1, <2>2, <2>3
<1> DEFINE w == <<[key |-> k, annotation |-> new]>>
<1>11. /\ w \in Seq([key : Keys, annotation : Annotation]) /\ Len(w) = 1
       /\ w[1] = [key |-> k, annotation |-> new]
  BY <1>5
<1>12. /\ stream' \in [Sessions -> StreamRecord]
       /\ \A s \in Sessions :
             stream'[s] = IF s \in Recipients(k) THEN Sent(stream[s], w) ELSE stream[s]
  <2>1. Event(k, entries') = [key |-> k, annotation |-> new]
    BY <1>6 DEF Event
  <2>2. stream' = [s \in Sessions |->
             IF s \in Recipients(k) THEN Sent(stream[s], w) ELSE stream[s]]
    BY <1>1, <2>1 DEF Published
  <2> HIDE DEF w
  <2>3. \A s \in Sessions : Sent(stream[s], w) \in StreamRecord
    BY <1>11, SentTyped DEF EventsInv, Typed
  <2> QED BY <2>2, <2>3 DEF EventsInv, Typed
<1> HIDE DEF w
<1>13. Typed'
  <2>1. DOMAIN entries' \subseteq Keys /\ \A j \in DOMAIN entries' : entries'[j] \in Annotation
    BY <1>5, <1>6 DEF EventsInv, Typed
  <2>2. \A h \in Handlers : HandlerTyped(handler'[h])
    BY IdleTyped DEF EventsInv, Typed
  <2> QED BY <2>1, <2>2, <1>1, <1>7, <1>12 DEF EventsInv, Typed
<1>14. LiveViewCurrent'
  <2> SUFFICES ASSUME NEW s \in open', stream'[s].state \in {"live", "deaf"}, NEW j \in Visible(s)'
               PROVE  Knows(s, j)'
    BY DEF LiveViewCurrent
  <2>1. s \in Sessions /\ s \in open /\ j \in Visible(s) /\ stream[s] \in StreamRecord
    BY DEF EventsInv, Typed, Visible
  <2>2. stream[s].state = "live"
    <3>1. stream[s].state # "deaf" /\ stream'[s].state = "live"
      BY <2>1, <1>12 DEF StreamRecord
    <3>2. CASE s \in Recipients(k)
      BY <3>1, <3>2, <2>1, <1>11, <1>12, SentTyped
    <3>3. CASE s \notin Recipients(k)
      BY <3>1, <3>3, <2>1, <1>12
    <3> QED BY <3>2, <3>3
  <2>3. LastWord(stream[s].queue, view[s], j, EntryOf(entries, j))
    BY <2>1, <2>2, KnowsIs DEF EventsInv, LiveViewCurrent
  <2>4. CASE s \in Recipients(k)
    <3>1. stream'[s].queue = stream[s].queue \o w
      <4>1. stream'[s] = Sent(stream[s], w) /\ stream'[s].state = "live"
        BY <2>1, <2>4, <1>12 DEF StreamRecord
      <4> QED BY <4>1, <2>1, <1>11, SentTyped
    <3>2. /\ w \in Seq([key : Keys, annotation : Annotation]) /\ Len(w) = 1
          /\ w[1] = [key |-> k, annotation |-> new]
          /\ stream[s].queue \in Seq([key : Keys, annotation : Annotation])
      BY <1>11, <2>1 DEF StreamRecord
    <3>3. LastWord(stream[s].queue \o w, view[s], j, EntryOf(entries', j))
      <4>1. CASE j = k
        <5>1. \E i \in 1 .. Len(w) : /\ w[i] = [key |-> j, annotation |-> EntryOf(entries', j)]
                                     /\ \A l \in i + 1 .. Len(w) : w[l].key # j
          BY <4>1, <3>2, <1>6
        <5> QED BY <5>1, <3>2, WordAppended
      <4>2. CASE j # k
        <5>1. \A i \in 1 .. Len(w) : w[i].key # j
          BY <4>2, <3>2
        <5> QED BY <5>1, <2>3, <4>2, <1>6, <3>2, WordAppended
      <4> QED BY <4>1, <4>2
    <3> QED BY <3>1, <3>3 DEF Knows, LastWord, Event
  <2>5. CASE s \notin Recipients(k)
    <3>1. j # k
      BY <2>1, <2>2, <2>5 DEF Recipients, Live, Visible
    <3>2. LastWord(stream'[s].queue, view'[s], j, EntryOf(entries', j))
      BY <3>1, <2>1, <2>3, <2>5, <1>6, <1>12
    <3> QED BY <3>2 DEF Knows, LastWord, Event
  <2> QED BY <2>4, <2>5
<1> QED BY <1>8, <1>9, <1>10, <1>13, <1>14 DEF EventsInv


LEMMA UpdateKeeps ==
    ASSUME EventsInv, NEW h \in Handlers, NEW p \in Accepted, UpdateAnnotationFfi(h, p)
    PROVE  EventsInv'
<1>1. handler[h].key \in Keys
  BY DEF UpdateAnnotationFfi, MergeAndPublish, EventsInv, Typed
<1>2. DOMAIN handler' = Handlers /\ \A g \in Handlers : handler'[g] \in {handler[g], Idle}
  BY DEF UpdateAnnotationFfi, EventsInv, Typed
<1> QED BY <1>1, <1>2, MergeKeeps DEF UpdateAnnotationFfi

\* The resource shows what was merged, and that is stored.
LEMMA ModifyKeeps ==
    ASSUME EventsInv, ModifyResource
    PROVE  EventsInv'
<1>1. /\ merging # NoMerge /\ merging' = NoMerge /\ merging.key \in DOMAIN data
      /\ DOMAIN data' = DOMAIN data
      /\ \A j \in DOMAIN data : data'[j] = IF j = merging.key THEN merging.merged ELSE data[j]
      /\ UNCHANGED <<entries, owner, open, handler, stream, view, stale>>
  BY DEF ModifyResource, EventsInv, Typed
<1>2. Typed'
  BY <1>1 DEF EventsInv, Typed
<1>3. DataIsStored'
  <2> SUFFICES ASSUME NEW j \in DOMAIN data PROVE DataAt(j)'
    BY <1>1 DEF DataIsStored
  <2>1. CASE j = merging.key
    BY <2>1, <1>1 DEF EventsInv, MergedIsStored, DataAt
  <2>2. CASE j # merging.key
    BY <2>2, <1>1 DEF EventsInv, DataIsStored, DataAt
  <2> QED BY <2>1, <2>2
<1>4. MergedIsStored'
  BY <1>1 DEF MergedIsStored
<1>5. ReadIsStored'
  BY <1>1 DEF EventsInv, ReadIsStored, ReadAt
<1>6. LiveViewCurrent'
  BY <1>1, ViewsKept
<1> QED BY <1>2, <1>3, <1>4, <1>5, <1>6 DEF EventsInv

\* The new resources show what was read, and that is stored.
LEMMA AddKeeps ==
    ASSUME EventsInv, NEW h \in Handlers, AddResourceFfi(h)
    PROVE  EventsInv'
<1>1. PICK r : r = handler[h]
  OBVIOUS
<1>2. /\ r.pc = "read" /\ merging = NoMerge
      /\ UNCHANGED <<entries, merging, owner, open, stream, view, stale>>
      /\ HandlerTyped(r)
  BY <1>1 DEF AddResourceFfi, EventsInv, Typed
<1>3. CASE data' = data /\ handler' = [handler EXCEPT ![h] = Idle]
  BY <1>2, <1>3, HandlerKeeps, IdleTyped
<1>4. CASE /\ data' = [k \in DOMAIN data \cup KeysOf(r.obj) |->
                          IF k \in DOMAIN data THEN data[k]
                          ELSE MergePatch(Default, r.create[k], Default)]
           /\ handler' = [handler EXCEPT ![h] = [pc |-> "added", obj |-> r.obj,
                                                 session |-> r.session]]
  <2>1. PICK y : y = [pc |-> "added", obj |-> r.obj, session |-> r.session]
    OBVIOUS
  <2>2. HandlerTyped(y) /\ y.pc # "read"
    BY <2>1, <1>2 DEF HandlerTyped
  <2>3. /\ DOMAIN handler' = Handlers
        /\ \A g \in Handlers : handler'[g] = IF g = h THEN y ELSE handler[g]
    BY <2>1, <1>4 DEF EventsInv, Typed
  <2>4. Typed'
    <3>1. DOMAIN data' \subseteq Keys
      BY <1>2, <1>4, KeysAre DEF EventsInv, Typed, HandlerTyped
    <3>2. \A g \in Handlers : HandlerTyped(handler'[g])
      BY <2>2, <2>3 DEF EventsInv, Typed
    <3> QED BY <3>1, <3>2, <2>3, <1>2 DEF EventsInv, Typed
  <2>5. DataIsStored'
    <3> SUFFICES ASSUME NEW j \in DOMAIN data' PROVE DataAt(j)'
      BY DEF DataIsStored
    <3>1. CASE j \in DOMAIN data
      <4>1. data'[j] = data[j]
        BY <3>1, <1>4
      <4> QED BY <3>1, <4>1, <1>2 DEF EventsInv, DataIsStored, DataAt
    <3>2. CASE j \notin DOMAIN data
      <4>1. j \in KeysOf(r.obj) /\ data'[j] = MergePatch(Default, r.create[j], Default)
        BY <3>2, <1>4
      <4>2. ReadOf(r, entries, stale)
        BY <1>1 DEF EventsInv, ReadIsStored, ReadAt
      <4>3. ReadKey(r, j, entries, stale)
        BY <4>1, <4>2, <1>2 DEF ReadOf
      <4>4. PICK e \in Annotation : /\ r.create[j] = AnnotationAtCreate(e)
                                    /\ ~stale => e = EntryOf(entries, j)
        BY <4>3 DEF ReadKey
      <4>5. Shows(data'[j], e)
        BY <4>1, <4>4, CreateShows
      <4> QED BY <4>4, <4>5, <1>2 DEF DataAt, Shows
    <3> QED BY <3>1, <3>2
  <2>6. MergedIsStored'
    BY <1>2 DEF MergedIsStored
  <2>7. ReadIsStored'
    <3> SUFFICES ASSUME NEW g \in Handlers PROVE ReadAt(g)'
      BY DEF ReadIsStored
    <3>1. CASE g = h
      BY <3>1, <2>2, <2>3 DEF ReadAt, ReadOf
    <3>2. CASE g # h
      BY <3>2, <2>3, <1>2 DEF EventsInv, ReadIsStored, ReadAt
    <3> QED BY <3>1, <3>2
  <2>8. LiveViewCurrent'
    BY <1>2, ViewsKept
  <2> QED BY <2>4, <2>5, <2>6, <2>7, <2>8 DEF EventsInv
<1> QED BY <1>1, <1>3, <1>4 DEF AddResourceFfi, EventsInv, Typed

\* The session sees the new resources, and their annotations are sent.
LEMMA CommitKeeps ==
    ASSUME EventsInv, NEW h \in Handlers, CommitAddResource(h)
    PROVE  EventsInv'
<1>1. PICK s, o : s = handler[h].session /\ o = handler[h].obj
  OBVIOUS
<1>2. s \in Sessions /\ o \in Objects
  BY <1>1 DEF CommitAddResource, EventsInv, Typed, HandlerTyped
<1>3. /\ UNCHANGED <<entries, data, merging, open, view, stale>>
      /\ handler' = [handler EXCEPT ![h] = Idle]
      /\ \/ owner' = owner /\ stream' = stream
         \/ s \in open /\ owner' = [owner EXCEPT ![o] = s] /\ stream' = Emitted(s, o)
  BY <1>1 DEF CommitAddResource
<1>4. CASE owner' = owner /\ stream' = stream
  BY <1>3, <1>4, HandlerKeeps, IdleTyped
<1>5. CASE s \in open /\ owner' = [owner EXCEPT ![o] = s] /\ stream' = Emitted(s, o)
  <2> DEFINE w == Events(KeysOf(o))
  <2>1. KeysOf(o) \subseteq Keys
    BY <1>2, KeysAre
  <2>2. /\ w \in Seq([key : Keys, annotation : Annotation])
        /\ \A i \in 1 .. Len(w) : w[i].key \in KeysOf(o) /\ w[i] = Event(w[i].key, entries)
        /\ \A k \in KeysOf(o) : \E i \in 1 .. Len(w) :
              w[i].key = k /\ \A j \in i + 1 .. Len(w) : w[j].key # k
    BY <2>1, EventsAre DEF EventsInv
  <2>3. stream[s] \in StreamRecord /\ stream[s].queue \in Seq([key : Keys, annotation : Annotation])
    BY <1>2 DEF EventsInv, Typed, StreamRecord
  <2>4. PICK y : y = Sent(stream[s], w)
    OBVIOUS
  <2>5. /\ y \in StreamRecord
        /\ y.state = "live" => stream[s].state = "live" /\ y.queue = stream[s].queue \o w
    BY <2>2, <2>3, <2>4, SentTyped
  <2>6. stream' = [stream EXCEPT ![s] = y]
    BY <1>5, <2>4 DEF Emitted
  <2> HIDE DEF w
  <2>7. /\ stream' \in [Sessions -> StreamRecord] /\ stream'[s] = y
        /\ \A t \in Sessions : t # s => stream'[t] = stream[t]
    BY <2>5, <2>6, <1>2, StreamTyped DEF EventsInv
  <2>8. /\ owner' \in [Objects -> Sessions \cup {NoSession}]
        /\ \A x \in Objects : owner'[x] = IF x = o THEN s ELSE owner[x]
    BY <1>2, <1>5 DEF EventsInv, Typed
  <2>9. DOMAIN handler' = Handlers /\ \A g \in Handlers : handler'[g] \in {handler[g], Idle}
    BY <1>3 DEF EventsInv, Typed
  <2>10. Typed'
    BY <2>7, <2>8, <2>9, <1>3, IdleTyped DEF EventsInv, Typed
  <2>11. LiveViewCurrent'
    <3> SUFFICES ASSUME NEW t \in open', stream'[t].state \in {"live", "deaf"}, NEW k \in Visible(t)'
                 PROVE  Knows(t, k)'
      BY DEF LiveViewCurrent
    <3>1. t \in Sessions /\ t \in open
      BY <1>3 DEF EventsInv, Typed
    <3>2. stream'[t].state = "live"
      BY <3>1, <2>7 DEF StreamRecord
    <3>3. CASE t = s
      <4>1. stream[s].state = "live" /\ stream'[s].queue = stream[s].queue \o w
        BY <3>2, <3>3, <2>5, <2>7
      <4>2. LastWord(stream[s].queue \o w, view[s], k, EntryOf(entries, k))
        <5>1. CASE k \in KeysOf(o)
          <6>1. \E i \in 1 .. Len(w) : /\ w[i] = [key |-> k, annotation |-> EntryOf(entries, k)]
                                       /\ \A j \in i + 1 .. Len(w) : w[j].key # k
            BY <5>1, <2>2 DEF Event
          <6> QED BY <6>1, <2>2, <2>3, WordAppended
        <5>2. CASE k \notin KeysOf(o)
          <6>1. k \in Visible(s)
            BY <5>2, <3>3, <2>8 DEF Visible
          <6>2. LastWord(stream[s].queue, view[s], k, EntryOf(entries, k))
            BY <6>1, <4>1, <3>1, <3>3, KnowsIs DEF EventsInv, LiveViewCurrent
          <6>3. \A i \in 1 .. Len(w) : w[i].key # k
            BY <5>2, <2>2
          <6> QED BY <6>2, <6>3, <2>2, <2>3, WordAppended
        <5> QED BY <5>1, <5>2
      <4>3. LastWord(stream'[t].queue, view'[t], k, EntryOf(entries', k))
        BY <4>1, <4>2, <3>3, <1>3
      <4> QED BY <4>3 DEF Knows, LastWord, Event
    <3>4. CASE t # s
      <4>1. k \in Visible(t)
        BY <3>4, <2>8 DEF Visible
      <4>2. Knows(t, k)
        BY <4>1, <3>1, <3>2, <3>4, <2>7 DEF EventsInv, LiveViewCurrent
      <4> QED BY <4>2, <3>1, <3>4, <2>7, <1>3 DEF Knows
    <3> QED BY <3>3, <3>4
  <2> QED BY <2>9, <2>10, <2>11, <1>3, IdleTyped, ShownKept DEF EventsInv
<1> QED BY <1>3, <1>4, <1>5

LEMMA RemoveKeeps ==
    ASSUME EventsInv, NEW o \in Objects, RemoveResource(o) \/ RemoveResourceFfi(o)
    PROVE  EventsInv'
<1>1. /\ UNCHANGED <<entries, merging, open, handler, stream, view, stale>>
      /\ owner' \in [Objects -> Sessions \cup {NoSession}]
      /\ \A x \in Objects : owner'[x] \in {owner[x], NoSession}
      /\ DOMAIN data' \subseteq DOMAIN data /\ \A k \in DOMAIN data' : data'[k] = data[k]
      /\ merging = NoMerge \/ data' = data
  BY DEF RemoveResource, RemoveResourceFfi, EventsInv, Typed
<1>2. Typed'
  BY <1>1 DEF EventsInv, Typed
<1>3. DataIsStored'
  <2> SUFFICES ASSUME NEW j \in DOMAIN data' PROVE DataAt(j)'
    BY DEF DataIsStored
  <2> QED BY <1>1 DEF EventsInv, DataIsStored, DataAt
<1>4. MergedIsStored'
  BY <1>1 DEF EventsInv, MergedIsStored
<1>5. ReadIsStored'
  BY <1>1 DEF EventsInv, ReadIsStored, ReadAt
<1>6. LiveViewCurrent'
  <2>1. \A s \in open' : \A x \in Objects : owner'[x] = s => owner[x] = s
    BY <1>1, EventsAssumption DEF EventsInv, Typed
  <2> QED BY <1>1, <2>1, ViewsKept
<1> QED BY <1>2, <1>3, <1>4, <1>5, <1>6 DEF EventsInv

-----------------------------------------------------------------------------
(* Theorems. *)

LEMMA InitHolds == Init => EventsInv
<1> SUFFICES ASSUME Init PROVE EventsInv
  OBVIOUS
<1>1. DOMAIN entries \subseteq Keys /\ \A k \in DOMAIN entries : entries[k] \in Annotation
  BY EventsAssumption DEF Init
<1>2. NoStream \in StreamRecord /\ NoStream.state = "none"
  BY DEF NoStream, StreamRecord
<1>3. Typed
  <2>1. stream \in [Sessions -> StreamRecord]
    BY <1>2 DEF Init
  <2>2. DOMAIN data \subseteq Keys /\ owner \in [Objects -> Sessions \cup {NoSession}]
    BY KeysAre DEF Init
  <2>3. DOMAIN handler = Handlers /\ \A h \in Handlers : HandlerTyped(handler[h])
    BY IdleTyped DEF Init
  <2> QED BY <1>1, <2>1, <2>2, <2>3 DEF Init, Typed
<1>4. DataIsStored
  <2> SUFFICES ASSUME NEW k \in DOMAIN data PROVE DataAt(k)
    BY DEF DataIsStored
  <2>1. PICK e \in Annotation : e = EntryOf(entries, k)
    BY <1>1, EntryTyped
  <2>2. data[k] = MergePatch(Default, AnnotationAtCreate(e), Default)
    BY <2>1 DEF Init, Created
  <2>3. Shows(data[k], e)
    BY <2>2, CreateShows
  <2> QED BY <2>1, <2>3 DEF DataAt
<1>5. MergedIsStored
  BY DEF Init, MergedIsStored
<1>6. ReadIsStored
  <2> SUFFICES ASSUME NEW h \in Handlers PROVE ReadAt(h)
    BY DEF ReadIsStored
  <2> QED BY IdleTyped DEF Init, ReadAt, ReadOf
<1>7. LiveViewCurrent
  BY <1>2 DEF Init, LiveViewCurrent
<1> QED BY <1>3, <1>4, <1>5, <1>6, <1>7 DEF EventsInv

LEMMA NextHolds == EventsInv /\ [Next]_vars => EventsInv'
<1> SUFFICES ASSUME EventsInv, [Next]_vars PROVE EventsInv'
  OBVIOUS
<1>1. CASE UNCHANGED vars
  <2>1. LiveViewCurrent'
    BY <1>1, ViewsKept DEF vars
  <2>2. Typed'
    BY <1>1 DEF vars, EventsInv, Typed
  <2> QED BY <1>1, <2>1, <2>2, ShownKept DEF vars, EventsInv
<1>2. ASSUME NEW s \in Sessions,
             \/ SubscribeAnnotations(s) \/ ReadEvent(s) \/ StreamDropped(s)
             \/ ReapAnnotationSubscription(s) \/ CloseSession(s)
      PROVE  EventsInv'
  BY <1>2, SubscribeKeeps, ReadKeeps, DropKeeps
<1>3. ASSUME NEW k \in Keys, NEW p \in Accepted, PatchAnnotation(k, p)
      PROVE  EventsInv'
  BY <1>3, MergeKeeps DEF PatchAnnotation, EventsInv, Typed
<1>4. ASSUME NEW h \in Handlers, NEW s \in Sessions, NEW k \in Keys,
             PrepareAnnotationUpdate(h, s, k)
      PROVE  EventsInv'
  BY <1>4, PrepareUpdateKeeps
<1>5. ASSUME NEW h \in Handlers, NEW p \in Accepted, UpdateAnnotationFfi(h, p)
      PROVE  EventsInv'
  BY <1>5, UpdateKeeps
<1>6. ASSUME NEW h \in Handlers, UpdateAnnotationFails(h)
      PROVE  EventsInv'
  BY <1>6, UpdateFailsKeeps
<1>7. ASSUME NEW h \in Handlers, NEW s \in Sessions, NEW o \in Objects,
             PrepareAddResource(h, s, o)
      PROVE  EventsInv'
  BY <1>7, PrepareAddKeeps
<1>8. ASSUME NEW h \in Handlers, ReadStored(h) \/ AddResourceFfi(h) \/ CommitAddResource(h)
      PROVE  EventsInv'
  BY <1>8, ReadStoredKeeps, AddKeeps, CommitKeeps
<1>9. ASSUME NEW o \in Objects, RemoveResource(o) \/ RemoveResourceFfi(o)
      PROVE  EventsInv'
  BY <1>9, RemoveKeeps
<1> QED BY <1>1, <1>2, <1>3, <1>4, <1>5, <1>6, <1>7, <1>8, <1>9, ModifyKeeps DEF Next

\* EventsInv is an invariant: what a patch has merged or a create has read is what
\* is stored, until an update comes between.
THEOREM EventsInvariant == Spec => []EventsInv
BY InitHolds, NextHolds, PTL DEF Spec

\* A session with an open annotation stream knows, once it has read its queue,
\* what is stored of everything it sees (publish_annotation, emit_added_resource,
\* annotation_snapshot).
THEOREM LiveViewCorrect == Spec => []LiveViewCurrent
<1>1. EventsInv => LiveViewCurrent
  BY DEF EventsInv
<1> QED BY <1>1, EventsInvariant, PTL

\* A resource of libnvnmos shows its stored annotation over its defaults whenever
\* no update of it is under way, unless an update came between the read of the
\* store for a create and the create (add_to_server).
THEOREM ShownCorrect == Spec => []ShownIsStored
<1>1. EventsInv => ShownIsStored
  <2> SUFFICES ASSUME EventsInv, ~stale, NEW k \in DOMAIN data, merging.key # k
               PROVE  data[k] = Effective(EntryOf(entries, k), Default)
    BY DEF ShownIsStored
  <2>1. DataAt(k)
    BY DEF EventsInv, DataIsStored
  <2> QED BY <2>1 DEF DataAt, Shows
<1> QED BY <1>1, EventsInvariant, PTL

-----------------------------------------------------------------------------
(* The inductive invariant of AnnotationStore. *)

\* The steps of the writer before the rename, and all steps of a write.
Preparing == {"create", "write", "sync", "rename"}
Writes == Preparing \cup {"clone", "syncdir"}

\* A map that the store may hold.
GoodStore(S) ==
    /\ S = [k \in DOMAIN S |-> S[k]]
    /\ DOMAIN S \subseteq StoreKeys /\ IsFiniteSet(DOMAIN S)
    /\ Cardinality(DOMAIN S) <= EntryLimit
    /\ \A k \in DOMAIN S : S[k] \in Annotation \ {BlankAnnotation}

\* The map that a start reads from an image.
StoreOf(f) == [k \in DOMAIN f.records |-> StoredAnnotation(f.records[k])]

GoodImage(f) == f.kind = "image" /\ f.version \in 0 .. MaxUpdates /\ GoodStore(StoreOf(f))

\* An image of this process with the number of the current update.
Current(f) == f.version <= version /\ (f.version = version => StoreOf(f) = entries)

Writer == [pc : {"none", "recv", "debounce"} \cup Writes,
           next : {"recv", "debounce", "serve", "exit"}, ack : BOOLEAN]

Memory ==
    /\ process \in {"down", "opening", "up", "flushing", "joining", "dropping"}
    /\ GoodStore(entries)
    /\ version \in 0 .. MaxUpdates
    /\ asked \in Nat
    /\ chan \in Seq({"dirty", "flush", "shutdown"})
    /\ writer \in Writer

\* Which process is behind a step of the writer.
WriterAt ==
    /\ process = "down" => writer.pc = "none"
    /\ process = "opening" => writer.next = "serve"
    /\ writer.next = "serve" => process = "opening" /\ writer.pc \in Writes
    /\ writer.next = "exit" => process = "dropping" /\ writer.pc \in Writes
    /\ writer.ack => process = "flushing" /\ writer.pc \in Writes

\* There is one Flush and one Shutdown in the life of a process.
Messages ==
    /\ \A i \in 1 .. Len(chan) : chan[i] = "flush" => process = "flushing" /\ ~writer.ack
    /\ \A i \in 1 .. Len(chan) : chan[i] = "shutdown" =>
         process = "dropping" /\ writer.next # "exit"
    /\ \A i, j \in 1 .. Len(chan) : chan[i] = chan[j] /\ chan[i] # "dirty" => i = j

\* A file under the name of the checkpoint, now or after a loss of power, is
\* whole and on the disk.
OnDisk(f) == f = NoFile \/ (GoodImage(f) /\ f.synced)
Files == OnDisk(file) /\ \A f \in older : OnDisk(f)

\* The write under way.
InFlight ==
    /\ writer.pc \in Preparing =>
         /\ snapshot = Image(snapshot.records, snapshot.version, FALSE)
         /\ GoodImage(snapshot) /\ Current(snapshot)
    /\ writer.pc = "sync" => tmp = snapshot
    /\ writer.pc = "rename" => tmp = Image(snapshot.records, snapshot.version, TRUE)

FileCurrent == process # "down" /\ file.kind = "image" => Current(file)

\* A write that flush waits for, and every later one, has what flush was called
\* for.
Asked ==
    /\ process \in {"flushing", "joining", "dropping"} => asked <= version
    /\ writer.ack \/ process \in {"joining", "dropping"} =>
         /\ writer.pc \in Preparing => snapshot.version >= asked
         /\ writer.pc = "syncdir" => SavedVersion >= asked

AInv ==
    /\ Memory /\ WriterAt /\ Messages /\ Files /\ InFlight /\ FileCurrent /\ Asked
    /\ FlushedIsSaved

-----------------------------------------------------------------------------
(* Annotations and maps. *)

LEMMA AnnotationFields ==
    ASSUME NEW e \in Annotation
    PROVE  /\ e = [text |-> e.text, tags |-> e.tags]
           /\ e.text \in [TextFields -> Texts \cup {Absent}] /\ e.tags \in SUBSET Tags
BY DEF Annotation

\* A record of the checkpoint stands for the annotation it was made from.
LEMMA RecordRoundTrip ==
    ASSUME NEW e \in Annotation
    PROVE  StoredAnnotation(CheckpointRecord(e)) = e
<1>1. [f \in TextFields |-> IF f \in {g \in TextFields : e.text[g] # Absent}
                            THEN e.text[f] ELSE Absent] = e.text
  BY AnnotationFields
<1> QED BY <1>1, AnnotationFields DEF StoredAnnotation, CheckpointRecord

\* What is written is what a start reads.
LEMMA StoreRoundTrip ==
    ASSUME NEW S, GoodStore(S), NEW v, NEW b
    PROVE  StoreOf(Image(Records(S), v, b)) = S
<1>1. DOMAIN Records(S) = DOMAIN S /\ \A k \in DOMAIN S : Records(S)[k] = CheckpointRecord(S[k])
  BY DEF Records
<1>2. Image(Records(S), v, b).records = Records(S)
  BY DEF Image
<1>3. StoreOf(Image(Records(S), v, b)) = [k \in DOMAIN S |-> S[k]]
  BY <1>1, <1>2, RecordRoundTrip DEF StoreOf, GoodStore
<1> QED BY <1>3 DEF GoodStore

LEMMA TextOpCases ==
    ASSUME NEW op \in TextOp
    PROVE  \/ op.op = "unchanged"
           \/ op.op = "reset"
           \/ op.op = "set" /\ op.value \in Texts
BY DEF TextOp, Unchanged, Reset, Set

LEMMA TagsOpCases ==
    ASSUME NEW op \in {Unchanged, Reset} \cup {Set(t) : t \in SUBSET Tags}
    PROVE  \/ op.op = "unchanged"
           \/ op.op = "reset"
           \/ op.op = "set" /\ op.value \in SUBSET Tags
BY DEF Unchanged, Reset, Set

LEMMA ApplyUpdateTyped ==
    ASSUME NEW e \in Annotation, NEW u \in Updates
    PROVE  ApplyUpdate(e, u) \in Annotation
<1>1. u.text \in [TextFields -> TextOp]
      /\ u.tags \in {Unchanged, Reset} \cup {Set(t) : t \in SUBSET Tags}
  BY DEF Updates
<1>2. \A f \in TextFields : ApplyField(e.text[f], u.text[f], Absent) \in Texts \cup {Absent}
  BY <1>1, AnnotationFields, TextOpCases DEF ApplyField
<1>3. ApplyField(e.tags, u.tags, {}) \in SUBSET Tags
  BY <1>1, AnnotationFields, TagsOpCases DEF ApplyField
<1> QED BY <1>2, <1>3 DEF ApplyUpdate, Annotation

LEMMA BlankTyped == BlankAnnotation \in Annotation
BY DEF BlankAnnotation, Annotation

LEMMA EmptyStoreGood == GoodStore(EmptyStore)
<1>1. DOMAIN EmptyStore = {}
  BY DEF EmptyStore
<1>2. EmptyStore = [k \in DOMAIN EmptyStore |-> EmptyStore[k]]
  BY DEF EmptyStore
<1> QED BY <1>1, <1>2, FS_EmptySet, StoreAssumption DEF GoodStore

\* An update that is not refused keeps the map within its limit.
LEMMA StoreAppliedGood ==
    ASSUME NEW S, GoodStore(S), NEW k \in StoreKeys, NEW u \in Updates,
           ~Refused(S, k, u, EntryLimit)
    PROVE  GoodStore(StoreApplied(S, k, u))
<1> DEFINE e == ApplyUpdate(EntryOf(S, k), u)
<1>1. EntryOf(S, k) \in Annotation
  BY BlankTyped DEF EntryOf, GoodStore
<1>2. e \in Annotation
  BY <1>1, ApplyUpdateTyped
<1>3. Cardinality(DOMAIN S) \in Nat
  BY FS_CardinalityType DEF GoodStore
<1>4. CASE e = BlankAnnotation
  <2> DEFINE W == [j \in DOMAIN S \ {k} |-> S[j]]
  <2>1. StoreApplied(S, k, u) = W
    BY <1>4 DEF StoreApplied, Without
  <2>2. IsFiniteSet(DOMAIN S \ {k}) /\ Cardinality(DOMAIN S \ {k}) <= Cardinality(DOMAIN S)
    BY FS_Subset DEF GoodStore
  <2>3. Cardinality(DOMAIN S \ {k}) \in Nat
    BY <2>2, FS_CardinalityType
  <2>4. Cardinality(DOMAIN S \ {k}) <= EntryLimit
    BY <2>2, <2>3, <1>3, StoreAssumption DEF GoodStore
  <2>5. GoodStore(W)
    BY <2>2, <2>4 DEF GoodStore
  <2> QED BY <2>1, <2>5
<1>5. CASE e # BlankAnnotation
  <2> DEFINE W == [j \in DOMAIN S \cup {k} |-> IF j = k THEN e ELSE S[j]]
  <2>1. StoreApplied(S, k, u) = W
    BY <1>5 DEF StoreApplied, With
  <2>2. IsFiniteSet(DOMAIN S \cup {k}) /\ Cardinality(DOMAIN S \cup {k}) <= EntryLimit
    <3>1. CASE k \in DOMAIN S
      <4>1. DOMAIN S \cup {k} = DOMAIN S
        BY <3>1
      <4> QED BY <4>1 DEF GoodStore
    <3>2. CASE k \notin DOMAIN S
      <4>1. ~(Cardinality(DOMAIN S) >= EntryLimit)
        BY <1>5, <3>2 DEF Refused, StoreFull
      <4>2. /\ IsFiniteSet(DOMAIN S \cup {k})
            /\ Cardinality(DOMAIN S \cup {k}) = Cardinality(DOMAIN S) + 1
        BY <3>2, FS_AddElement DEF GoodStore
      <4> QED BY <4>1, <4>2, <1>3, StoreAssumption
    <3> QED BY <3>1, <3>2
  <2>3. \A j \in DOMAIN S \cup {k} : W[j] \in Annotation \ {BlankAnnotation}
    BY <1>2, <1>5 DEF GoodStore
  <2>4. GoodStore(W)
    <3>1. DOMAIN W = DOMAIN S \cup {k} /\ W = [j \in DOMAIN W |-> W[j]]
      OBVIOUS
    <3>2. DOMAIN W \subseteq StoreKeys
      BY <3>1 DEF GoodStore
    <3> HIDE DEF W
    <3> QED BY <2>2, <2>3, <3>1, <3>2 DEF GoodStore
  <2> QED BY <2>1, <2>4
<1> QED BY <1>4, <1>5

-----------------------------------------------------------------------------
(* Files. *)

\* open accepts what OnDisk says of a file.
LEMMA OnDiskReadable ==
    ASSUME NEW f, OnDisk(f)
    PROVE  Readable(f)
<1>1. CASE f = NoFile
  BY <1>1 DEF Readable
<1>2. CASE GoodImage(f)
  <2>1. DOMAIN StoreOf(f) = DOMAIN f.records
    BY DEF StoreOf
  <2>2. \A k \in DOMAIN f.records : f.records[k].tags = StoreOf(f)[k].tags
    BY DEF StoreOf, StoredAnnotation
  <2>3. \A k \in DOMAIN f.records : f.records[k].tags \in SUBSET Tags
    BY <1>2, <2>1, <2>2, AnnotationFields DEF GoodImage, GoodStore
  <2>4. Cardinality(DOMAIN f.records) <= EntryLimit
    BY <1>2, <2>1 DEF GoodImage, GoodStore
  <2> QED BY <1>2, <2>3, <2>4, FormsAssumption DEF Readable, GoodImage
<1> QED BY <1>1, <1>2 DEF OnDisk

LEMMA KindOfNoFile == NoFile.kind = "none"
BY DEF NoFile

LEMMA ImageFields ==
    ASSUME NEW recs, NEW v
    PROVE  /\ \A b \in BOOLEAN : /\ Image(recs, v, b).kind = "image"
                               /\ Image(recs, v, b).records = recs
                               /\ Image(recs, v, b).version = v
           /\ Image(recs, v, TRUE).synced
           /\ StoreOf(Image(recs, v, TRUE)) = StoreOf(Image(recs, v, FALSE))
<1>1. \A b \in BOOLEAN : /\ Image(recs, v, b).kind = "image"
                        /\ Image(recs, v, b).records = recs
                        /\ Image(recs, v, b).version = v
  BY DEF Image
<1>2. Image(recs, v, TRUE).synced
  BY DEF Image
<1>3. StoreOf(Image(recs, v, TRUE)) = StoreOf(Image(recs, v, FALSE))
  BY <1>1 DEF StoreOf
<1> QED BY <1>1, <1>2, <1>3

\* The clone of the map is an image of it.
LEMMA CloneGood ==
    ASSUME NEW S, GoodStore(S), NEW v \in 0 .. MaxUpdates, NEW f, f = Image(Records(S), v, FALSE)
    PROVE  /\ f = Image(f.records, f.version, FALSE) /\ f.version = v
           /\ GoodImage(f) /\ StoreOf(f) = S
<1>1. f.kind = "image" /\ f.records = Records(S) /\ f.version = v
  BY DEF Image
<1>2. StoreOf(f) = S
  BY StoreRoundTrip
<1> QED BY <1>1, <1>2 DEF GoodImage

-----------------------------------------------------------------------------
(* The writer and its channel. *)

\* What a step of a write keeps of the writer.
LEMMA WriterGoes ==
    ASSUME NEW x \in Writer, NEW p \in Writes, NEW y, y = [x EXCEPT !.pc = p]
    PROVE  y \in Writer /\ y.pc = p /\ y.next = x.next /\ y.ack = x.ack
BY DEF Writer

LEMMA AtFields ==
    ASSUME NEW p \in {"none", "recv", "debounce"}
    PROVE  At(p) \in Writer /\ At(p).pc = p /\ At(p).next = "recv" /\ ~At(p).ack
BY DEF At, Writer

LEMMA WritingFields ==
    ASSUME NEW p \in Writes, NEW n \in {"recv", "debounce", "serve", "exit"}
    PROVE  /\ Writing(p, n, FALSE) \in Writer /\ Writing(p, n, FALSE).pc = p
           /\ Writing(p, n, FALSE).next = n /\ ~Writing(p, n, FALSE).ack
           /\ Writing(p, n, TRUE) \in Writer /\ Writing(p, n, TRUE).pc = p
           /\ Writing(p, n, TRUE).next = n /\ Writing(p, n, TRUE).ack
BY DEF Writing, Writer

\* A message at the end of the channel.
LEMMA SentBy ==
    ASSUME chan \in Seq({"dirty", "flush", "shutdown"}), NEW m \in {"dirty", "flush", "shutdown"},
           chan' = Append(chan, m)
    PROVE  /\ chan' \in Seq({"dirty", "flush", "shutdown"}) /\ Len(chan') = Len(chan) + 1
           /\ \A i \in 1 .. Len(chan') :
                \/ i \in 1 .. Len(chan) /\ chan'[i] = chan[i]
                \/ i = Len(chan) + 1 /\ chan'[i] = m
BY DEF Messages

\* The writer takes the first message.
LEMMA Taken ==
    ASSUME chan \in Seq({"dirty", "flush", "shutdown"}), chan # <<>>, chan' = Tail(chan)
    PROVE  /\ Head(chan) = chan[1] /\ 1 \in 1 .. Len(chan)
           /\ Head(chan) \in {"dirty", "flush", "shutdown"}
           /\ chan' \in Seq({"dirty", "flush", "shutdown"}) /\ Len(chan') = Len(chan) - 1
           /\ \A i \in 1 .. Len(chan') : i + 1 \in 2 .. Len(chan) /\ chan'[i] = chan[i + 1]
OBVIOUS

-----------------------------------------------------------------------------
(* The steps. *)

\* A step that leaves the memory and the files alone.
LEMMA FilesKept ==
    ASSUME AInv, UNCHANGED <<entries, version, file, older>>
    PROVE  /\ Files'
           /\ \A f : Current(f)' <=> Current(f)
           /\ SavedVersion' = SavedVersion
BY DEF AInv, Files, Current, SavedVersion

\* with_file reads the map and starts to write it back.
LEMMA OpenKeeps ==
    ASSUME AInv, Open
    PROVE  AInv'
<1>1. OnDisk(file) /\ process = "down" /\ chan \in Seq({"dirty", "flush", "shutdown"})
  BY DEF AInv, Files, Open, Memory
<1>2. /\ GoodStore(entries') /\ version' \in 0 .. MaxUpdates
      /\ file.kind = "image" => version' = file.version /\ entries' = StoreOf(file)
  <2>1. CASE file = NoFile
    BY <2>1, EmptyStoreGood, KindOfNoFile, StoreAssumption DEF Open, ReadCheckpoint
  <2>2. CASE file # NoFile
    BY <2>2, <1>1 DEF Open, ReadCheckpoint, OnDisk, GoodImage, StoreOf
  <2> QED BY <2>1, <2>2
<1>3. /\ writer' \in Writer /\ writer'.pc = "create" /\ writer'.next = "serve" /\ ~writer'.ack
  BY WritingFields DEF Open, Writes, Preparing
<1>4. /\ snapshot' = Image(snapshot'.records, snapshot'.version, FALSE)
      /\ snapshot'.version = version' /\ GoodImage(snapshot') /\ StoreOf(snapshot') = entries'
  <2>1. snapshot' = Image(Records(entries'), version', FALSE)
    BY DEF Open
  <2> QED BY <2>1, <1>2, CloneGood
<1>5. Memory' /\ WriterAt'
  BY <1>2, <1>3 DEF AInv, Memory, WriterAt, Open, Writes, Preparing
<1>6. Messages'
  BY <1>1, <1>3 DEF AInv, Messages, Open
<1>7. Files'
  BY DEF AInv, Files, Open, fileVars
<1>8. InFlight'
  <2>1. Current(snapshot)'
    BY <1>2, <1>4 DEF Current
  <2> QED BY <2>1, <1>3, <1>4 DEF InFlight
<1>9. FileCurrent'
  BY <1>2 DEF FileCurrent, Current, Open, fileVars
<1>10. Asked' /\ FlushedIsSaved'
  BY <1>3 DEF Asked, FlushedIsSaved, Open
<1> QED BY <1>5, <1>6, <1>7, <1>8, <1>9, <1>10 DEF AInv

\* AnnotationStore::apply makes a map that no image has yet.
LEMMA ApplyKeeps ==
    ASSUME AInv, NEW k \in StoreKeys, NEW u \in Updates, Apply(k, u)
    PROVE  AInv'
<1>1. GoodStore(entries')
  BY StoreAppliedGood DEF AInv, Memory, Apply
<1>2. version' \in 0 .. MaxUpdates /\ version' = version + 1 /\ version \in Nat /\ asked \in Nat
  BY StoreAssumption DEF AInv, Memory, Apply
<1>3. ASSUME NEW f, Current(f), f.version \in 0 .. MaxUpdates
      PROVE  Current(f)'
  BY <1>2, <1>3 DEF Current
<1>4. Memory' /\ WriterAt' /\ Messages'
  BY <1>1, <1>2 DEF AInv, Memory, WriterAt, Messages, Apply
<1>5. Files'
  BY DEF AInv, Files, Apply, fileVars
<1>6. InFlight'
  BY <1>3 DEF AInv, InFlight, GoodImage, Apply, fileVars
<1>7. FileCurrent'
  BY <1>3, KindOfNoFile DEF AInv, FileCurrent, Files, OnDisk, GoodImage, Apply, fileVars
<1>8. Asked' /\ FlushedIsSaved'
  BY <1>2 DEF AInv, Asked, FlushedIsSaved, SavedVersion, Apply, fileVars
<1> QED BY <1>4, <1>5, <1>6, <1>7, <1>8 DEF AInv

\* A step that only talks to the writer, or listens to it.
LEMMA TalkKeeps ==
    ASSUME AInv, UNCHANGED <<entries, version, snapshot, tmp, file, older, failed>>,
           Memory', WriterAt', Messages', process # "down", process' # "down",
           writer'.pc = writer.pc \/ writer'.pc \notin Preparing \cup {"syncdir"},
           writer'.pc = writer.pc => writer'.ack = writer.ack,
           process' \in {"flushing", "joining", "dropping"} => asked' <= version,
           process' \in {"joining", "dropping"} =>
              process \in {"joining", "dropping"} /\ asked' = asked,
           writer.ack => asked' = asked
    PROVE  AInv'
<1>1. Files'
  BY FilesKept
<1>2. InFlight'
  BY FilesKept DEF AInv, InFlight, Preparing
<1>3. FileCurrent'
  BY FilesKept DEF AInv, FileCurrent
<1>4. Asked'
  BY FilesKept DEF AInv, Asked
<1>5. FlushedIsSaved'
  BY FilesKept DEF AInv, FlushedIsSaved
<1> QED BY <1>1, <1>2, <1>3, <1>4, <1>5 DEF AInv

\* The send after an update.
LEMMA NotifyKeeps ==
    ASSUME AInv, Notify
    PROVE  AInv'
<1>1. /\ chan' \in Seq({"dirty", "flush", "shutdown"})
      /\ \A i \in 1 .. Len(chan') : chan'[i] # "dirty" => i \in 1 .. Len(chan) /\ chan'[i] = chan[i]
  BY SentBy DEF AInv, Memory, Notify
<1>2. Memory' /\ WriterAt'
  BY <1>1 DEF AInv, Memory, WriterAt, Notify
<1>3. Messages'
  BY <1>1 DEF AInv, Messages, Notify
<1>4. Files' /\ InFlight' /\ FileCurrent' /\ Asked' /\ FlushedIsSaved'
  BY FilesKept DEF AInv, InFlight, FileCurrent, Asked, FlushedIsSaved, Notify, fileVars
<1> QED BY <1>2, <1>3, <1>4 DEF AInv

\* The call of flush.
LEMMA FlushKeeps ==
    ASSUME AInv, Flush
    PROVE  AInv'
<1>1. /\ chan' \in Seq({"dirty", "flush", "shutdown"}) /\ Len(chan') = Len(chan) + 1
      /\ \A i \in 1 .. Len(chan') : \/ i \in 1 .. Len(chan) /\ chan'[i] = chan[i]
                                    \/ i = Len(chan) + 1 /\ chan'[i] = "flush"
  BY SentBy DEF AInv, Memory, Flush
<1>2. version \in Nat /\ process = "up" /\ process' = "flushing" /\ asked' = version
      /\ Len(chan) \in Nat /\ writer' = writer /\ ~writer.ack
  BY StoreAssumption DEF AInv, Memory, WriterAt, Flush
<1>3. Memory' /\ WriterAt'
  BY <1>1, <1>2 DEF AInv, Memory, WriterAt, Flush
<1>4. Messages'
  BY <1>1, <1>2 DEF AInv, Messages
<1> QED
  BY <1>2, <1>3, <1>4, TalkKeeps DEF AInv, Memory, Flush, fileVars

\* Drop of the last clone of the store.
LEMMA DropStoreKeeps ==
    ASSUME AInv, DropStore
    PROVE  AInv'
<1>1. /\ chan' \in Seq({"dirty", "flush", "shutdown"}) /\ Len(chan') = Len(chan) + 1
      /\ \A i \in 1 .. Len(chan') : \/ i \in 1 .. Len(chan) /\ chan'[i] = chan[i]
                                    \/ i = Len(chan) + 1 /\ chan'[i] = "shutdown"
  BY SentBy DEF AInv, Memory, DropStore
<1>2. /\ process = "joining" /\ process' = "dropping" /\ asked' = asked
      /\ Len(chan) \in Nat /\ writer' = writer /\ writer.next # "exit"
  BY DEF AInv, Memory, WriterAt, DropStore
<1>3. Memory' /\ WriterAt'
  BY <1>1, <1>2 DEF AInv, Memory, WriterAt, DropStore
<1>4. Messages'
  BY <1>1, <1>2 DEF AInv, Messages
<1>5. asked <= version
  BY <1>2 DEF AInv, Asked
<1> QED
  BY <1>2, <1>3, <1>4, <1>5, TalkKeeps DEF DropStore, fileVars

\* writer_loop and debounce_then_write receive.
LEMMA RecvKeeps ==
    ASSUME AInv, Recv
    PROVE  AInv'
<1> DEFINE m == Head(chan)
<1>1. /\ m = chan[1] /\ 1 \in 1 .. Len(chan) /\ m \in {"dirty", "flush", "shutdown"}
      /\ chan' \in Seq({"dirty", "flush", "shutdown"}) /\ Len(chan') = Len(chan) - 1
      /\ \A i \in 1 .. Len(chan') : i + 1 \in 2 .. Len(chan) /\ chan'[i] = chan[i + 1]
  BY Taken DEF AInv, Memory, Recv
<1>2. /\ writer.pc \in {"recv", "debounce"} /\ process # "down" /\ process' = process
      /\ ~writer.ack /\ writer.next \notin {"serve", "exit"} /\ process # "opening"
      /\ writer' = OnMessage(m, writer.pc) /\ asked' = asked
  BY DEF AInv, Memory, WriterAt, Recv, Writes, Preparing
<1> HIDE DEF m
<1>3. /\ writer' \in Writer
      /\ m = "dirty" => writer'.pc = "debounce" /\ writer'.next = "recv" /\ ~writer'.ack
      /\ m = "flush" => writer'.pc = "clone" /\ writer'.next = writer.pc /\ writer'.ack
      /\ m = "shutdown" => writer'.pc = "clone" /\ writer'.next = "exit" /\ ~writer'.ack
  <2>1. CASE m = "dirty"
    BY <2>1, <1>2, AtFields DEF OnMessage
  <2>2. CASE m = "flush"
    <3>1. writer' = Writing("clone", writer.pc, TRUE)
      BY <2>2, <1>2 DEF OnMessage
    <3> QED BY <2>2, <3>1, <1>2 DEF Writing, Writer, Writes, Preparing
  <2>3. CASE m = "shutdown"
    <3>1. writer' = Writing("clone", "exit", FALSE)
      BY <2>3, <1>2 DEF OnMessage
    <3> QED BY <2>3, <3>1, WritingFields DEF Writes
  <2> QED BY <1>1, <2>1, <2>2, <2>3
<1>4. /\ m = "flush" => process = "flushing"
      /\ m = "shutdown" => process = "dropping"
  BY <1>1 DEF AInv, Messages
<1>5. Memory' /\ WriterAt'
  BY <1>1, <1>2, <1>3, <1>4 DEF AInv, Memory, WriterAt, Recv, Writes, Preparing
<1>6. Messages'
  <2>1. Len(chan) \in Nat
    BY DEF AInv, Memory
  <2>2. \A i \in 1 .. Len(chan') : chan'[i] # "dirty" => chan'[i] # m
    BY <1>1, <2>1 DEF AInv, Messages
  <2>3. \A i, j \in 1 .. Len(chan') : chan'[i] = chan'[j] /\ chan'[i] # "dirty" => i = j
    BY <1>1, <2>1 DEF AInv, Messages
  <2>4. ASSUME NEW i \in 1 .. Len(chan')
        PROVE  /\ chan'[i] = "flush" => process = "flushing" /\ m # "flush"
               /\ chan'[i] = "shutdown" => process = "dropping" /\ m # "shutdown"
    BY <1>1, <2>1, <2>2 DEF AInv, Messages
  <2> QED BY <2>3, <2>4, <1>1, <1>2, <1>3 DEF Messages
<1>7. process \in {"flushing", "joining", "dropping"} => asked <= version
  BY DEF AInv, Asked
<1> QED
  <2>1. writer'.pc \in {"debounce", "clone"} /\ (writer'.pc = writer.pc => ~writer'.ack)
    BY <1>1, <1>2, <1>3
  <2>2. writer'.pc \notin Preparing \cup {"syncdir"}
    BY <2>1 DEF Preparing
  <2>3. writer'.pc = writer.pc => writer'.ack = writer.ack
    BY <2>1, <1>2, <1>3 DEF AInv, Memory, Writer
  <2> QED BY <1>2, <1>5, <1>6, <1>7, <2>2, <2>3, TalkKeeps DEF Recv, fileVars

\* Nothing came for the time of the debounce.
LEMMA DebounceTimeoutKeeps ==
    ASSUME AInv, DebounceTimeout
    PROVE  AInv'
<1>1. /\ writer' \in Writer /\ writer'.pc = "clone" /\ writer'.next = "recv" /\ ~writer'.ack
      /\ ~writer.ack /\ process # "down" /\ process # "opening" /\ writer.pc = "debounce"
      /\ writer.next \notin {"serve", "exit"}
  <2>1. writer' = Writing("clone", "recv", FALSE) /\ writer.pc = "debounce"
    BY DEF DebounceTimeout
  <2>2. writer' \in Writer /\ writer'.pc = "clone" /\ writer'.next = "recv" /\ ~writer'.ack
    BY <2>1 DEF Writing, Writer, Writes, Preparing
  <2>3. /\ ~writer.ack /\ process # "down" /\ process # "opening"
        /\ writer.next \notin {"serve", "exit"}
    BY <2>1 DEF AInv, WriterAt, Writes, Preparing
  <2> QED BY <2>1, <2>2, <2>3
<1>2. Memory' /\ WriterAt' /\ Messages'
  <2>1. Memory'
    BY <1>1 DEF AInv, Memory, DebounceTimeout
  <2>2. WriterAt'
    BY <1>1 DEF AInv, WriterAt, DebounceTimeout, Writes, Preparing
  <2>3. Messages'
    BY <1>1 DEF AInv, Messages, DebounceTimeout
  <2> QED BY <2>1, <2>2, <2>3
<1>3. process \in {"flushing", "joining", "dropping"} => asked <= version
  BY DEF AInv, Asked
<1> QED
  BY <1>1, <1>2, <1>3, TalkKeeps DEF DebounceTimeout, fileVars, Preparing

\* A step of a write: who waits for it stays as it is.
LEMMA WriteStep ==
    ASSUME AInv, writer.pc \in Writes, NEW p \in Writes, writer' = [writer EXCEPT !.pc = p],
           UNCHANGED <<process, entries, version, chan, asked>>
    PROVE  /\ Memory' /\ WriterAt' /\ Messages'
           /\ writer'.pc = p /\ writer'.ack = writer.ack
<1>1. writer' \in Writer /\ writer'.pc = p /\ writer'.next = writer.next
      /\ writer'.ack = writer.ack
  BY WriterGoes DEF AInv, Memory
<1>2. Memory'
  BY <1>1 DEF AInv, Memory
<1>3. WriterAt'
  BY <1>1 DEF AInv, WriterAt, Writes, Preparing
<1>4. Messages'
  BY <1>1 DEF AInv, Messages
<1> QED BY <1>1, <1>2, <1>3, <1>4

\* write_snapshot clones the map.
LEMMA CloneKeeps ==
    ASSUME AInv, CloneEntries
    PROVE  AInv'
<1>1. /\ snapshot' = Image(snapshot'.records, snapshot'.version, FALSE)
      /\ snapshot'.version = version /\ GoodImage(snapshot') /\ StoreOf(snapshot') = entries
      /\ version \in Nat
  <2>1. snapshot' = Image(Records(entries), version, FALSE)
    BY DEF CloneEntries
  <2>2. GoodStore(entries) /\ version \in 0 .. MaxUpdates
    BY DEF AInv, Memory
  <2>3. version \in Nat
    BY <2>2, StoreAssumption
  <2> QED BY <2>1, <2>2, <2>3, CloneGood
<1>2. Memory' /\ WriterAt' /\ Messages' /\ writer'.pc = "create" /\ writer'.ack = writer.ack
  BY WriteStep DEF CloneEntries, Writes, Preparing
<1>3. Files' /\ SavedVersion' = SavedVersion /\ FileCurrent'
  BY FilesKept DEF AInv, FileCurrent, CloneEntries, fileVars
<1>4. InFlight'
  <2>1. version' = version /\ entries' = entries
    BY DEF CloneEntries
  <2>2. Current(snapshot)'
    BY <2>1, <1>1 DEF Current
  <2> QED BY <2>2, <1>1, <1>2 DEF InFlight
<1>5. Asked'
  BY <1>1, <1>2 DEF AInv, WriterAt, Asked, CloneEntries
<1>6. FlushedIsSaved'
  BY <1>3 DEF AInv, FlushedIsSaved, CloneEntries
<1> QED BY <1>2, <1>3, <1>4, <1>5, <1>6 DEF AInv

\* The temporary file is created, written and synced.
LEMMA TmpKeeps ==
    ASSUME AInv, CreateTmp \/ WriteTmp \/ SyncTmp
    PROVE  AInv'
<1>1. /\ writer.pc \in {"create", "write", "sync"}
      /\ UNCHANGED <<snapshot, process, entries, version, unsent, chan, file, older, failed, asked>>
      /\ \/ tmp' = Torn /\ writer' = [writer EXCEPT !.pc = "write"]
         \/ tmp' = snapshot /\ writer' = [writer EXCEPT !.pc = "sync"]
         \/ /\ writer.pc = "sync" /\ writer' = [writer EXCEPT !.pc = "rename"]
            /\ tmp' = Image(tmp.records, tmp.version, TRUE)
  BY DEF CreateTmp, WriteTmp, SyncTmp
<1>2. Memory' /\ WriterAt' /\ Messages' /\ writer'.ack = writer.ack
      /\ \/ writer'.pc = "write"
         \/ tmp' = snapshot /\ writer'.pc = "sync"
         \/ /\ writer.pc = "sync" /\ writer'.pc = "rename"
            /\ tmp' = Image(tmp.records, tmp.version, TRUE)
  BY <1>1, WriteStep DEF Writes, Preparing
<1>3. Files' /\ SavedVersion' = SavedVersion /\ FileCurrent'
  BY <1>1, FilesKept DEF AInv, FileCurrent
<1>4. InFlight'
  <2>1. /\ snapshot = Image(snapshot.records, snapshot.version, FALSE)
        /\ GoodImage(snapshot) /\ Current(snapshot)
        /\ writer.pc = "sync" => tmp = snapshot
    BY <1>1 DEF AInv, InFlight, Preparing
  <2>2. snapshot' = snapshot /\ version' = version /\ entries' = entries
    BY <1>1
  <2>3. Current(snapshot)' /\ GoodImage(snapshot)'
    BY <2>1, <2>2 DEF Current
  <2>4. \/ writer'.pc = "write"
        \/ writer'.pc = "sync" /\ tmp' = snapshot
        \/ writer'.pc = "rename" /\ tmp' = Image(snapshot.records, snapshot.version, TRUE)
    BY <1>2, <2>1
  <2> QED BY <2>1, <2>2, <2>3, <2>4 DEF InFlight
<1>5. Asked' /\ FlushedIsSaved'
  BY <1>1, <1>2, <1>3 DEF AInv, Asked, FlushedIsSaved, Preparing
<1> QED BY <1>2, <1>3, <1>4, <1>5 DEF AInv

\* The rename.
LEMMA RenameKeeps ==
    ASSUME AInv, RenameTmp
    PROVE  AInv'
<1>1. Memory' /\ WriterAt' /\ Messages' /\ writer'.pc = "syncdir" /\ writer'.ack = writer.ack
  BY WriteStep DEF RenameTmp, Writes, Preparing
<1>2. /\ file' = Image(snapshot.records, snapshot.version, TRUE)
      /\ snapshot = Image(snapshot.records, snapshot.version, FALSE)
      /\ GoodImage(snapshot) /\ Current(snapshot)
  BY DEF AInv, InFlight, RenameTmp, Preparing
<1>3. /\ file'.kind = "image" /\ file'.version = snapshot.version /\ file'.synced
      /\ StoreOf(file') = StoreOf(snapshot)
  <2>1. file'.kind = "image" /\ file'.version = snapshot.version /\ file'.synced
    BY <1>2 DEF Image
  <2>2. StoreOf(file') = StoreOf(snapshot)
    <3>1. file'.records = snapshot.records
      BY <1>2 DEF Image
    <3> QED BY <3>1 DEF StoreOf
  <2> QED BY <2>1, <2>2
<1>4. Files'
  BY <1>2, <1>3 DEF AInv, Files, OnDisk, GoodImage, RenameTmp
<1>5. InFlight'
  BY <1>1 DEF InFlight, Preparing
<1>6. FileCurrent'
  BY <1>2, <1>3 DEF FileCurrent, Current, RenameTmp
<1>7. SavedVersion' = snapshot.version
  BY <1>3 DEF SavedVersion
<1>8. Asked'
  BY <1>1, <1>7 DEF AInv, Asked, RenameTmp, Preparing
<1>9. FlushedIsSaved'
  BY <1>7 DEF AInv, Asked, FlushedIsSaved, RenameTmp, Preparing
<1> QED BY <1>1, <1>4, <1>5, <1>6, <1>8, <1>9 DEF AInv

\* After a write, good or bad, the writer goes on, and flush returns if it
\* waited.
LEMMA AfterWriteKeeps ==
    ASSUME AInv, writer.pc \in Writes, NEW ok \in BOOLEAN, AfterWrite(ok),
           ok => writer.pc = "syncdir",
           UNCHANGED <<snapshot, entries, version, unsent, chan, file, asked>>,
           older' \subseteq older
    PROVE  AInv'
<1>1. writer \in Writer /\ process \in {"down", "opening", "up", "flushing", "joining", "dropping"}
  BY DEF AInv, Memory
<1>2. /\ writer' \in Writer /\ writer'.pc \in {"none", "recv", "debounce"} /\ writer'.next = "recv"
      /\ ~writer'.ack
      /\ writer'.pc = "none" \/ writer.next # "exit"
  BY <1>1, AtFields DEF AfterWrite, Writer
<1>3. /\ writer.next = "serve" => process' = IF ok THEN "up" ELSE "down"
      /\ writer.next = "serve" /\ ~ok => writer'.pc = "none"
      /\ writer.next = "exit" => process' = "down" /\ writer'.pc = "none"
      /\ writer.next \in {"recv", "debounce"} /\ writer.ack => process' = "joining"
      /\ writer.next \in {"recv", "debounce"} /\ ~writer.ack => process' = process
      /\ failed' = ~ok
  BY <1>1, AtFields DEF AfterWrite, Writer
<1>4. /\ writer.next = "serve" => process = "opening"
      /\ process = "opening" => writer.next = "serve"
      /\ writer.next = "exit" => process = "dropping"
      /\ writer.ack => process = "flushing"
      /\ process # "down"
      /\ writer.next \in {"recv", "debounce", "serve", "exit"}
  BY <1>1 DEF AInv, WriterAt, Writes, Preparing, Writer
<1>5. Memory'
  BY <1>1, <1>2, <1>3, <1>4 DEF AInv, Memory
<1>6. WriterAt'
  BY <1>2, <1>3, <1>4 DEF WriterAt
<1>7. Messages'
  BY <1>2, <1>3, <1>4 DEF AInv, Messages
<1>8. Files' /\ SavedVersion' = SavedVersion
  BY DEF AInv, Files, SavedVersion
<1>9. InFlight'
  BY <1>2 DEF InFlight, Preparing
<1>10. FileCurrent'
  BY <1>4 DEF AInv, FileCurrent, Current
<1>11. Asked'
  BY <1>2, <1>3, <1>4 DEF AInv, Asked, Preparing
<1>12. FlushedIsSaved'
  BY <1>3, <1>4, <1>8 DEF AInv, Asked, FlushedIsSaved
<1> QED BY <1>5, <1>6, <1>7, <1>8, <1>9, <1>10, <1>11, <1>12 DEF AInv

\* The process ends; the next start finds a file that is on the disk.
LEMMA DeadKeeps ==
    ASSUME AInv, Dead, OnDisk(file'), \A f \in older' : OnDisk(f)
    PROVE  AInv'
<1>1. writer' \in Writer /\ writer'.pc = "none" /\ writer'.next = "recv" /\ ~writer'.ack
  BY AtFields DEF Dead
<1>2. Memory' /\ WriterAt'
  BY <1>1, EmptyStoreGood, StoreAssumption DEF Dead, Memory, WriterAt
<1>3. Messages'
  BY DEF Dead, Messages
<1>4. Files' /\ InFlight' /\ FileCurrent' /\ Asked' /\ FlushedIsSaved'
  BY <1>1 DEF Dead, Files, InFlight, FileCurrent, Asked, FlushedIsSaved, Preparing
<1> QED BY <1>2, <1>3, <1>4 DEF AInv

\* A loss of power leaves what is on the disk.
LEMMA PowerLossKeeps ==
    ASSUME AInv, PowerLoss
    PROVE  AInv'
<1>1. PICK f \in older \cup {file} : file' = AfterPowerLoss(f)
  BY DEF PowerLoss
<1>2. OnDisk(f)
  BY DEF AInv, Files
<1>3. AfterPowerLoss(f) = f
  BY <1>2, KindOfNoFile DEF AfterPowerLoss, OnDisk
<1> QED BY <1>1, <1>2, <1>3, DeadKeeps DEF PowerLoss

-----------------------------------------------------------------------------
(* The theorems. *)

LEMMA AInvInit == StoreInit => AInv
<1> SUFFICES ASSUME StoreInit PROVE AInv
  OBVIOUS
<1>1. writer \in Writer /\ writer.pc = "none" /\ writer.next = "recv" /\ ~writer.ack
  BY AtFields DEF StoreInit
<1>2. Memory /\ WriterAt
  BY <1>1, EmptyStoreGood, StoreAssumption DEF StoreInit, Memory, WriterAt
<1>3. Messages
  BY DEF StoreInit, Messages
<1>4. Files /\ InFlight /\ FileCurrent /\ Asked /\ FlushedIsSaved
  BY <1>1 DEF StoreInit, Files, OnDisk, InFlight, FileCurrent, Asked, FlushedIsSaved, Preparing
<1> QED BY <1>2, <1>3, <1>4 DEF AInv

LEMMA AInvStep == AInv /\ [StoreNext]_storeVars => AInv'
<1> SUFFICES ASSUME AInv, [StoreNext]_storeVars PROVE AInv'
  OBVIOUS
<1>1. CASE Open
  BY <1>1, OpenKeeps
<1>2. CASE \E k \in StoreKeys, u \in Updates : Apply(k, u)
  BY <1>2, ApplyKeeps
<1>3. CASE Notify \/ Flush \/ DropStore
  BY <1>3, NotifyKeeps, FlushKeeps, DropStoreKeeps
<1>4. CASE Recv \/ DebounceTimeout \/ CloneEntries
  BY <1>4, RecvKeeps, DebounceTimeoutKeeps, CloneKeeps
<1>5. CASE CreateTmp \/ WriteTmp \/ SyncTmp \/ RenameTmp
  BY <1>5, TmpKeeps, RenameKeeps
<1>6. CASE SyncDir
  BY <1>6, AfterWriteKeeps DEF SyncDir, Writes
<1>7. CASE WriteFails
  BY <1>7, AfterWriteKeeps DEF WriteFails, Writes, Preparing
<1>8. CASE ExitNow \/ Crash
  BY <1>8, DeadKeeps DEF ExitNow, Crash, AInv, Files, fileVars
<1>9. CASE PowerLoss
  BY <1>9, PowerLossKeeps
<1>10. CASE UNCHANGED storeVars
  <2>1. Memory' /\ WriterAt' /\ Messages'
    BY <1>10 DEF AInv, Memory, WriterAt, Messages, storeVars
  <2>2. Files' /\ InFlight' /\ FileCurrent' /\ Asked' /\ FlushedIsSaved'
    BY <1>10, FilesKept
       DEF AInv, InFlight, FileCurrent, Asked, FlushedIsSaved, storeVars, fileVars
  <2> QED BY <2>1, <2>2 DEF AInv
<1> QED
  BY <1>1, <1>2, <1>3, <1>4, <1>5, <1>6, <1>7, <1>8, <1>9, <1>10 DEF StoreNext, WriterStep

\* AInv holds in every reachable state of the store, its writer and its files.
THEOREM StoreInvariant == StoreSpec => []AInv
BY AInvInit, AInvStep, PTL DEF StoreSpec

\* write_checkpoint and open: at every point of the life of the process, and
\* after any crash or loss of power, the checkpoint can be read, is within the
\* limit, and brings back the map if it has the number of the current update.
THEOREM CheckpointCorrect == StoreSpec => []CheckpointInv
<1>1. AInv => CheckpointInv
  <2> SUFFICES ASSUME AInv PROVE CheckpointInv
    OBVIOUS
  <2>1. TypeOK
    BY DEF AInv, Memory, GoodStore, Writer, Writes, Preparing, TypeOK
  <2>2. AlwaysRestartable
    BY OnDiskReadable DEF AInv, Files, AlwaysRestartable
  <2>3. CheckpointFaithful
    BY KindOfNoFile
       DEF AInv, FileCurrent, Current, StoreOf, ReadCheckpoint, CheckpointFaithful
  <2> QED BY <2>1, <2>2, <2>3 DEF CheckpointInv
<1> QED BY <1>1, StoreInvariant, PTL

\* flush: it returns with every update before the call in the file, or with a
\* write that failed, and the process does not end before.
THEOREM FlushSaves == StoreSpec => []FlushedIsSaved
<1>1. AInv => FlushedIsSaved
  BY DEF AInv
<1> QED BY <1>1, StoreInvariant, PTL

=============================================================================
