---------------------------- MODULE Annotations ----------------------------
(***************************************************************************)
(* IS-13 annotations as data: the form in which nvnmosd stores them, the   *)
(* operations of an update, the merge of a PATCH in libnvnmos and the      *)
(* conversions between the forms (nvnmosd annotation_store.rs, state.rs,   *)
(* main.rs; libnvnmos nvnmos.cpp, nvnmos_impl.cpp).                        *)
(***************************************************************************)
EXTENDS FiniteSets, Naturals

CONSTANTS
    TextFields,     \* label and description, which the code treats alike
    Texts,          \* their values
    Tags,           \* writable tags, each with its values
    ReadOnlyTags,   \* the tags that read_only_tag names
    EntryLimit,     \* NVNMOSD_ANNOTATION_ENTRY_LIMIT
    MaxUpdates      \* bound on the updates that controllers and clients make

VARIABLE
    entries         \* Inner::entries, the store: key -> annotation

Absent == "absent"

ASSUME FormsAssumption ==
    /\ Absent \notin Texts
    /\ Tags \cap ReadOnlyTags = {}

-----------------------------------------------------------------------------
\* The subscription form.  A field is Unchanged where it is present and Reset
\* where it is absent, so its presence says it all.
Annotation == [text : [TextFields -> Texts \cup {Absent}], tags : SUBSET Tags]

BlankAnnotation == [text |-> [f \in TextFields |-> Absent], tags |-> {}]

\* The operations of an update.
Unchanged == [op |-> "unchanged"]
Reset == [op |-> "reset"]
Set(v) == [op |-> "set", value |-> v]

TextOp == {Unchanged, Reset} \cup {Set(v) : v \in Texts}

\* A JSON patch: tags are written or cleared one by one.
TagsPatch ==
    {Unchanged, Reset} \cup
    {Set([write |-> w, clear |-> c]) : w \in SUBSET (Tags \cup ReadOnlyTags),
                                       c \in SUBSET (Tags \cup ReadOnlyTags)}

Patch == [text : [TextFields -> TextOp], tags : TagsPatch]

EmptyPatch(p) == p.tags = Unchanged /\ \A f \in TextFields : p.text[f] = Unchanged

\* decode_annotation_update and make_annotation_patch refuse read-only tags, and a
\* tag that is named twice.
PatchValid(p) ==
    p.tags.op = "set" =>
        /\ (p.tags.value.write \cup p.tags.value.clear) \cap ReadOnlyTags = {}
        /\ p.tags.value.write \cap p.tags.value.clear = {}

-----------------------------------------------------------------------------
\* nmos::details::merge_annotation_patch: a reset brings the default back, and
\* leaves the read-only tags alone.
MergePatch(data, p, default) ==
    [text |-> [f \in TextFields |-> CASE p.text[f].op = "unchanged" -> data.text[f]
                                      [] p.text[f].op = "reset" -> default.text[f]
                                      [] p.text[f].op = "set" -> p.text[f].value],
     tags |-> CASE p.tags.op = "unchanged" -> data.tags
                [] p.tags.op = "reset" -> data.tags \cap ReadOnlyTags
                [] p.tags.op = "set" ->
                     (data.tags \ p.tags.value.clear) \cup p.tags.value.write]

\* Mutant: the callback reports the tags the patch writes, not the merged ones.
CallbackUpdate_WrittenOnly(merged, p) ==
    [text |-> [f \in TextFields |-> IF p.text[f].op = "set"
                                    THEN Set(merged.text[f]) ELSE p.text[f]],
     tags |-> IF p.tags.op = "set" THEN Set(p.tags.value.write) ELSE p.tags]

\* annotation_updated_handler: the operations come from the patch, the values
\* from the merged data; a change of one tag reports all writable tags.
CallbackUpdate(merged, p) ==
    [text |-> [f \in TextFields |-> IF p.text[f].op = "set"
                                    THEN Set(merged.text[f]) ELSE p.text[f]],
     tags |-> IF p.tags.op = "set" THEN Set(merged.tags \ ReadOnlyTags) ELSE p.tags]

ApplyField(old, op, absent) ==
    CASE op.op = "unchanged" -> old
      [] op.op = "set" -> op.value
      [] op.op = "reset" -> absent

\* AnnotationStore::apply on one entry.  Tags set to none are absent tags.
ApplyUpdate(entry, u) ==
    [text |-> [f \in TextFields |-> ApplyField(entry.text[f], u.text[f], Absent)],
     tags |-> ApplyField(entry.tags, u.tags, {})]

-----------------------------------------------------------------------------
\* The create form: set where present, unchanged where absent, never a reset.
CreateOperation(f, stored) ==
    IF stored.text[f] = Absent THEN Unchanged ELSE Set(stored.text[f])

AnnotationAtCreate(stored) ==
    [text |-> [f \in TextFields |-> CreateOperation(f, stored)],
     tags |-> IF stored.tags = {} THEN Unchanged
              ELSE Set([write |-> stored.tags, clear |-> {}])]

\* make_annotation: a reset at create is refused.
ValidAtCreate(p) ==
    /\ \A f \in TextFields : p.text[f] # Reset
    /\ p.tags # Reset
    /\ p.tags.op = "set" => p.tags.value.clear = {}

\* A record of the checkpoint has the fields that are present, and no operation.
CheckpointRecord(stored) ==
    [text |-> [f \in {g \in TextFields : stored.text[g] # Absent} |-> stored.text[f]],
     tags |-> stored.tags]

\* stored_annotation: the entry of a record.
StoredAnnotation(record) ==
    [text |-> [f \in TextFields |-> IF f \in DOMAIN record.text
                                    THEN record.text[f] ELSE Absent],
     tags |-> record.tags]

\* What a resource shows whose entry is stored: the entry over the defaults.
Effective(stored, default) ==
    [text |-> [f \in TextFields |-> IF stored.text[f] = Absent
                                    THEN default.text[f] ELSE stored.text[f]],
     tags |-> stored.tags \cup default.tags]

-----------------------------------------------------------------------------
\* A store maps keys to entries; a key without an entry has a blank one.
EntryOf(store, k) == IF k \in DOMAIN store THEN store[k] ELSE BlankAnnotation

Without(f, k) == [j \in DOMAIN f \ {k} |-> f[j]]

With(f, k, v) == [j \in DOMAIN f \cup {k} |-> IF j = k THEN v ELSE f[j]]

\* A new key at the limit is refused.
StoreFull(store, k, limit) == k \notin DOMAIN store /\ Cardinality(DOMAIN store) >= limit

\* AnnotationStore::apply refuses.  An entry that becomes blank is no new entry.
Refused(store, k, u, limit) ==
    ApplyUpdate(EntryOf(store, k), u) # BlankAnnotation /\ StoreFull(store, k, limit)

\* AnnotationStore::apply: an entry with nothing left is removed.
StoreApplied(store, k, u) ==
    LET entry == ApplyUpdate(EntryOf(store, k), u)
    IN  IF entry = BlankAnnotation THEN Without(store, k) ELSE With(store, k, entry)
=============================================================================
