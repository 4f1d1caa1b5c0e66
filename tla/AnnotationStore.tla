-------------------------- MODULE AnnotationStore --------------------------
(***************************************************************************)
(* The annotation store of nvnmosd and its checkpoint file: updates in     *)
(* memory, the debounced writer thread, the replacement of the file        *)
(* through a temporary one, crashes of the process and of the machine,     *)
(* restarts and the flush before an exit (nvnmosd annotation_store.rs,     *)
(* main.rs).                                                               *)
(***************************************************************************)
EXTENDS Annotations, Sequences

CONSTANTS
    StoreKeys,      \* (seed, resource type, name)
    MaxFaults       \* bound on crashes and failing file operations

ASSUME StoreAssumption == EntryLimit \in Nat /\ MaxUpdates \in Nat /\ MaxFaults \in Nat

VARIABLES
    process,    \* "down", "opening", "up", "flushing", "joining", "dropping"
    version,    \* number of the update that made entries
    unsent,     \* updates whose Dirty is not sent yet
    chan,       \* the channel to the writer
    writer,     \* the writer thread, or the main thread in open
    snapshot,   \* the clone of the map that is being written
    tmp,        \* the temporary file
    file,       \* the checkpoint file as the processes see it
    older,      \* files that a loss of power may bring back
    faults,     \* faults so far
    failed,     \* the last write failed
    asked       \* the version at the last call of flush

fileVars == <<tmp, file, older>>
storeVars == <<process, entries, version, unsent, chan, writer, snapshot, fileVars,
          faults, failed, asked>>

NoFile == [kind |-> "none"]
Torn == [kind |-> "torn"]

EmptyStore == [k \in {} |-> BlankAnnotation]

\* A checkpoint: the records, the update they go up to and whether the bytes
\* are on the disk.
Image(recs, ver, synced) ==
    [kind |-> "image", records |-> recs, version |-> ver, synced |-> synced]

\* Where the writer is, where it goes after a write, and whether flush waits.
At(pc) == [pc |-> pc, next |-> "recv", ack |-> FALSE]
Writing(pc, next, ack) == [pc |-> pc, next |-> next, ack |-> ack]

Records(store) == [k \in DOMAIN store |-> CheckpointRecord(store[k])]

StoreInit ==
    /\ process = "down"
    /\ entries = EmptyStore
    /\ version = 0
    /\ unsent = 0
    /\ chan = <<>>
    /\ writer = At("none")
    /\ snapshot = NoFile
    /\ tmp = NoFile
    /\ file = NoFile
    /\ older = {}
    /\ faults = 0
    /\ failed = FALSE
    /\ asked = 0

-----------------------------------------------------------------------------
\* Start of the process.

\* read_checkpoint and the check of the limit.
Readable(f) ==
    \/ f = NoFile
    \/ /\ f.kind = "image"
       /\ \A k \in DOMAIN f.records : f.records[k].tags \cap ReadOnlyTags = {}
       /\ Cardinality(DOMAIN f.records) <= EntryLimit

ReadCheckpoint(f) ==
    IF f = NoFile THEN EmptyStore
    ELSE [k \in DOMAIN f.records |-> StoredAnnotation(f.records[k])]

\* with_file: the map is read and, before anything is served, written back.
Open ==
    /\ process = "down"
    /\ Readable(file)
    /\ process' = "opening"
    /\ entries' = ReadCheckpoint(file)
    /\ version' = IF file = NoFile THEN 0 ELSE file.version
    /\ writer' = Writing("create", "serve", FALSE)
    /\ snapshot' = Image(Records(entries'), version', FALSE)
    /\ asked' = 0
    /\ UNCHANGED <<unsent, chan, fileVars, faults, failed>>

-----------------------------------------------------------------------------
\* Updates.

\* The map changes under the store's mutex.  An update that is refused changes
\* nothing.
Apply(k, u) ==
    /\ process \in {"up", "flushing", "joining"}
    /\ version < MaxUpdates
    /\ u.tags # Unchanged \/ \E f \in TextFields : u.text[f] # Unchanged
    /\ ~Refused(entries, k, u, EntryLimit)
    /\ entries' = StoreApplied(entries, k, u)
    /\ version' = version + 1
    /\ unsent' = unsent + 1
    /\ UNCHANGED <<process, chan, writer, snapshot, fileVars, faults, failed, asked>>

\* Mutant: the writer is never told.
Notify_Lost ==
    /\ unsent > 0
    /\ unsent' = unsent - 1
    /\ UNCHANGED <<process, entries, version, chan, writer, snapshot, fileVars, faults, failed, asked>>

\* The writer is told after the mutex is released.
Notify ==
    /\ unsent > 0
    /\ unsent' = unsent - 1
    /\ chan' = Append(chan, "dirty")
    /\ UNCHANGED <<process, entries, version, writer, snapshot, fileVars, faults, failed, asked>>

-----------------------------------------------------------------------------
\* The writer thread.

\* Mutant: a Flush is acknowledged without a write.
OnMessage_FlushIdle(msg, pc) ==
    CASE msg = "dirty" -> At("debounce")
      [] msg = "flush" -> Writing("syncdir", pc, TRUE)
      [] msg = "shutdown" -> Writing("clone", "exit", FALSE)

\* What the writer does with a message, in recv (writer_loop) and in
\* recv_timeout (debounce_then_write): a Dirty starts the debounce or starts it
\* again, a Flush is written at once and goes on where it was, a Shutdown is
\* written last.
OnMessage(msg, pc) ==
    CASE msg = "dirty" -> At("debounce")
      [] msg = "flush" -> Writing("clone", pc, TRUE)
      [] msg = "shutdown" -> Writing("clone", "exit", FALSE)

Recv ==
    /\ writer.pc \in {"recv", "debounce"}
    /\ chan # <<>>
    /\ writer' = OnMessage(Head(chan), writer.pc)
    /\ chan' = Tail(chan)
    /\ UNCHANGED <<snapshot, process, entries, version, unsent, fileVars, faults, failed, asked>>

\* The debounce ends when nothing came for its duration.
DebounceTimeout ==
    /\ writer.pc = "debounce"
    /\ chan = <<>>
    /\ writer' = Writing("clone", "recv", FALSE)
    /\ UNCHANGED <<snapshot, process, entries, version, unsent, chan, fileVars, faults, failed, asked>>

\* write_snapshot clones the map under the mutex.
CloneEntries ==
    /\ writer.pc = "clone"
    /\ writer' = [writer EXCEPT !.pc = "create"]
    /\ snapshot' = Image(Records(entries), version, FALSE)
    /\ UNCHANGED <<process, entries, version, unsent, chan, fileVars, faults, failed, asked>>

CreateTmp ==
    /\ writer.pc = "create"
    /\ tmp' = Torn
    /\ writer' = [writer EXCEPT !.pc = "write"]
    /\ UNCHANGED <<snapshot, process, entries, version, unsent, chan, file, older, faults, failed, asked>>

WriteTmp ==
    /\ writer.pc = "write"
    /\ tmp' = snapshot
    /\ writer' = [writer EXCEPT !.pc = "sync"]
    /\ UNCHANGED <<snapshot, process, entries, version, unsent, chan, file, older, faults, failed, asked>>

\* Mutant: the bytes stay in the page cache.
SyncTmp_Skipped ==
    /\ writer.pc = "sync"
    /\ writer' = [writer EXCEPT !.pc = "rename"]
    /\ UNCHANGED <<snapshot, process, entries, version, unsent, chan, fileVars, faults, failed, asked>>

SyncTmp ==
    /\ writer.pc = "sync"
    /\ tmp' = Image(tmp.records, tmp.version, TRUE)
    /\ writer' = [writer EXCEPT !.pc = "rename"]
    /\ UNCHANGED <<snapshot, process, entries, version, unsent, chan, file, older, faults, failed, asked>>

\* The rename replaces the file at once; on the disk it may come later.
RenameTmp ==
    /\ writer.pc = "rename"
    /\ file' = tmp
    /\ tmp' = NoFile
    /\ older' = older \cup {file}
    /\ writer' = [writer EXCEPT !.pc = "syncdir"]
    /\ UNCHANGED <<snapshot, process, entries, version, unsent, chan, faults, failed, asked>>

\* Where the writer goes after a write: an ack is sent to flush, the thread
\* ends, or open has proved that the file can be replaced and serves.
AfterWrite(ok) ==
    /\ failed' = ~ok
    /\ writer' = IF writer.next = "exit" \/ (writer.next = "serve" /\ ~ok) THEN At("none")
                 ELSE At(IF writer.next = "serve" THEN "recv" ELSE writer.next)
    /\ process' = CASE writer.next = "serve" -> IF ok THEN "up" ELSE "down"
                    [] writer.next = "exit" -> "down"
                    [] writer.next \in {"recv", "debounce"} /\ writer.ack -> "joining"
                    [] OTHER -> process

\* The directory is synced as far as that is possible; nobody looks at the result.
SyncDir ==
    /\ writer.pc = "syncdir"
    /\ older' \in {{}, older}
    /\ AfterWrite(TRUE)
    /\ UNCHANGED <<snapshot, entries, version, unsent, chan, tmp, file, faults, asked>>

\* A file operation fails: the temporary file is removed, as far as that is
\* possible, and the error is logged, or ends open.
WriteFails ==
    /\ writer.pc \in {"create", "write", "sync", "rename"}
    /\ faults < MaxFaults
    /\ faults' = faults + 1
    /\ tmp' \in {NoFile, tmp}
    /\ AfterWrite(FALSE)
    /\ UNCHANGED <<snapshot, entries, version, unsent, chan, file, older, asked>>

-----------------------------------------------------------------------------
\* The end of the process.

\* The memory of the process is gone.
Dead ==
    /\ process' = "down"
    /\ entries' = EmptyStore
    /\ version' = 0
    /\ unsent' = 0
    /\ chan' = <<>>
    /\ writer' = At("none")
    /\ snapshot' = NoFile
    /\ failed' = FALSE
    /\ asked' = 0

\* main: the gRPC server has ended, the map is flushed.
Flush ==
    /\ process = "up"
    /\ process' = "flushing"
    /\ chan' = Append(chan, "flush")
    /\ asked' = version
    /\ UNCHANGED <<entries, version, unsent, writer, snapshot, fileVars, faults, failed>>

\* main drops its clone of the store.  The callbacks of Nodes that still exist
\* hold others, and the process just ends.
ExitNow ==
    /\ process = "joining"
    /\ Dead
    /\ UNCHANGED <<fileVars, faults>>

\* The clone was the last, so no Node is left to update anything: Drop sends
\* Shutdown and joins the writer.
DropStore ==
    /\ process = "joining"
    /\ unsent = 0
    /\ process' = "dropping"
    /\ chan' = Append(chan, "shutdown")
    /\ UNCHANGED <<entries, version, unsent, writer, snapshot, fileVars, faults, failed, asked>>

\* The process is killed; its files stay as they are.
Crash ==
    /\ process # "down"
    /\ faults < MaxFaults
    /\ faults' = faults + 1
    /\ Dead
    /\ UNCHANGED fileVars

\* The machine stops.  A rename that is not on the disk yet may be undone, and
\* bytes that were not synced are lost.
AfterPowerLoss(f) == IF f.kind = "image" /\ ~f.synced THEN Torn ELSE f

PowerLoss ==
    /\ faults < MaxFaults
    /\ faults' = faults + 1
    /\ Dead
    /\ \E f \in older \cup {file} : file' = AfterPowerLoss(f)
    /\ tmp' = AfterPowerLoss(tmp)
    /\ older' = {}

-----------------------------------------------------------------------------
Updates ==
    [text : [TextFields -> TextOp],
     tags : {Unchanged, Reset} \cup {Set(t) : t \in SUBSET Tags}]

WriterStep ==
    \/ Recv
    \/ DebounceTimeout
    \/ CloneEntries
    \/ CreateTmp
    \/ WriteTmp
    \/ SyncTmp
    \/ RenameTmp
    \/ SyncDir

StoreNext ==
    \/ Open
    \/ \E k \in StoreKeys, u \in Updates : Apply(k, u)
    \/ Notify
    \/ WriterStep
    \/ WriteFails
    \/ Flush
    \/ ExitNow
    \/ DropStore
    \/ Crash
    \/ PowerLoss

StoreSpec == StoreInit /\ [][StoreNext]_storeVars

\* The threads run; nothing is assumed of clients, faults or restarts.
StoreFairSpec == StoreSpec /\ WF_storeVars(WriterStep) /\ WF_storeVars(Notify)

-----------------------------------------------------------------------------
SavedVersion == IF file.kind = "image" THEN file.version ELSE 0

\* The map holds sanitised annotations of known keys, none of them blank, and the
\* writer is at one of its steps.
TypeOK ==
    /\ process \in {"down", "opening", "up", "flushing", "joining", "dropping"}
    /\ DOMAIN entries \subseteq StoreKeys
    /\ \A k \in DOMAIN entries : entries[k] \in Annotation \ {BlankAnnotation}
    /\ version \in 0..MaxUpdates
    /\ writer.pc \in {"none", "recv", "debounce", "clone", "create", "write", "sync",
                      "rename", "syncdir"}

\* Whatever happens to the process or the machine, and whenever, the next start
\* finds a checkpoint that open accepts: complete, within the limit, without
\* read-only tags.
AlwaysRestartable == Readable(file)

\* When the file holds the update the map holds, a restart would bring back
\* exactly that map: no form of an entry is lost on the way to the disk and back.
CheckpointFaithful ==
    process \notin {"down"} /\ file.kind = "image" /\ file.version = version =>
        ReadCheckpoint(file) = entries

\* At any point of the life of the process, and after any crash, the checkpoint
\* can be read and is what was stored.
CheckpointInv == TypeOK /\ AlwaysRestartable /\ CheckpointFaithful

\* flush returns after a write that has every update before the call, unless
\* that write failed, and the process does not end before.
FlushedIsSaved ==
    process \in {"joining", "dropping"} /\ ~failed => SavedVersion >= asked

\* An update reaches the file without any further update, or a write failed, or
\* the process ended.
UpdateReachesFile ==
    \A v \in 1..MaxUpdates :
        (process = "up" /\ version = v) ~>
            (SavedVersion >= v \/ failed \/ process \in {"down", "opening"})
=============================================================================
