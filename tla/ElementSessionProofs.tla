------------------------ MODULE ElementSessionProofs ------------------------
(***************************************************************************)
(* SessionsHeld, NothingTwice, PausedIsSynced and PublishedAgrees of        *)
(* ElementSession for every number of sessions, state changes, activations, *)
(* failed swaps and errors.                                                 *)
(*                                                                          *)
(* None of them is inductive.  EInv adds what the code keeps in its control *)
(* flow: which state and which mode each phase of a state change has        *)
(* (Modes), what the slot holds in it (SlotAt), whose session it is         *)
(* (OwnerOf), how far the two calls of a session can have come (AddCalls,   *)
(* SyncCalls) and, for the data path, who still has to set `active` or the  *)
(* chain, and which event of `upset` excuses that nobody has (RealOwed,     *)
(* ActiveOwed, Marked, ThreadOwed).                                         *)
(***************************************************************************)
EXTENDS ElementSession, FiniteSetTheorems, TLAPS

-----------------------------------------------------------------------------
(* The inductive invariant. *)

\* The phases of a state change in which the thread carries the session
\* with the slot empty, and those in which `active` and the chain may differ.
Carrying == {"joining", "discarding", "opening", "syncing", "adding", "settling",
             "closewait", "closed"}
Teardown == {"sync", "syncing", "closing", "settling", "closewait", "closed",
             "restoring", "refaking"}
ThreadPhases == {"idle", "activate", "pausing"} \cup Carrying \cup Teardown

Unopened == {"opening", "subscribing", "adding", "rollback", "ready", "failed"}
SessionPhases == {"unused", "held", "closing", "gone"} \cup Unopened
Live == {"opening", "subscribing", "adding", "ready", "held"}

SessionRecord ==
    [at : SessionPhases, file : BOOLEAN, resource : BOOLEAN,
     add : Calls, inflight_add : BOOLEAN, sync : Calls, inflight_sync : BOOLEAN,
     task : {"none", "reading", "applying", "ended"},
     incomplete : BOOLEAN, lost : BOOLEAN]

ETyped ==
    /\ state \in {"NULL", "READY", "PAUSED"}
    /\ thread \in [at : ThreadPhases, sid : Sids \cup {NoSid},
                   mode : {"none", "open", "pause", "null"}, plan : {"real", "fake"}]
    /\ settings \in Settings
    /\ slot \in [phase : {"none", "pending", "open"}, sid : Sids \cup {NoSid}]
    /\ (slot.phase = "none") <=> (slot.sid = NoSid)
    /\ sess \in [Sids -> SessionRecord]
    /\ daemon \in [Sids -> [session : {"none", "open", "closed"}, adds : Nat]]
    /\ ids \in {"none", "node", "all"}
    /\ disposed \in BOOLEAN

\* The mode and the element's state in each phase of a state change.
Modes ==
    /\ thread.at = "idle" => thread = IdleThread
    /\ thread.at \in {"joining", "discarding", "opening"} => thread.mode = "open"
    /\ thread.at \in {"activate", "sync", "syncing"} => thread.mode \in {"open", "pause"}
    /\ thread.at \in {"pausing", "adding"} => thread.mode = "pause"
    /\ thread.at \in {"closing", "settling", "closewait", "closed"}
          => thread.mode \in {"open", "null"}
    /\ thread.at \in {"restoring", "refaking"} => thread.mode # "none"
    /\ thread.mode = "open" => state = "NULL"
    /\ thread.mode \in {"pause", "null"} => state = "READY"
    /\ disposed => thread.at = "idle" /\ state = "NULL"

\* What the slot holds in each phase: a close never meets a pending open.
SlotAt ==
    /\ thread.at \in Carrying => slot = NoSlot
    /\ thread.at \in {"activate", "sync", "pausing"} => slot = Open(thread.sid)
    /\ thread.at \in {"restoring", "refaking"} =>
         IF thread.mode = "pause" THEN slot = Open(thread.sid) ELSE slot = NoSlot
    /\ thread.at = "closing" => slot.phase = "open"
    /\ thread.at = "idle" /\ state # "NULL" => slot.phase = "open"
    /\ disposed => slot = NoSlot

\* How far the session has come that the slot holds or the thread carries.
OwnedAt ==
    /\ slot.phase = "open" => sess[slot.sid].at = "held"
    /\ slot.phase = "pending" => sess[slot.sid].at \in Unopened
    /\ thread.at \in {"joining", "opening"} =>
         thread.sid \in Sids /\ sess[thread.sid].at \in Unopened
    /\ thread.at \in {"syncing", "adding", "settling"} =>
         thread.sid \in Sids /\ sess[thread.sid].at = "held"
    /\ thread.at \in {"joining", "discarding"} => Unused # {}

\* A live session is the slot's, the thread's, or a finalised element's.
OwnerOf ==
    \A s \in Sids : sess[s].at \in Live =>
        \/ slot.sid = s
        \/ thread.sid = s
             /\ thread.at \in {"joining", "opening", "syncing", "adding", "settling"}
        \/ disposed /\ sess[s].at # "held"

OneLive ==
    \A s, t \in Sids : sess[s].at \in Live /\ sess[t].at \in Live => s = t

DaemonAt(s) ==
    daemon[s].session = "open" =>
        \/ sess[s].at \in {"subscribing", "adding", "rollback", "ready", "held", "closing"}
        \/ sess[s].lost

DaemonHas == \A s \in Sids : DaemonAt(s)

\* The deferred AddSender of each session: what the daemon has added the
\* element knows of, holds in flight, or is about to be told.
AddAt(s) ==
    /\ daemon[s].adds \in {0, 1}
    /\ sess[s].at \in {"unused"} \cup (Unopened \ {"ready"}) => daemon[s].adds = 0
    /\ sess[s].at \in {"unused"} \cup Unopened =>
         sess[s].add = "none" /\ ~sess[s].inflight_add
    /\ sess[s].add \in {"sent", "aborted"} => daemon[s].adds = 0
    /\ sess[s].add = "sent" => sess[s].at = "held"
    /\ sess[s].add = "aborted" => sess[s].at \in {"closing", "gone"}
    /\ sess[s].add = "sent" =>
         sess[s].inflight_add \/ (thread.at = "adding" /\ thread.sid = s)
    /\ sess[s].at \in {"ready", "held"} /\ daemon[s].adds = 1 =>
         \/ sess[s].resource \/ sess[s].inflight_add
         \/ sess[s].add = "ok" /\ thread.at = "adding" /\ thread.sid = s

AddCalls == \A s \in Sids : AddAt(s)

Synced(s) == ~sess[s].incomplete /\ sess[s].sync \in {"none", "ok"}

\* The auto-activation: settled, or the session is marked, or the state
\* change that made it still runs.
SyncCalls ==
    /\ \A s \in Sids : sess[s].at \in {"unused"} \cup Unopened => Synced(s)
    /\ slot.phase = "open" /\ thread.at \in {"idle", "restoring", "refaking"} =>
         Synced(slot.sid) \/ sess[slot.sid].incomplete
    /\ thread.at \in {"activate", "sync", "pausing", "adding"} => Synced(thread.sid)
    /\ thread.at = "syncing" => ~sess[thread.sid].incomplete
    /\ state = "PAUSED" => thread.at = "idle" /\ Synced(slot.sid)

\* The session whose ids are published: the slot's, or the one in a call.
IdsOf ==
    IF thread.at \in {"adding", "syncing"} THEN Open(thread.sid) ELSE slot

IdsKept ==
    \/ disposed
    \/ thread.at \in {"closing", "settling", "closewait", "closed"}
    \/ thread.at \in {"activate", "sync", "syncing"} /\ thread.mode = "open"
    \/ ids = resource_ids(IdsOf, sess)

\* The control path.
ControlInv ==
    /\ ETyped /\ Modes /\ SlotAt /\ OwnedAt /\ OwnerOf /\ OneLive /\ DaemonHas
    /\ AddCalls /\ SyncCalls /\ IdsKept

WorkRecord == [at : {"none", "queued", "swap", "mark", "applied", "failed"},
               ask : {"real", "off", "bad"}]

PathTyped ==
    /\ work \in [Sids -> WorkRecord]
    /\ chain \in {"fake", "real", "gone"}
    /\ active \in BOOLEAN
    /\ upset \subseteq Upsets

\* A session whose task waits for an event has no worker.
WorkerOf ==
    \A s \in Sids :
        /\ sess[s].task \in {"none", "reading"} => work[s].at = "none"
        /\ sess[s].at \in {"unused", "opening", "subscribing"} => sess[s].task = "none"

\* The events that excuse a real chain behind an inactive element, and those that
\* excuse an active element without one.
RealExcused == "overlap" \in upset \/ "unrestored" \in upset
ActiveExcused == \E w \in upset : w # "unrestored"

\* Outside the phases that swap or tear down, a real chain is active or
\* about to be marked so.
RealOwed ==
    \/ thread.at \in Teardown \/ chain # "real" \/ active \/ RealExcused
    \/ \E s \in Sids : work[s].at = "mark" /\ work[s].ask = "real"

\* And an active element has a real chain, or a worker that is about to swap or to mark.
ActiveOwed ==
    \/ thread.at \in Teardown \/ ~active \/ chain = "real" \/ ActiveExcused
    \/ \E s \in Sids : Midway(s)

\* A worker about to mark the element has left the chain as it marks it.
Marked ==
    \A s \in Sids : work[s].at = "mark" =>
        IF work[s].ask = "real" THEN chain = "real" \/ ActiveExcused
        ELSE chain # "real" \/ "overlap" \in upset

\* So has a state change about to set `active`, or that has cleared it.
ThreadOwed ==
    /\ thread.at \in {"sync", "syncing"} => chain = "real" \/ ActiveExcused
    /\ thread.at = "refaking" => ~active \/ "overlap" \in upset

PathInv ==
    /\ PathTyped /\ WorkerOf /\ RealOwed /\ ActiveOwed /\ Marked /\ ThreadOwed
    /\ Overlap => "overlap" \in upset

EInv == ControlInv /\ PathInv

-----------------------------------------------------------------------------
(* The tasks on the runtime: each changes its own session only. *)

DaemonRecord == [session : {"none", "open", "closed"}, adds : Nat]

OnlySession(s) ==
    /\ UNCHANGED <<state, thread, settings, slot, ids, disposed>>
    /\ sess' \in [Sids -> SessionRecord]
    /\ daemon' \in [Sids -> DaemonRecord]
    /\ \A t \in Sids : t # s => sess'[t] = sess[t] /\ daemon'[t] = daemon[t]

\* Each assignment to a field of a Session keeps its type.
LEMMA FieldTyped ==
    ASSUME NEW x \in SessionRecord
    PROVE  /\ \A p \in SessionPhases : [x EXCEPT !.at = p] \in SessionRecord
           /\ \A b \in BOOLEAN : [x EXCEPT !.file = b] \in SessionRecord
           /\ \A b \in BOOLEAN : [x EXCEPT !.resource = b] \in SessionRecord
           /\ \A c \in Calls : [x EXCEPT !.add = c] \in SessionRecord
           /\ \A b \in BOOLEAN : [x EXCEPT !.inflight_add = b] \in SessionRecord
           /\ \A c \in Calls : [x EXCEPT !.sync = c] \in SessionRecord
           /\ \A b \in BOOLEAN : [x EXCEPT !.inflight_sync = b] \in SessionRecord
           /\ \A c \in {"none", "reading", "applying", "ended"} :
                [x EXCEPT !.task = c] \in SessionRecord
           /\ \A b \in BOOLEAN : [x EXCEPT !.incomplete = b] \in SessionRecord
           /\ \A b \in BOOLEAN : [x EXCEPT !.lost = b] \in SessionRecord
BY DEF SessionRecord

LEMMA SidsNotNone == \A s \in Sids : s # NoSid
BY BoundsAssumption DEF Sids, NoSid

\* A step of one session that opens it, closes it or answers its calls, and
\* keeps what is known of it, keeps the invariant.
LEMMA TaskFrame ==
    ASSUME ControlInv, NEW s \in Sids, OnlySession(s),
           \/ sess'[s].at = sess[s].at
           \/ sess[s].at \in Unopened /\ sess'[s].at \in Unopened
           \/ sess[s].at = "closing" /\ sess'[s].at = "gone"
           \/ disposed /\ sess[s].at = "ready" /\ sess'[s].at = "closing",
           sess'[s].at \in Live => sess[s].at \in Live,
           sess[s].at = "held" => sess'[s].resource = sess[s].resource,
           Synced(s) => Synced(s)', sess[s].incomplete <=> sess'[s].incomplete,
           DaemonAt(s)', AddAt(s)'
    PROVE  ControlInv'
<1>1. /\ UNCHANGED <<state, thread, settings, slot, ids, disposed>>
      /\ sess' \in [Sids -> SessionRecord]
      /\ daemon' \in [Sids -> DaemonRecord]
      /\ \A t \in Sids : t # s => sess'[t] = sess[t] /\ daemon'[t] = daemon[t]
  BY DEF OnlySession
<1>2. ETyped' /\ Modes' /\ SlotAt'
  BY <1>1 DEF ControlInv, ETyped, Modes, SlotAt, DaemonRecord
<1>3. OwnedAt'
  <2>1. slot.phase = "open" => slot.sid \in Sids
    BY DEF ControlInv, ETyped
  <2>2. slot.phase = "pending" => slot.sid \in Sids
    BY DEF ControlInv, ETyped
  <2>3. sess[s].at = "closing" => s # slot.sid
    BY <2>1, <2>2, SidsNotNone DEF ControlInv, OwnedAt, Unopened, ETyped
  <2>4. sess[s].at = "unused" <=> sess'[s].at = "unused"
    BY DEF Unopened
  <2>5. Unused' = Unused
    BY <1>1, <2>4 DEF Unused
  <2>6. disposed => slot = NoSlot /\ thread.at = "idle"
    BY DEF ControlInv, SlotAt, Modes
  <2> QED BY <1>1, <2>1, <2>2, <2>3, <2>5, <2>6 DEF ControlInv, OwnedAt, Unopened, NoSlot
<1>4. OwnerOf'
  BY <1>1 DEF ControlInv, OwnerOf, Live, Unopened
<1>5. OneLive'
  BY <1>1 DEF ControlInv, OneLive
<1>6. DaemonHas'
  BY <1>1 DEF ControlInv, DaemonHas, DaemonAt
<1>7. AddCalls'
  BY <1>1 DEF ControlInv, AddCalls, AddAt
<1>8. SyncCalls'
  <2>1. \A t \in Sids : Synced(t) => Synced(t)'
    BY <1>1 DEF Synced
  <2>2. \A t \in Sids : sess[t].incomplete <=> sess'[t].incomplete
    BY <1>1
  <2>3. \A t \in Sids : sess'[t].at \in {"unused"} \cup Unopened
                          => sess[t].at \in {"unused"} \cup Unopened
    BY <1>1 DEF Unopened
  <2>4. thread.at \in {"activate", "sync", "syncing", "pausing", "adding"} => thread.sid \in Sids
    BY DEF ControlInv, OwnedAt, SlotAt, Open, ETyped
  <2>5. slot.phase = "open" => slot.sid \in Sids
    BY DEF ControlInv, ETyped
  <2>6. state = "PAUSED" /\ thread.at = "idle" => slot.phase = "open"
    BY DEF ControlInv, SlotAt
  <2> QED BY <1>1, <2>1, <2>2, <2>3, <2>4, <2>5, <2>6 DEF ControlInv, SyncCalls
<1>9. IdsKept'
  <2>1. slot.phase = "open" => slot.sid \in Sids /\ sess[slot.sid].at = "held"
    BY DEF ControlInv, ETyped, OwnedAt
  <2>2. thread.at \in {"adding", "syncing"} =>
          thread.sid \in Sids /\ sess[thread.sid].at = "held"
    BY DEF ControlInv, OwnedAt
  <2>3. IdsOf' = IdsOf
    BY <1>1 DEF IdsOf
  <2>4. IdsOf.phase = "open" => IdsOf.sid \in Sids /\ sess[IdsOf.sid].at = "held"
    BY <2>1, <2>2 DEF IdsOf, Open
  <2>5. \A t \in Sids : sess[t].at = "held" => sess'[t].resource = sess[t].resource
    BY <1>1
  <2>6. resource_ids(IdsOf, sess') = resource_ids(IdsOf, sess)
    BY <2>4, <2>5 DEF resource_ids
  <2> QED BY <1>1, <2>3, <2>6 DEF ControlInv, IdsKept
<1> QED BY <1>2, <1>3, <1>4, <1>5, <1>6, <1>7, <1>8, <1>9 DEF ControlInv

LEMMA OpenSessionControl ==
    ASSUME ControlInv, NEW s \in Sids, OpenSession(s)
    PROVE  ControlInv'
<1>1. OnlySession(s)
  <2>1. sess[s] \in SessionRecord /\ daemon[s] \in DaemonRecord
    BY DEF ControlInv, ETyped, DaemonRecord
  <2>2. sess' \in [Sids -> SessionRecord]
    <3>1. \/ sess' = [sess EXCEPT ![s] = [sess[s] EXCEPT !.at = "subscribing"]]
          \/ sess' = [sess EXCEPT ![s] = [sess[s] EXCEPT !.at = "failed"]]
      BY DEF OpenSession
    <3>2. /\ [sess[s] EXCEPT !.at = "subscribing"] \in SessionRecord
          /\ [sess[s] EXCEPT !.at = "failed"] \in SessionRecord
      BY <2>1, FieldTyped DEF SessionPhases, Unopened, Calls
    <3> QED BY <3>1, <3>2 DEF ControlInv, ETyped
  <2>3. daemon' \in [Sids -> DaemonRecord]
    BY <2>1 DEF ControlInv, ETyped, OpenSession, DaemonRecord
  <2>4. /\ UNCHANGED <<state, thread, settings, slot, ids, disposed>>
        /\ \A t \in Sids : t # s => sess'[t] = sess[t] /\ daemon'[t] = daemon[t]
    BY DEF ControlInv, ETyped, OpenSession, element
  <2> QED BY <2>2, <2>3, <2>4 DEF OnlySession
<1>2. /\ sess[s].at = "opening" /\ sess'[s].at \in {"subscribing", "failed"}
      /\ \A f \in {"add", "inflight_add", "resource", "sync", "incomplete", "lost"} :
           sess'[s][f] = sess[s][f]
      /\ daemon'[s].adds = daemon[s].adds
      /\ sess'[s].at = "failed" => daemon'[s] = daemon[s]
  BY DEF OpenSession, ControlInv, ETyped, SessionRecord
<1>3. DaemonAt(s)' /\ AddAt(s)' /\ (Synced(s) => Synced(s)')
  BY <1>1, <1>2 DEF ControlInv, DaemonHas, DaemonAt, AddCalls, AddAt, Synced, Unopened,
                    OnlySession
<1> QED BY <1>1, <1>2, <1>3, TaskFrame DEF Unopened, Live

LEMMA SubscribeActivationsControl ==
    ASSUME ControlInv, NEW s \in Sids, SubscribeActivations(s)
    PROVE  ControlInv'
<1>1. OnlySession(s)
  <2>1. sess[s] \in SessionRecord /\ daemon[s] \in DaemonRecord
    BY DEF ControlInv, ETyped, DaemonRecord
  <2>2. sess' \in [Sids -> SessionRecord]
    <3>1. \/ sess' = [sess EXCEPT ![s] = [[sess[s] EXCEPT !.task = "reading"] EXCEPT !.at = "adding"]]
          \/ sess' = [sess EXCEPT ![s] = [[sess[s] EXCEPT !.task = "reading"] EXCEPT !.at = "ready"]]
          \/ sess' = [sess EXCEPT ![s] = [sess[s] EXCEPT !.at = "rollback"]]
      BY DEF SubscribeActivations
    <3>2. /\ [[sess[s] EXCEPT !.task = "reading"] EXCEPT !.at = "adding"] \in SessionRecord
          /\ [[sess[s] EXCEPT !.task = "reading"] EXCEPT !.at = "ready"] \in SessionRecord
          /\ [sess[s] EXCEPT !.at = "rollback"] \in SessionRecord
      BY <2>1, FieldTyped DEF SessionPhases, Unopened, Calls
    <3> QED BY <3>1, <3>2 DEF ControlInv, ETyped
  <2>3. daemon' \in [Sids -> DaemonRecord]
    BY <2>1 DEF ControlInv, ETyped, SubscribeActivations, DaemonRecord
  <2>4. /\ UNCHANGED <<state, thread, settings, slot, ids, disposed>>
        /\ \A t \in Sids : t # s => sess'[t] = sess[t] /\ daemon'[t] = daemon[t]
    BY DEF ControlInv, ETyped, SubscribeActivations, element
  <2> QED BY <2>2, <2>3, <2>4 DEF OnlySession
<1>2. /\ sess[s].at = "subscribing"
      /\ sess'[s].at \in {"adding", "ready", "rollback"}
      /\ \A f \in {"add", "inflight_add", "resource", "sync", "incomplete", "lost"} :
           sess'[s][f] = sess[s][f]
      /\ daemon'[s] = daemon[s]
  BY DEF SubscribeActivations, ControlInv, ETyped, SessionRecord
<1>3. DaemonAt(s)' /\ AddAt(s)' /\ (Synced(s) => Synced(s)')
  BY <1>1, <1>2 DEF ControlInv, DaemonHas, DaemonAt, AddCalls, AddAt, Synced, Unopened,
                    OnlySession
<1> QED BY <1>1, <1>2, <1>3, TaskFrame DEF Unopened, Live

LEMMA AddResourceControl ==
    ASSUME ControlInv, NEW s \in Sids, AddResource(s)
    PROVE  ControlInv'
<1>1. OnlySession(s)
  <2>1. sess[s] \in SessionRecord /\ daemon[s] \in DaemonRecord
    BY DEF ControlInv, ETyped, DaemonRecord
  <2>2. sess' \in [Sids -> SessionRecord]
    <3>1. \/ sess' = [sess EXCEPT ![s] = [[sess[s] EXCEPT !.at = "ready"] EXCEPT !.resource = TRUE]]
          \/ sess' = [sess EXCEPT ![s] = [[sess[s] EXCEPT !.at = "rollback"] EXCEPT !.task = "ended"]]
      BY DEF AddResource
    <3>2. /\ [[sess[s] EXCEPT !.at = "ready"] EXCEPT !.resource = TRUE] \in SessionRecord
          /\ [[sess[s] EXCEPT !.at = "rollback"] EXCEPT !.task = "ended"] \in SessionRecord
      BY <2>1, FieldTyped DEF SessionPhases, Unopened, Calls
    <3> QED BY <3>1, <3>2 DEF ControlInv, ETyped
  <2>3. daemon' \in [Sids -> DaemonRecord]
    BY <2>1 DEF ControlInv, ETyped, AddResource, DaemonRecord
  <2>4. /\ UNCHANGED <<state, thread, settings, slot, ids, disposed>>
        /\ \A t \in Sids : t # s => sess'[t] = sess[t] /\ daemon'[t] = daemon[t]
    BY DEF ControlInv, ETyped, AddResource, element
  <2> QED BY <2>2, <2>3, <2>4 DEF OnlySession
<1>2. /\ sess[s].at = "adding"
      /\ \A f \in {"add", "inflight_add", "sync", "incomplete", "lost"} :
           sess'[s][f] = sess[s][f]
      /\ \/ sess'[s].at = "rollback" /\ daemon'[s] = daemon[s]
         \/ /\ sess'[s].at = "ready" /\ sess'[s].resource
            /\ daemon'[s].session = daemon[s].session
            /\ daemon'[s].adds = daemon[s].adds + 1
  BY DEF AddResource, ControlInv, ETyped, SessionRecord
<1>3. DaemonAt(s)' /\ AddAt(s)' /\ (Synced(s) => Synced(s)')
  BY <1>1, <1>2 DEF ControlInv, DaemonHas, DaemonAt, AddCalls, AddAt, Synced, Unopened,
                    OnlySession
<1> QED BY <1>1, <1>2, <1>3, TaskFrame DEF Unopened, Live

LEMMA RollbackControl ==
    ASSUME ControlInv, NEW s \in Sids, Rollback(s)
    PROVE  ControlInv'
<1>1. OnlySession(s)
  <2>1. sess[s] \in SessionRecord /\ daemon[s] \in DaemonRecord
    BY DEF ControlInv, ETyped, DaemonRecord
  <2>2. sess' \in [Sids -> SessionRecord]
    <3>1. \/ sess' = [sess EXCEPT ![s] = [sess[s] EXCEPT !.at = "failed"]]
          \/ sess' = [sess EXCEPT ![s] = [[sess[s] EXCEPT !.at = "failed"] EXCEPT !.lost = TRUE]]
      BY DEF Rollback, CloseSession
    <3>2. /\ [sess[s] EXCEPT !.at = "failed"] \in SessionRecord
          /\ [[sess[s] EXCEPT !.at = "failed"] EXCEPT !.lost = TRUE] \in SessionRecord
      BY <2>1, FieldTyped DEF SessionPhases, Unopened, Calls
    <3> QED BY <3>1, <3>2 DEF ControlInv, ETyped
  <2>3. daemon' \in [Sids -> DaemonRecord]
    BY <2>1 DEF ControlInv, ETyped, Rollback, CloseSession, DaemonRecord
  <2>4. /\ UNCHANGED <<state, thread, settings, slot, ids, disposed>>
        /\ \A t \in Sids : t # s => sess'[t] = sess[t] /\ daemon'[t] = daemon[t]
    BY DEF ControlInv, ETyped, Rollback, CloseSession, element
  <2> QED BY <2>2, <2>3, <2>4 DEF OnlySession
<1>2. /\ sess[s].at = "rollback" /\ sess'[s].at = "failed"
      /\ \A f \in {"add", "inflight_add", "resource", "sync", "incomplete"} :
           sess'[s][f] = sess[s][f]
      /\ daemon'[s].adds = daemon[s].adds
      /\ daemon'[s].session = "closed" \/ sess'[s].lost
  BY DEF Rollback, CloseSession, ControlInv, ETyped, SessionRecord
<1>3. DaemonAt(s)' /\ AddAt(s)' /\ (Synced(s) => Synced(s)')
  BY <1>1, <1>2 DEF ControlInv, DaemonHas, DaemonAt, AddCalls, AddAt, Synced, Unopened,
                    OnlySession
<1> QED BY <1>1, <1>2, <1>3, TaskFrame DEF Unopened, Live

LEMMA CloseLandsControl ==
    ASSUME ControlInv, NEW s \in Sids, CloseLands(s)
    PROVE  ControlInv'
<1>1. OnlySession(s)
  <2>1. sess[s] \in SessionRecord /\ daemon[s] \in DaemonRecord
    BY DEF ControlInv, ETyped, DaemonRecord
  <2>2. sess' \in [Sids -> SessionRecord]
    <3>1. \/ sess' = [sess EXCEPT ![s] = [sess[s] EXCEPT !.at = "gone"]]
          \/ sess' = [sess EXCEPT ![s] = [[sess[s] EXCEPT !.at = "gone"] EXCEPT !.lost = TRUE]]
      BY DEF CloseLands, CloseSession
    <3>2. /\ [sess[s] EXCEPT !.at = "gone"] \in SessionRecord
          /\ [[sess[s] EXCEPT !.at = "gone"] EXCEPT !.lost = TRUE] \in SessionRecord
      BY <2>1, FieldTyped DEF SessionPhases, Unopened, Calls
    <3> QED BY <3>1, <3>2 DEF ControlInv, ETyped
  <2>3. daemon' \in [Sids -> DaemonRecord]
    BY <2>1 DEF ControlInv, ETyped, CloseLands, CloseSession, DaemonRecord
  <2>4. /\ UNCHANGED <<state, thread, settings, slot, ids, disposed>>
        /\ \A t \in Sids : t # s => sess'[t] = sess[t] /\ daemon'[t] = daemon[t]
    BY DEF ControlInv, ETyped, CloseLands, CloseSession, element
  <2> QED BY <2>2, <2>3, <2>4 DEF OnlySession
<1>2. /\ sess[s].at = "closing" /\ sess'[s].at = "gone"
      /\ \A f \in {"add", "inflight_add", "resource", "sync", "incomplete"} :
           sess'[s][f] = sess[s][f]
      /\ daemon'[s].adds = daemon[s].adds
      /\ daemon'[s].session = "closed" \/ sess'[s].lost
  BY DEF CloseLands, CloseSession, ControlInv, ETyped, SessionRecord
<1>3. DaemonAt(s)' /\ AddAt(s)' /\ (Synced(s) => Synced(s)')
  BY <1>1, <1>2 DEF ControlInv, DaemonHas, DaemonAt, AddCalls, AddAt, Synced, Unopened,
                    OnlySession
<1> QED BY <1>1, <1>2, <1>3, TaskFrame DEF Unopened, Live

LEMMA DropSessionControl ==
    ASSUME ControlInv, NEW s \in Sids, DropSession(s)
    PROVE  ControlInv'
<1>1. OnlySession(s)
  <2>1. sess[s] \in SessionRecord /\ daemon[s] \in DaemonRecord
    BY DEF ControlInv, ETyped, DaemonRecord
  <2>2. sess' \in [Sids -> SessionRecord]
    BY <2>1
    DEF ControlInv, ETyped, DropSession, Consumed, NewSession, SessionRecord, SessionPhases,
        Unopened, Calls
  <2>3. daemon' \in [Sids -> DaemonRecord]
    BY <2>1 DEF ControlInv, ETyped, DropSession, DaemonRecord
  <2>4. /\ UNCHANGED <<state, thread, settings, slot, ids, disposed>>
        /\ \A t \in Sids : t # s => sess'[t] = sess[t] /\ daemon'[t] = daemon[t]
    BY DEF ControlInv, ETyped, DropSession, element
  <2> QED BY <2>2, <2>3, <2>4 DEF OnlySession
<1>2. /\ sess[s].at = "ready" /\ sess'[s].at = "closing" /\ disposed
      /\ sess[s].add = "none" /\ sess'[s].add = "none" /\ sess'[s].sync = "none"
      /\ sess'[s].incomplete = FALSE /\ sess[s].incomplete = FALSE
      /\ daemon'[s] = daemon[s]
  BY DEF DropSession, Consumed, NewSession, ControlInv, ETyped, SessionRecord, AddCalls,
      AddAt, SyncCalls, Synced, Unopened
<1>3. DaemonAt(s)' /\ AddAt(s)' /\ (Synced(s) => Synced(s)')
  BY <1>1, <1>2 DEF ControlInv, DaemonHas, DaemonAt, AddCalls, AddAt, Synced, Unopened,
                    OnlySession
<1> QED BY <1>1, <1>2, <1>3, TaskFrame DEF Unopened, Live

LEMMA AddSenderControl ==
    ASSUME ControlInv, NEW s \in Sids, AddSender(s)
    PROVE  ControlInv'
<1>1. OnlySession(s)
  <2>1. sess[s] \in SessionRecord /\ daemon[s] \in DaemonRecord
    BY DEF ControlInv, ETyped, DaemonRecord
  <2>2. sess' \in [Sids -> SessionRecord]
    <3>1. \/ sess' = [sess EXCEPT ![s] = [sess[s] EXCEPT !.add = "ok"]]
          \/ sess' = [sess EXCEPT ![s] = [sess[s] EXCEPT !.add = "err"]]
      BY DEF AddSender
    <3>2. /\ [sess[s] EXCEPT !.add = "ok"] \in SessionRecord
          /\ [sess[s] EXCEPT !.add = "err"] \in SessionRecord
      BY <2>1, FieldTyped DEF SessionPhases, Unopened, Calls
    <3> QED BY <3>1, <3>2 DEF ControlInv, ETyped
  <2>3. daemon' \in [Sids -> DaemonRecord]
    BY <2>1 DEF ControlInv, ETyped, AddSender, DaemonRecord
  <2>4. /\ UNCHANGED <<state, thread, settings, slot, ids, disposed>>
        /\ \A t \in Sids : t # s => sess'[t] = sess[t] /\ daemon'[t] = daemon[t]
    BY DEF ControlInv, ETyped, AddSender, element
  <2> QED BY <2>2, <2>3, <2>4 DEF OnlySession
<1>2. /\ sess'[s].at = sess[s].at
      /\ \A f \in {"inflight_add", "resource", "sync", "incomplete", "lost"} :
           sess'[s][f] = sess[s][f]
      /\ \/ /\ sess[s].add \in {"sent", "aborted"} /\ sess'[s].add = "ok"
            /\ daemon'[s].adds = daemon[s].adds + 1
            /\ daemon'[s].session = daemon[s].session
         \/ sess[s].add = "sent" /\ sess'[s].add = "err" /\ daemon'[s] = daemon[s]
  BY DEF AddSender, ControlInv, ETyped, SessionRecord
<1>3. daemon[s].adds \in Nat /\ (sess[s].add \in {"sent", "aborted"} => daemon[s].adds = 0)
  BY DEF ControlInv, ETyped, AddCalls, AddAt
<1>4. DaemonAt(s)' /\ (Synced(s) => Synced(s)')
  BY <1>1, <1>2 DEF ControlInv, DaemonHas, DaemonAt, Synced, OnlySession
<1>5. AddAt(s)'
  <2>1. thread' = thread /\ AddAt(s)
    BY <1>1 DEF OnlySession, ControlInv, AddCalls
  <2> QED BY <2>1, <1>2, <1>3 DEF AddAt, Unopened
<1> QED BY <1>1, <1>2, <1>4, <1>5, TaskFrame

LEMMA SyncResourceStateControl ==
    ASSUME ControlInv, NEW s \in Sids, SyncResourceState(s)
    PROVE  ControlInv'
<1>1. OnlySession(s)
  <2>1. sess[s] \in SessionRecord /\ daemon[s] \in DaemonRecord
    BY DEF ControlInv, ETyped, DaemonRecord
  <2>2. sess' \in [Sids -> SessionRecord]
    <3>1. \/ sess' = [sess EXCEPT ![s] = [sess[s] EXCEPT !.sync = "ok"]]
          \/ sess' = [sess EXCEPT ![s] = [sess[s] EXCEPT !.sync = "err"]]
      BY DEF SyncResourceState
    <3>2. /\ [sess[s] EXCEPT !.sync = "ok"] \in SessionRecord
          /\ [sess[s] EXCEPT !.sync = "err"] \in SessionRecord
      BY <2>1, FieldTyped DEF SessionPhases, Unopened, Calls
    <3> QED BY <3>1, <3>2 DEF ControlInv, ETyped
  <2>3. daemon' \in [Sids -> DaemonRecord]
    BY <2>1 DEF ControlInv, ETyped, SyncResourceState, DaemonRecord
  <2>4. /\ UNCHANGED <<state, thread, settings, slot, ids, disposed>>
        /\ \A t \in Sids : t # s => sess'[t] = sess[t] /\ daemon'[t] = daemon[t]
    BY DEF ControlInv, ETyped, SyncResourceState, element
  <2> QED BY <2>2, <2>3, <2>4 DEF OnlySession
<1>2. /\ sess'[s].at = sess[s].at
      /\ \A f \in {"add", "inflight_add", "resource", "incomplete", "lost"} :
           sess'[s][f] = sess[s][f]
      /\ sess[s].sync = "sent"
      /\ daemon'[s] = daemon[s]
  BY DEF SyncResourceState, ControlInv, ETyped, SessionRecord
<1>3. DaemonAt(s)' /\ AddAt(s)' /\ (Synced(s) => Synced(s)')
  BY <1>1, <1>2 DEF ControlInv, DaemonHas, DaemonAt, AddCalls, AddAt, Synced, Unopened,
                    OnlySession
<1> QED BY <1>1, <1>2, <1>3, TaskFrame DEF Unopened, Live

-----------------------------------------------------------------------------
(* The steps of the state-change thread that leave every session alone. *)

LEMMA SessionsKept ==
    ASSUME ControlInv, UNCHANGED <<sess, daemon>>, thread.at # "adding"
    PROVE  OneLive' /\ DaemonHas' /\ AddCalls'
<1>1. OneLive'
  BY DEF ControlInv, OneLive
<1>2. DaemonHas'
  BY DEF ControlInv, DaemonHas, DaemonAt
<1>3. AddCalls'
  BY DEF ControlInv, AddCalls, AddAt
<1> QED BY <1>1, <1>2, <1>3

LEMMA PausedToReadyControl ==
    ASSUME ControlInv, PausedToReady
    PROVE  ControlInv'
<1>1. /\ thread.at = "idle" /\ state = "PAUSED" /\ state' = "READY"
      /\ UNCHANGED <<thread, settings, slot, sess, daemon, ids, disposed>>
  BY DEF PausedToReady, At
<1>2. ETyped' /\ Modes'
  BY <1>1 DEF ControlInv, ETyped, Modes, SlotAt, IdleThread, ThreadPhases, Carrying, Teardown
<1>3. SlotAt'
  BY <1>1 DEF ControlInv, ETyped, Modes, SlotAt, IdleThread, Carrying, NoSlot, Open
<1>4. OwnedAt' /\ OwnerOf'
  BY <1>1, SidsNotNone
  DEF ControlInv, ETyped, Modes, SlotAt, OwnedAt, OwnerOf, Unused, Carrying, IdleThread,
      NoSlot, Open, Live, Unopened
<1>5. SyncCalls'
  BY <1>1
  DEF ControlInv, ETyped, Modes, SlotAt, SyncCalls, Synced, Carrying, IdleThread, NoSlot, Open
<1>6. IdsKept'
  BY <1>1
  DEF ControlInv, ETyped, Modes, SlotAt, IdsKept, IdsOf, Carrying, IdleThread, NoSlot, Open
<1> QED BY <1>1, <1>2, <1>3, <1>4, <1>5, <1>6, SessionsKept DEF ControlInv

LEMMA ReadyToNullControl ==
    ASSUME ControlInv, ReadyToNull
    PROVE  ControlInv'
<1>1. /\ thread.at = "idle" /\ state = "READY"
      /\ thread' = [thread EXCEPT !.at = "closing", !.mode = "null"]
      /\ UNCHANGED <<state, settings, slot, sess, daemon, ids, disposed>>
  BY DEF ReadyToNull, At, element
<1>2. ETyped' /\ Modes'
  BY <1>1 DEF ControlInv, ETyped, Modes, SlotAt, IdleThread, ThreadPhases, Carrying, Teardown
<1>3. SlotAt'
  BY <1>1 DEF ControlInv, ETyped, Modes, SlotAt, IdleThread, Carrying, NoSlot, Open
<1>4. OwnedAt' /\ OwnerOf'
  BY <1>1, SidsNotNone
  DEF ControlInv, ETyped, Modes, SlotAt, OwnedAt, OwnerOf, Unused, Carrying, IdleThread,
      NoSlot, Open, Live, Unopened
<1>5. SyncCalls'
  BY <1>1
  DEF ControlInv, ETyped, Modes, SlotAt, SyncCalls, Synced, Carrying, IdleThread, NoSlot, Open
<1>6. IdsKept'
  BY <1>1
  DEF ControlInv, ETyped, Modes, SlotAt, IdsKept, IdsOf, Carrying, IdleThread, NoSlot, Open
<1> QED BY <1>1, <1>2, <1>3, <1>4, <1>5, <1>6, SessionsKept DEF ControlInv

LEMMA TakeForCloseControl ==
    ASSUME ControlInv, TakeForClose
    PROVE  ControlInv'
<1>1. /\ thread.at = "closing" /\ slot' = NoSlot
      /\ thread' = [thread EXCEPT !.sid = slot.sid, !.at = "settling"]
      /\ UNCHANGED <<state, settings, sess, daemon, ids, disposed>>
  BY DEF TakeForClose, At, element, ControlInv, SlotAt
<1>2. ETyped' /\ Modes'
  BY <1>1
  DEF ControlInv, ETyped, Modes, SlotAt, IdleThread, ThreadPhases, Carrying, Teardown, NoSlot
<1>3. SlotAt'
  BY <1>1 DEF ControlInv, ETyped, Modes, SlotAt, IdleThread, Carrying, NoSlot, Open
<1>4. OwnedAt' /\ OwnerOf'
  BY <1>1, SidsNotNone
  DEF ControlInv, ETyped, Modes, SlotAt, OwnedAt, OwnerOf, Unused, Carrying, IdleThread,
      NoSlot, Open, Live, Unopened
<1>5. SyncCalls'
  BY <1>1
  DEF ControlInv, ETyped, Modes, SlotAt, SyncCalls, Synced, Carrying, IdleThread, NoSlot, Open
<1>6. IdsKept'
  BY <1>1
  DEF ControlInv, ETyped, Modes, SlotAt, IdsKept, IdsOf, Carrying, IdleThread, NoSlot, Open,
      resource_ids
<1> QED BY <1>1, <1>2, <1>3, <1>4, <1>5, <1>6, SessionsKept DEF ControlInv

LEMMA CloseReturnsControl ==
    ASSUME ControlInv, CloseReturns
    PROVE  ControlInv'
<1>1. /\ thread.at = "closewait"
      /\ thread' = [thread EXCEPT !.at = "closed"]
      /\ UNCHANGED <<state, settings, slot, sess, daemon, ids, disposed>>
  BY DEF CloseReturns, At, Goto, element
<1>2. ETyped' /\ Modes'
  BY <1>1 DEF ControlInv, ETyped, Modes, SlotAt, IdleThread, ThreadPhases, Carrying, Teardown
<1>3. SlotAt'
  BY <1>1 DEF ControlInv, ETyped, Modes, SlotAt, IdleThread, Carrying, NoSlot, Open
<1>4. OwnedAt' /\ OwnerOf'
  BY <1>1, SidsNotNone
  DEF ControlInv, ETyped, Modes, SlotAt, OwnedAt, OwnerOf, Unused, Carrying, IdleThread,
      NoSlot, Open, Live, Unopened
<1>5. SyncCalls'
  BY <1>1
  DEF ControlInv, ETyped, Modes, SlotAt, SyncCalls, Synced, Carrying, IdleThread, NoSlot, Open
<1>6. IdsKept'
  BY <1>1
  DEF ControlInv, ETyped, Modes, SlotAt, IdsKept, IdsOf, Carrying, IdleThread, NoSlot, Open
<1> QED BY <1>1, <1>2, <1>3, <1>4, <1>5, <1>6, SessionsKept DEF ControlInv

LEMMA PublishClosedControl ==
    ASSUME ControlInv, PublishClosed
    PROVE  ControlInv'
<1>1. /\ thread.at = "closed" /\ ids' = resource_ids(slot, sess)
      /\ thread' = [thread EXCEPT !.at = "restoring"]
      /\ UNCHANGED <<state, settings, slot, sess, daemon, disposed>>
  BY DEF PublishClosed, At, Goto, element, publish_resource_ids
<1>2. ETyped' /\ Modes'
  BY <1>1
  DEF ControlInv, ETyped, Modes, SlotAt, IdleThread, ThreadPhases, Carrying, Teardown,
      resource_ids
<1>3. SlotAt'
  BY <1>1 DEF ControlInv, ETyped, Modes, SlotAt, IdleThread, Carrying, NoSlot, Open
<1>4. OwnedAt' /\ OwnerOf'
  BY <1>1, SidsNotNone
  DEF ControlInv, ETyped, Modes, SlotAt, OwnedAt, OwnerOf, Unused, Carrying, IdleThread,
      NoSlot, Open, Live, Unopened
<1>5. SyncCalls'
  BY <1>1
  DEF ControlInv, ETyped, Modes, SlotAt, SyncCalls, Synced, Carrying, IdleThread, NoSlot, Open
<1>6. IdsKept'
  BY <1>1
  DEF ControlInv, ETyped, Modes, SlotAt, IdsKept, IdsOf, Carrying, IdleThread, NoSlot, Open
<1> QED BY <1>1, <1>2, <1>3, <1>4, <1>5, <1>6, SessionsKept DEF ControlInv

LEMMA RestoreInactiveControl ==
    ASSUME ControlInv, RestoreInactive
    PROVE  ControlInv'
<1>1. /\ thread.at = "restoring"
      /\ thread' = [thread EXCEPT !.at = "refaking"]
      /\ UNCHANGED <<state, settings, slot, sess, daemon, ids, disposed>>
  BY DEF RestoreInactive, At, Goto, element
<1>2. ETyped' /\ Modes'
  BY <1>1 DEF ControlInv, ETyped, Modes, SlotAt, IdleThread, ThreadPhases, Carrying, Teardown
<1>3. SlotAt'
  BY <1>1 DEF ControlInv, ETyped, Modes, SlotAt, IdleThread, Carrying, NoSlot, Open
<1>4. OwnedAt' /\ OwnerOf'
  BY <1>1, SidsNotNone
  DEF ControlInv, ETyped, Modes, SlotAt, OwnedAt, OwnerOf, Unused, Carrying, IdleThread,
      NoSlot, Open, Live, Unopened
<1>5. SyncCalls'
  BY <1>1
  DEF ControlInv, ETyped, Modes, SlotAt, SyncCalls, Synced, Carrying, IdleThread, NoSlot, Open
<1>6. IdsKept'
  BY <1>1
  DEF ControlInv, ETyped, Modes, SlotAt, IdsKept, IdsOf, Carrying, IdleThread, NoSlot, Open
<1> QED BY <1>1, <1>2, <1>3, <1>4, <1>5, <1>6, SessionsKept DEF ControlInv

LEMMA RestoreFakeChainControl ==
    ASSUME ControlInv, RestoreFakeChain
    PROVE  ControlInv'
<1>1. /\ thread.at = "refaking" /\ thread' = IdleThread
      /\ state' = IF thread.mode = "null" THEN "NULL" ELSE state
      /\ UNCHANGED <<settings, slot, sess, daemon, ids, disposed>>
  BY DEF RestoreFakeChain, At
<1>2. ETyped' /\ Modes'
  BY <1>1 DEF ControlInv, ETyped, Modes, SlotAt, IdleThread, ThreadPhases, Carrying, Teardown
<1>3. SlotAt'
  BY <1>1 DEF ControlInv, ETyped, Modes, SlotAt, IdleThread, Carrying, NoSlot, Open
<1>4. OwnedAt' /\ OwnerOf'
  BY <1>1, SidsNotNone
  DEF ControlInv, ETyped, Modes, SlotAt, OwnedAt, OwnerOf, Unused, Carrying, IdleThread,
      NoSlot, Open, Live, Unopened
<1>5. SyncCalls'
  BY <1>1
  DEF ControlInv, ETyped, Modes, SlotAt, SyncCalls, Synced, Carrying, IdleThread, NoSlot, Open
<1>6. IdsKept'
  BY <1>1
  DEF ControlInv, ETyped, Modes, SlotAt, IdsKept, IdsOf, Carrying, IdleThread, NoSlot, Open
<1> QED BY <1>1, <1>2, <1>3, <1>4, <1>5, <1>6, SessionsKept DEF ControlInv

LEMMA SetPropertyControl ==
    ASSUME ControlInv, SetProperty
    PROVE  ControlInv'
<1>1. /\ thread.at = "idle" /\ settings' \in Settings
      /\ UNCHANGED <<state, thread, slot, sess, daemon, ids, disposed>>
  BY DEF SetProperty, At
<1>2. ETyped' /\ Modes'
  BY <1>1 DEF ControlInv, ETyped, Modes, SlotAt, IdleThread, ThreadPhases, Carrying, Teardown
<1>3. SlotAt'
  BY <1>1 DEF ControlInv, ETyped, Modes, SlotAt, IdleThread, Carrying, NoSlot, Open
<1>4. OwnedAt' /\ OwnerOf'
  BY <1>1, SidsNotNone
  DEF ControlInv, ETyped, Modes, SlotAt, OwnedAt, OwnerOf, Unused, Carrying, IdleThread,
      NoSlot, Open, Live, Unopened
<1>5. SyncCalls'
  BY <1>1
  DEF ControlInv, ETyped, Modes, SlotAt, SyncCalls, Synced, Carrying, IdleThread, NoSlot, Open
<1>6. IdsKept'
  BY <1>1
  DEF ControlInv, ETyped, Modes, SlotAt, IdsKept, IdsOf, Carrying, IdleThread, NoSlot, Open
<1> QED BY <1>1, <1>2, <1>3, <1>4, <1>5, <1>6, SessionsKept DEF ControlInv

LEMMA PrepareDeferredFakeChainControl ==
    ASSUME ControlInv, PrepareDeferredFakeChain
    PROVE  ControlInv'
<1>1. /\ thread.at = "idle" /\ state = "READY"
      /\ \/ thread' = thread
         \/ /\ ~(slot.phase = "open" /\ sess[slot.sid].incomplete)
            /\ thread' = [thread EXCEPT !.at = "pausing", !.mode = "pause", !.sid = slot.sid]
      /\ UNCHANGED <<state, settings, slot, sess, daemon, ids, disposed>>
  BY DEF PrepareDeferredFakeChain, At, element
<1>2. ETyped' /\ Modes'
  BY <1>1 DEF ControlInv, ETyped, Modes, SlotAt, IdleThread, ThreadPhases, Carrying, Teardown
<1>3. SlotAt'
  BY <1>1 DEF ControlInv, ETyped, Modes, SlotAt, IdleThread, Carrying, NoSlot, Open
<1>4. OwnedAt' /\ OwnerOf'
  BY <1>1, SidsNotNone
  DEF ControlInv, ETyped, Modes, SlotAt, OwnedAt, OwnerOf, Unused, Carrying, IdleThread,
      NoSlot, Open, Live, Unopened
<1>5. SyncCalls'
  BY <1>1
  DEF ControlInv, ETyped, Modes, SlotAt, SyncCalls, Synced, Carrying, IdleThread, NoSlot, Open
<1>6. IdsKept'
  BY <1>1
  DEF ControlInv, ETyped, Modes, SlotAt, IdsKept, IdsOf, Carrying, IdleThread, NoSlot, Open
<1> QED BY <1>1, <1>2, <1>3, <1>4, <1>5, <1>6, SessionsKept DEF ControlInv

LEMMA CloseJoinControl ==
    ASSUME ControlInv, CloseJoin
    PROVE  ControlInv'
BY DEF ControlInv, ETyped, CloseJoin, At, ThreadPhases, Carrying, Teardown

-----------------------------------------------------------------------------
(* The steps of the state-change thread on a session. *)

LEMMA SessionKept ==
    ASSUME ControlInv, NEW k \in Sids, UNCHANGED daemon,
           \A t \in Sids : t # k => sess'[t] = sess[t],
           sess'[k].at \in Live => sess[k].at \in Live,
           thread.at = "adding" => thread.sid = k,
           DaemonAt(k)', AddAt(k)'
    PROVE  OneLive' /\ DaemonHas' /\ AddCalls'
<1>1. OneLive'
  BY DEF ControlInv, OneLive
<1>2. DaemonHas'
  BY DEF ControlInv, DaemonHas, DaemonAt
<1>3. AddCalls'
  BY DEF ControlInv, AddCalls, AddAt
<1> QED BY <1>1, <1>2, <1>3

\* A new open starts only when no session is live.
LEMMA StartOpenControl ==
    ASSUME ControlInv, NEW p \in {"real", "fake"}, StartOpen(p), Unused # {},
           slot = NoSlot, state = "NULL", ~disposed,
           thread.at \in {"idle", "joining", "discarding"},
           thread.at = "joining" => sess[thread.sid].at = "failed",
           UNCHANGED <<state, settings, slot, daemon, ids, disposed>>
    PROVE  ControlInv'
<1> DEFINE k == NextSid
           x == [[sess[k] EXCEPT !.at = "opening"] EXCEPT !.file = settings.static]
<1>1. k \in Sids /\ sess[k].at = "unused"
  BY DEF NextSid, Unused
<1> HIDE DEF k
<1>2. sess \in [Sids -> SessionRecord] /\ sess[k] \in SessionRecord /\ settings.static \in BOOLEAN
  BY <1>1 DEF ControlInv, ETyped, Settings
<1>3. x \in SessionRecord
  BY <1>2, FieldTyped DEF SessionPhases, Unopened
<1>4. /\ x.at = "opening"
      /\ \A f \in {"add", "inflight_add", "resource", "sync", "incomplete", "lost"} :
           x[f] = sess[k][f]
  BY <1>2 DEF SessionRecord
<1>5. /\ sess' = [sess EXCEPT ![k] = x]
      /\ thread' = [at |-> "opening", sid |-> k, mode |-> "open", plan |-> p]
  BY DEF StartOpen, k
<1> HIDE DEF x
<1>6. /\ sess' \in [Sids -> SessionRecord] /\ sess'[k] = x
      /\ \A t \in Sids : t # k => sess'[t] = sess[t]
  BY <1>1, <1>2, <1>3, <1>5
<1>7. \A s \in Sids : sess[s].at \notin Live
  BY SidsNotNone DEF ControlInv, OwnerOf, NoSlot, Live
<1>8. ETyped' /\ Modes' /\ SlotAt'
  <2>1. ETyped'
    BY <1>1, <1>5, <1>6 DEF ControlInv, ETyped, ThreadPhases, Carrying
  <2>2. Modes' /\ SlotAt'
    BY <1>5 DEF Modes, SlotAt, Carrying
  <2> QED BY <2>1, <2>2
<1>9. OwnedAt' /\ OwnerOf'
  BY <1>1, <1>4, <1>5, <1>6, <1>7 DEF OwnedAt, OwnerOf, NoSlot, Unopened
<1>10. OneLive'
  BY <1>6, <1>7 DEF OneLive
<1>11. DaemonHas'
  BY <1>1, <1>4, <1>6 DEF ControlInv, DaemonHas, DaemonAt
<1>12. AddCalls'
  BY <1>1, <1>4, <1>5, <1>6 DEF ControlInv, AddCalls, AddAt, Unopened
<1>13. SyncCalls'
  BY <1>1, <1>4, <1>5, <1>6 DEF ControlInv, SyncCalls, Synced, NoSlot, Unopened
<1>14. IdsKept'
  BY <1>5 DEF ControlInv, IdsKept, IdsOf, resource_ids, NoSlot
<1> QED BY <1>8, <1>9, <1>10, <1>11, <1>12, <1>13, <1>14 DEF ControlInv

LEMMA NullToReadyControl ==
    ASSUME ControlInv, NullToReady
    PROVE  ControlInv'
<1>1. /\ thread.at = "idle" /\ state = "NULL" /\ ~disposed /\ Unused # {}
      /\ UNCHANGED <<state, settings, daemon, ids, disposed>>
  BY DEF NullToReady, At, element
<1>3. CASE UNCHANGED <<thread, slot, sess>>
  BY <1>1, <1>3 DEF ControlInv, ETyped, Modes, SlotAt, OwnedAt, OwnerOf, OneLive, DaemonHas,
                    DaemonAt, AddCalls, AddAt, SyncCalls, Synced, IdsKept, IdsOf, Unused
<1>4. CASE /\ slot.phase = "pending" /\ slot' = NoSlot /\ UNCHANGED sess
           /\ \E p \in PlanFor(settings.static) :
                thread' = [at |-> "joining", sid |-> slot.sid, mode |-> "open", plan |-> p]
  <2>1. PICK p \in {"real", "fake"} :
          thread' = [at |-> "joining", sid |-> slot.sid, mode |-> "open", plan |-> p]
    BY <1>4 DEF PlanFor
  <2>2. slot.sid \in Sids /\ sess[slot.sid].at \in Unopened
    BY <1>4 DEF ControlInv, ETyped, OwnedAt
  <2>3. ETyped' /\ Modes' /\ SlotAt'
    BY <1>1, <1>4, <2>1, <2>2
    DEF ControlInv, ETyped, Modes, SlotAt, ThreadPhases, Carrying, NoSlot
  <2>4. OwnedAt' /\ OwnerOf'
    BY <1>1, <1>4, <2>1, <2>2 DEF ControlInv, OwnedAt, OwnerOf, Unused, NoSlot
  <2>5. SyncCalls' /\ IdsKept'
    BY <1>1, <1>4, <2>1, <2>2
    DEF ControlInv, SyncCalls, Synced, IdsKept, IdsOf, resource_ids, NoSlot
  <2> QED BY <1>1, <1>4, <2>3, <2>4, <2>5, SessionsKept DEF ControlInv
<1>5. CASE /\ slot.phase = "none" /\ UNCHANGED slot
           /\ \E p \in PlanFor(settings.static) : StartOpen(p)
  <2>1. PICK p \in {"real", "fake"} : StartOpen(p)
    BY <1>5 DEF PlanFor
  <2>2. slot = NoSlot
    BY <1>5 DEF ControlInv, ETyped, NoSlot
  <2> QED BY <1>1, <1>5, <2>1, <2>2, StartOpenControl
<1> QED BY <1>3, <1>4, <1>5 DEF NullToReady, ControlInv, ETyped

LEMMA DiscardControl ==
    ASSUME ControlInv, Discard
    PROVE  ControlInv'
<1>1. /\ thread.at = "discarding" /\ StartOpen(thread.plan)
      /\ UNCHANGED <<state, settings, slot, daemon, ids, disposed>>
  BY DEF Discard, At, element
<1>2. /\ thread.plan \in {"real", "fake"} /\ Unused # {} /\ slot = NoSlot /\ state = "NULL"
      /\ ~disposed
  BY <1>1 DEF ControlInv, ETyped, OwnedAt, SlotAt, Modes, Carrying
<1> QED BY <1>1, <1>2, StartOpenControl

LEMMA ConsumedIs ==
    ASSUME NEW x \in SessionRecord
    PROVE  /\ Consumed(x) \in SessionRecord
           /\ Consumed(x).at = "closing"
           /\ x.add = "sent" => Consumed(x).add = "aborted"
           /\ x.add # "sent" => Consumed(x).add = "none"
           /\ Consumed(x).sync = "none" /\ Consumed(x).incomplete = FALSE
           /\ Consumed(x).inflight_add = FALSE /\ Consumed(x).task = "ended"
BY DEF Consumed, NewSession, SessionRecord, SessionPhases, Unopened, Calls

LEMMA JoinPendingControl ==
    ASSUME ControlInv, JoinPending
    PROVE  ControlInv'
<1>1. /\ thread.at = "joining"
      /\ UNCHANGED <<state, settings, daemon, ids, disposed>>
  BY DEF JoinPending, At, element
<1>0. PICK k \in Sids : k = thread.sid
  BY <1>1 DEF ControlInv, OwnedAt
<1>2. /\ sess[k].at \in Unopened /\ slot = NoSlot /\ state = "NULL" /\ ~disposed
      /\ thread.plan \in {"real", "fake"} /\ thread.mode = "open" /\ Unused # {}
      /\ sess[k] \in SessionRecord /\ sess \in [Sids -> SessionRecord]
  BY <1>0, <1>1 DEF ControlInv, ETyped, OwnedAt, SlotAt, Modes, Carrying
<1>3. CASE /\ sess[k].at = "ready" /\ sess' = [sess EXCEPT ![k] = Consumed(@)]
           /\ thread' = [thread EXCEPT !.at = "discarding"] /\ UNCHANGED slot
  <2>0. Consumed(sess[k]) \in SessionRecord
    BY <1>2, ConsumedIs
  <2>1. /\ sess' \in [Sids -> SessionRecord] /\ sess'[k] = Consumed(sess[k])
        /\ \A t \in Sids : t # k => sess'[t] = sess[t]
    BY <1>0, <1>2, <1>3, <2>0
  <2>2. sess'[k].at = "closing" /\ sess'[k].add = "none"
    BY <1>0, <1>2, <1>3, <2>1, ConsumedIs DEF ControlInv, AddCalls, AddAt, Unopened
  <2>3. ETyped' /\ Modes' /\ SlotAt'
    BY <1>0, <1>1, <1>2, <1>3, <2>1
    DEF ControlInv, ETyped, Modes, SlotAt, ThreadPhases, Carrying
  <2>4. OwnedAt' /\ OwnerOf'
    <3>1. Unused' = Unused
      BY <1>0, <1>2, <1>3, <2>1, <2>2 DEF Unused
    <3> QED BY SidsNotNone, <1>0, <1>1, <1>2, <1>3, <2>1, <2>2, <3>1 DEF ControlInv, OwnedAt, OwnerOf, Live, NoSlot
  <2>5. SyncCalls' /\ IdsKept'
    BY <1>0, <1>1, <1>2, <1>3, <2>1, <2>2
    DEF ControlInv, SyncCalls, Synced, IdsKept, IdsOf, resource_ids, NoSlot, Unopened
  <2>6. DaemonAt(k)' /\ AddAt(k)'
    BY <1>0, <1>1, <1>2, <2>2 DEF ControlInv, DaemonAt, AddCalls, AddAt, Unopened
  <2>7. OneLive' /\ DaemonHas' /\ AddCalls'
    BY <1>0, <1>1, <1>2, <2>1, <2>2, <2>6, SessionKept DEF Live
  <2> QED BY <2>3, <2>4, <2>5, <2>7 DEF ControlInv
<1>4. CASE sess[k].at = "failed" /\ StartOpen(thread.plan) /\ UNCHANGED slot
  BY <1>0, <1>1, <1>2, <1>4, StartOpenControl
<1>5. CASE slot' = Pending(k) /\ thread' = IdleThread /\ UNCHANGED sess
  <2>1. ETyped' /\ Modes' /\ SlotAt'
    BY <1>0, <1>1, <1>2, <1>5, SidsNotNone
    DEF ControlInv, ETyped, Modes, SlotAt, ThreadPhases, Carrying, Pending, IdleThread
  <2>2. OwnedAt' /\ OwnerOf'
    BY SidsNotNone, <1>0, <1>1, <1>2, <1>5
    DEF ControlInv, OwnedAt, OwnerOf, Pending, IdleThread, NoSlot
  <2>3. SyncCalls' /\ IdsKept'
    BY <1>0, <1>1, <1>2, <1>5
    DEF ControlInv, SyncCalls, Synced, IdsKept, IdsOf, resource_ids, NoSlot, Pending, IdleThread
  <2> QED BY <1>1, <1>5, <2>1, <2>2, <2>3, SessionsKept DEF ControlInv
<1> QED BY <1>0, <1>3, <1>4, <1>5 DEF JoinPending, Goto, Fails

LEMMA OpenReturnsControl ==
    ASSUME ControlInv, OpenReturns
    PROVE  ControlInv'
<1>1. /\ thread.at = "opening"
      /\ UNCHANGED <<state, settings, daemon, ids, disposed>>
  BY DEF OpenReturns, At, element
<1>0. PICK k \in Sids : k = thread.sid
  BY <1>1 DEF ControlInv, OwnedAt
<1>2. /\ sess[k].at \in Unopened /\ slot = NoSlot /\ state = "NULL" /\ ~disposed
      /\ thread.mode = "open"
      /\ sess[k] \in SessionRecord /\ sess \in [Sids -> SessionRecord]
  BY <1>0, <1>1 DEF ControlInv, ETyped, OwnedAt, SlotAt, Modes, Carrying
<1>3. CASE /\ sess[k].at = "ready" /\ sess' = [sess EXCEPT ![k].at = "held"]
           /\ slot' = Open(k) /\ thread' = [thread EXCEPT !.at = "activate"]
  <2>1. [sess[k] EXCEPT !.at = "held"] \in SessionRecord
    BY <1>2, FieldTyped DEF SessionPhases
  <2>2. /\ sess' \in [Sids -> SessionRecord] /\ sess'[k] = [sess[k] EXCEPT !.at = "held"]
        /\ \A t \in Sids : t # k => sess'[t] = sess[t]
    BY <1>0, <1>2, <1>3, <2>1
  <2>3. /\ sess'[k].at = "held"
        /\ \A f \in {"add", "inflight_add", "resource", "sync", "incomplete", "lost"} :
             sess'[k][f] = sess[k][f]
    BY <1>2, <2>2 DEF SessionRecord
  <2>4. ETyped' /\ Modes' /\ SlotAt'
    BY <1>0, <1>1, <1>2, <1>3, <2>2, SidsNotNone
    DEF ControlInv, ETyped, Modes, SlotAt, ThreadPhases, Carrying, Open
  <2>5. OwnedAt' /\ OwnerOf'
    BY SidsNotNone, <1>0, <1>1, <1>2, <1>3, <2>2, <2>3
    DEF ControlInv, OwnedAt, OwnerOf, Live, NoSlot, Open
  <2>6. SyncCalls' /\ IdsKept'
    BY <1>0, <1>1, <1>2, <1>3, <2>2, <2>3
    DEF ControlInv, SyncCalls, Synced, IdsKept, Open, Unopened
  <2>7. DaemonAt(k)' /\ AddAt(k)'
    BY <1>0, <1>1, <1>2, <1>3, <2>3
    DEF ControlInv, DaemonHas, DaemonAt, AddCalls, AddAt, Unopened
  <2>8. OneLive' /\ DaemonHas' /\ AddCalls'
    BY <1>0, <1>1, <1>2, <1>3, <2>2, <2>7, SessionKept DEF Live
  <2> QED BY <2>4, <2>5, <2>6, <2>8 DEF ControlInv
<1>4. CASE thread' = IdleThread /\ sess[k].at = "failed" /\ UNCHANGED <<slot, sess>>
  <2>1. ETyped' /\ Modes' /\ SlotAt'
    BY <1>0, <1>1, <1>2, <1>4, SidsNotNone
    DEF ControlInv, ETyped, Modes, SlotAt, ThreadPhases, Carrying, NoSlot, IdleThread
  <2>2. OwnedAt' /\ OwnerOf'
    BY SidsNotNone, <1>0, <1>1, <1>2, <1>4
    DEF ControlInv, OwnedAt, OwnerOf, IdleThread, NoSlot, Live
  <2>3. SyncCalls' /\ IdsKept'
    BY <1>0, <1>1, <1>2, <1>4
    DEF ControlInv, SyncCalls, Synced, IdsKept, IdsOf, resource_ids, NoSlot, IdleThread
  <2> QED BY <1>1, <1>4, <2>1, <2>2, <2>3, SessionsKept DEF ControlInv
<1>5. CASE slot' = Pending(k) /\ thread' = IdleThread /\ UNCHANGED sess
  <2>1. ETyped' /\ Modes' /\ SlotAt'
    BY <1>0, <1>1, <1>2, <1>5, SidsNotNone
    DEF ControlInv, ETyped, Modes, SlotAt, ThreadPhases, Carrying, Pending, IdleThread
  <2>2. OwnedAt' /\ OwnerOf'
    BY SidsNotNone, <1>0, <1>1, <1>2, <1>5
    DEF ControlInv, OwnedAt, OwnerOf, Pending, IdleThread, NoSlot
  <2>3. SyncCalls' /\ IdsKept'
    BY <1>0, <1>1, <1>2, <1>5
    DEF ControlInv, SyncCalls, Synced, IdsKept, IdsOf, resource_ids, NoSlot, Pending, IdleThread
  <2> QED BY <1>1, <1>5, <2>1, <2>2, <2>3, SessionsKept DEF ControlInv
<1> QED BY <1>0, <1>3, <1>4, <1>5 DEF OpenReturns, Goto, Fails

LEMMA SettleCallsControl ==
    ASSUME ControlInv, SettleCalls
    PROVE  ControlInv'
<1>1. /\ thread.at = "settling" /\ sess' = [sess EXCEPT ![thread.sid] = Consumed(@)]
      /\ thread' = [thread EXCEPT !.at = "closewait"]
      /\ UNCHANGED <<state, settings, slot, daemon, ids, disposed>>
  BY DEF SettleCalls, At, Goto, element
<1>0. PICK k \in Sids : k = thread.sid
  BY <1>1 DEF ControlInv, OwnedAt
<1>2. /\ sess[k].at = "held" /\ slot = NoSlot
      /\ sess[k] \in SessionRecord /\ sess \in [Sids -> SessionRecord]
  BY <1>0, <1>1 DEF ControlInv, ETyped, OwnedAt, SlotAt, Carrying
<1>3. /\ sess' \in [Sids -> SessionRecord] /\ sess'[k] = Consumed(sess[k])
      /\ \A t \in Sids : t # k => sess'[t] = sess[t]
  <2>1. Consumed(sess[k]) \in SessionRecord
    BY <1>2, ConsumedIs
  <2> QED BY <1>0, <1>1, <1>2, <2>1
<1>4. /\ sess'[k].at = "closing"
      /\ sess[k].add = "sent" => sess'[k].add = "aborted"
      /\ sess[k].add # "sent" => sess'[k].add = "none"
  <2>1. /\ Consumed(sess[k]).at = "closing"
        /\ sess[k].add = "sent" => Consumed(sess[k]).add = "aborted"
        /\ sess[k].add # "sent" => Consumed(sess[k]).add = "none"
    BY <1>2, ConsumedIs
  <2> QED BY <1>3, <2>1
<1>5. ETyped' /\ Modes' /\ SlotAt'
  BY <1>0, <1>1, <1>2, <1>3 DEF ControlInv, ETyped, Modes, SlotAt, ThreadPhases, Carrying
<1>6. OwnedAt' /\ OwnerOf'
  BY SidsNotNone, <1>0, <1>1, <1>2, <1>3, <1>4 DEF ControlInv, OwnedAt, OwnerOf, Live, NoSlot
<1>7. SyncCalls' /\ IdsKept'
  BY <1>0, <1>1, <1>2, <1>3, <1>4
  DEF ControlInv, SyncCalls, Synced, IdsKept, NoSlot, Modes, Unopened
<1>8. DaemonAt(k)' /\ AddAt(k)'
  BY <1>0, <1>1, <1>2, <1>4 DEF ControlInv, DaemonAt, AddCalls, AddAt, Unopened
<1>9. OneLive' /\ DaemonHas' /\ AddCalls'
  BY <1>0, <1>1, <1>2, <1>3, <1>4, <1>8, SessionKept DEF Live
<1> QED BY <1>5, <1>6, <1>7, <1>9 DEF ControlInv

\* A finalised element drops its session, or the handle of its open.
LEMMA DisposeControl ==
    ASSUME ControlInv, Dispose
    PROVE  ControlInv'
<1>1. /\ thread.at = "idle" /\ state = "NULL" /\ disposed' = TRUE /\ slot' = NoSlot
      /\ UNCHANGED <<state, thread, settings, daemon, ids>>
  BY DEF Dispose, At
<1>2. Modes' /\ SlotAt' /\ IdsKept'
  BY <1>1 DEF ControlInv, Modes, SlotAt, IdsKept, NoSlot, Carrying
<1>3. CASE slot.phase # "open" /\ UNCHANGED sess
  <2>1. ETyped'
    BY <1>1, <1>3 DEF ControlInv, ETyped, NoSlot
  <2>2. OwnedAt' /\ OwnerOf' /\ SyncCalls'
    BY <1>1, <1>3, SidsNotNone
    DEF ControlInv, ETyped, OwnedAt, OwnerOf, SyncCalls, Synced, NoSlot, Live, Unopened
  <2> QED BY <1>1, <1>2, <1>3, <2>1, <2>2, SessionsKept DEF ControlInv
<1>4. CASE slot.phase = "open" /\ sess' = [sess EXCEPT ![slot.sid] = Consumed(@)]
  <2>1. PICK k \in Sids : k = slot.sid
    BY <1>4, SidsNotNone DEF ControlInv, ETyped
  <2>2. /\ sess[k].at = "held" /\ sess[k] \in SessionRecord
        /\ sess \in [Sids -> SessionRecord]
    BY <1>4, <2>1 DEF ControlInv, ETyped, OwnedAt
  <2>3. Consumed(sess[k]) \in SessionRecord
    BY <2>2, ConsumedIs
  <2>4. /\ sess' \in [Sids -> SessionRecord] /\ sess'[k] = Consumed(sess[k])
        /\ \A t \in Sids : t # k => sess'[t] = sess[t]
    BY <1>4, <2>1, <2>2, <2>3
  <2>5. /\ sess'[k].at = "closing" /\ ~sess'[k].inflight_add
        /\ sess[k].add = "sent" => sess'[k].add = "aborted"
        /\ sess[k].add # "sent" => sess'[k].add = "none"
    <3>1. /\ Consumed(sess[k]).at = "closing" /\ Consumed(sess[k]).inflight_add = FALSE
          /\ sess[k].add = "sent" => Consumed(sess[k]).add = "aborted"
          /\ sess[k].add # "sent" => Consumed(sess[k]).add = "none"
      BY <2>2, ConsumedIs
    <3> QED BY <2>4, <3>1
  <2>6. ETyped'
    BY <1>1, <2>4 DEF ControlInv, ETyped, NoSlot
  <2>7. OwnedAt' /\ OwnerOf'
    BY <1>1, <2>1, <2>4, <2>5, SidsNotNone DEF ControlInv, OwnedAt, OwnerOf, NoSlot, Live
  <2>8. SyncCalls'
    BY <1>1, <2>2, <2>4, <2>5 DEF ControlInv, SyncCalls, Synced, NoSlot, Unopened
  <2>9. DaemonAt(k)' /\ AddAt(k)'
    BY <1>1, <2>2, <2>5 DEF ControlInv, DaemonAt, AddCalls, AddAt, Unopened
  <2>10. OneLive' /\ DaemonHas' /\ AddCalls'
    BY <1>1, <2>4, <2>5, <2>9, SessionKept DEF Live
  <2> QED BY <1>2, <2>6, <2>7, <2>8, <2>10 DEF ControlInv
<1> QED BY <1>3, <1>4 DEF Dispose

\* activate_inner succeeded: the session is in the slot and settled.
LEMMA ActivatedControl ==
    ASSUME ControlInv, Activated, thread.at \in {"activate", "syncing"},
           thread.at = "syncing" => sess[thread.sid].sync = "ok",
           slot' = Open(thread.sid), UNCHANGED <<settings, sess, daemon, disposed>>
    PROVE  ControlInv'
<1>1. PICK k \in Sids : k = thread.sid
  BY DEF ControlInv, ETyped, SlotAt, OwnedAt, Open
<1>2. /\ sess[k].at = "held" /\ Synced(k) /\ thread.mode \in {"open", "pause"} /\ ~disposed
      /\ \A s \in Sids : sess[s].at \in Live => s = k
  <2>1. sess[k].at = "held"
    BY <1>1 DEF ControlInv, SlotAt, OwnedAt, Open
  <2>2. Synced(k)
    BY <1>1 DEF ControlInv, SyncCalls, Synced
  <2>3. thread.mode \in {"open", "pause"} /\ ~disposed
    BY DEF ControlInv, Modes
  <2>4. \A s \in Sids : sess[s].at \in Live => s = k
    BY <1>1, <2>1 DEF ControlInv, OneLive, Live
  <2> QED BY <2>1, <2>2, <2>3, <2>4
<1>3. /\ thread' = IdleThread /\ slot' = Open(k)
      /\ \/ /\ thread.mode = "open" /\ state' \in {"NULL", "READY"}
            /\ ids' = resource_ids(Open(k), sess)
         \/ thread.mode = "pause" /\ state' = "PAUSED" /\ UNCHANGED ids
  BY <1>1, <1>2 DEF Activated, publish_resource_ids
<1>4. ETyped'
  BY <1>3, SidsNotNone DEF ControlInv, ETyped, ThreadPhases, IdleThread, Open, resource_ids
<1>5. Modes' /\ SlotAt'
  BY <1>2, <1>3 DEF Modes, SlotAt, IdleThread, Open, Carrying
<1>6. OwnedAt' /\ OwnerOf'
  BY <1>2, <1>3 DEF OwnedAt, OwnerOf, Open, IdleThread
<1>7. SyncCalls'
  BY <1>2, <1>3 DEF ControlInv, SyncCalls, Synced, Open, IdleThread
<1>8. IdsKept'
  <2>1. IdsOf' = Open(k)
    BY <1>3 DEF IdsOf, IdleThread
  <2>2. thread.mode = "pause" => ids = resource_ids(Open(k), sess)
    BY <1>1 DEF ControlInv, Modes, IdsKept, IdsOf, SlotAt
  <2> QED BY <1>3, <2>1, <2>2 DEF IdsKept
<1>9. OneLive' /\ DaemonHas' /\ AddCalls'
  BY SessionsKept
<1> QED BY <1>4, <1>5, <1>6, <1>7, <1>8, <1>9 DEF ControlInv

\* activate_inner failed: the session is closed again, or marked and kept.
LEMMA NotActivatedControl ==
    ASSUME ControlInv, NotActivated, thread.at \in {"activate", "sync", "syncing"},
           slot' = Open(thread.sid), UNCHANGED <<settings, daemon, disposed>>
    PROVE  ControlInv'
<1>1. PICK k \in Sids : k = thread.sid
  BY DEF ControlInv, ETyped, SlotAt, OwnedAt, Open
<1>2. /\ sess[k].at = "held" /\ thread.mode \in {"open", "pause"} /\ ~disposed
      /\ sess \in [Sids -> SessionRecord] /\ sess[k] \in SessionRecord
      /\ \A s \in Sids : sess[s].at \in Live => s = k
  <2>1. sess[k].at = "held"
    BY <1>1 DEF ControlInv, SlotAt, OwnedAt, Open
  <2>2. thread.mode \in {"open", "pause"} /\ ~disposed
    BY DEF ControlInv, Modes
  <2>3. \A s \in Sids : sess[s].at \in Live => s = k
    BY <1>1, <2>1 DEF ControlInv, OneLive, Live
  <2> QED BY <2>1, <2>2, <2>3 DEF ControlInv, ETyped
<1>3. UNCHANGED <<state, ids>> /\ slot' = Open(k)
  BY <1>1 DEF NotActivated
<1>4. CASE thread.mode = "open" /\ thread' = [thread EXCEPT !.at = "closing"] /\ UNCHANGED sess
  <2>1. ETyped' /\ Modes'
    BY <1>3, <1>4, SidsNotNone DEF ControlInv, ETyped, Modes, ThreadPhases, Teardown, Open
  <2>2. SlotAt' /\ OwnedAt' /\ OwnerOf'
    BY <1>2, <1>3, <1>4, <2>1 DEF ControlInv, ETyped, SlotAt, OwnedAt, OwnerOf, Open, Carrying
  <2>3. SyncCalls' /\ IdsKept'
    BY <1>2, <1>3, <1>4 DEF ControlInv, ETyped, Modes, SyncCalls, Synced, IdsKept
  <2> QED BY <1>4, <2>1, <2>2, <2>3, SessionsKept DEF ControlInv
<1>5. CASE /\ thread.mode = "pause" /\ thread' = [thread EXCEPT !.at = "restoring"]
           /\ sess' = [sess EXCEPT ![k].incomplete = TRUE]
  <2>1. [sess[k] EXCEPT !.incomplete = TRUE] \in SessionRecord
    BY <1>2, FieldTyped
  <2>2. /\ sess' \in [Sids -> SessionRecord] /\ sess'[k] = [sess[k] EXCEPT !.incomplete = TRUE]
        /\ \A t \in Sids : t # k => sess'[t] = sess[t]
    BY <1>2, <1>5, <2>1
  <2>3. /\ sess'[k].incomplete
        /\ \A f \in {"at", "add", "inflight_add", "resource", "sync", "lost"} :
             sess'[k][f] = sess[k][f]
    BY <1>2, <2>2 DEF SessionRecord
  <2>4. ETyped' /\ Modes'
    BY <1>3, <1>5, <2>2, SidsNotNone DEF ControlInv, ETyped, Modes, ThreadPhases, Teardown, Open
  <2>5. SlotAt' /\ OwnedAt' /\ OwnerOf'
    BY <1>1, <1>2, <1>3, <1>5, <2>2, <2>3, <2>4
    DEF ControlInv, ETyped, SlotAt, OwnedAt, OwnerOf, Open, Carrying
  <2>6. SyncCalls'
    BY <1>2, <1>3, <1>5, <2>2, <2>3, <2>4
    DEF ControlInv, ETyped, Modes, SyncCalls, Synced, Open, Unopened
  <2>7. IdsKept'
    <3>1. IdsOf' = Open(k) /\ IdsOf = Open(k)
      BY <1>1, <1>3, <1>5 DEF IdsOf, ControlInv, ETyped, SlotAt
    <3>2. resource_ids(Open(k), sess') = resource_ids(Open(k), sess)
      BY <2>3 DEF resource_ids, Open
    <3>3. ids = resource_ids(Open(k), sess)
      BY <1>5, <3>1 DEF ControlInv, Modes, IdsKept
    <3> QED BY <1>3, <3>1, <3>2, <3>3 DEF IdsKept
  <2>8. DaemonAt(k)' /\ AddAt(k)'
    BY <1>1, <1>2, <2>3 DEF ControlInv, DaemonHas, DaemonAt, AddCalls, AddAt, Unopened
  <2>9. OneLive' /\ DaemonHas' /\ AddCalls'
    BY <1>2, <2>2, <2>3, <2>8, SessionKept
  <2> QED BY <2>4, <2>5, <2>6, <2>7, <2>9 DEF ControlInv
<1> QED BY <1>1, <1>2, <1>4, <1>5 DEF NotActivated, Goto

LEMMA ActivateInnerControl ==
    ASSUME ControlInv, ActivateInner
    PROVE  ControlInv'
<1>1. thread.at = "activate" /\ UNCHANGED <<settings, slot, daemon, disposed>>
  BY DEF ActivateInner, At
<1>2. slot' = Open(thread.sid)
  BY <1>1 DEF ControlInv, SlotAt
<1>3. CASE Activated /\ UNCHANGED sess
  BY <1>1, <1>2, <1>3, ActivatedControl
<1>4. CASE NotActivated
  BY <1>1, <1>2, <1>4, NotActivatedControl
<1>5. CASE thread' = [thread EXCEPT !.at = "sync"] /\ UNCHANGED <<state, ids, sess>>
  <2>1. ETyped' /\ Modes'
    BY <1>1, <1>5 DEF ControlInv, ETyped, Modes, ThreadPhases, Teardown
  <2>2. SlotAt' /\ OwnedAt' /\ OwnerOf'
    BY <1>1, <1>2, <1>5 DEF ControlInv, ETyped, Modes, SlotAt, OwnedAt, OwnerOf, Carrying
  <2>3. SyncCalls' /\ IdsKept'
    BY <1>1, <1>5 DEF ControlInv, ETyped, Modes, SyncCalls, Synced, IdsKept, IdsOf
  <2> QED BY <1>1, <1>5, <2>1, <2>2, <2>3, SessionsKept DEF ControlInv
<1> QED BY <1>3, <1>4, <1>5 DEF ActivateInner, Goto

LEMMA SyncActiveControl ==
    ASSUME ControlInv, SyncActive
    PROVE  ControlInv'
<1>1. thread.at = "sync" /\ UNCHANGED <<settings, daemon, disposed>>
  BY DEF SyncActive, At
<1>2. PICK k \in Sids : k = thread.sid
  BY <1>1 DEF ControlInv, ETyped, SlotAt, Open
<1>3. /\ slot = Open(k) /\ sess[k].at = "held" /\ Synced(k)
      /\ sess \in [Sids -> SessionRecord] /\ sess[k] \in SessionRecord
      /\ \A s \in Sids : sess[s].at \in Live => s = k
  <2>1. slot = Open(k) /\ Synced(k)
    BY <1>1, <1>2 DEF ControlInv, SlotAt, SyncCalls
  <2>2. sess[k].at = "held"
    BY <2>1 DEF ControlInv, OwnedAt, Open
  <2>3. \A s \in Sids : sess[s].at \in Live => s = k
    BY <2>2 DEF ControlInv, OneLive, Live
  <2> QED BY <2>1, <2>2, <2>3 DEF ControlInv, ETyped
<1>4. CASE NotActivated /\ UNCHANGED slot
  BY <1>1, <1>2, <1>3, <1>4, NotActivatedControl
<1>5. CASE /\ sess' = [sess EXCEPT ![k].sync = "sent"] /\ slot' = NoSlot
           /\ thread' = [thread EXCEPT !.at = "syncing"] /\ UNCHANGED <<state, ids>>
  <2>1. [sess[k] EXCEPT !.sync = "sent"] \in SessionRecord
    BY <1>3, FieldTyped DEF Calls
  <2>2. /\ sess' \in [Sids -> SessionRecord] /\ sess'[k] = [sess[k] EXCEPT !.sync = "sent"]
        /\ \A t \in Sids : t # k => sess'[t] = sess[t]
    BY <1>3, <1>5, <2>1
  <2>3. \A f \in {"at", "add", "inflight_add", "resource", "incomplete", "lost"} :
          sess'[k][f] = sess[k][f]
    BY <1>3, <2>2 DEF SessionRecord
  <2>4. ETyped' /\ Modes'
    BY <1>1, <1>5, <2>2 DEF ControlInv, ETyped, Modes, ThreadPhases, Teardown, NoSlot
  <2>5. SlotAt' /\ OwnedAt' /\ OwnerOf'
    BY <1>1, <1>2, <1>3, <1>5, <2>2, <2>3
    DEF ControlInv, ETyped, Modes, SlotAt, OwnedAt, OwnerOf, Carrying, NoSlot
  <2>6. SyncCalls'
    BY <1>1, <1>2, <1>3, <1>5, <2>2, <2>3
    DEF ControlInv, ETyped, Modes, SyncCalls, Synced, NoSlot, Unopened
  <2>7. IdsKept'
    <3>1. thread.mode = "pause" => ids = resource_ids(Open(k), sess)
      BY <1>1, <1>3 DEF ControlInv, Modes, IdsKept, IdsOf
    <3>2. resource_ids(Open(k), sess') = resource_ids(Open(k), sess)
      BY <2>3 DEF resource_ids, Open
    <3>3. thread.mode \in {"open", "pause"}
      BY <1>1 DEF ControlInv, Modes
    <3>4. thread'.at = "syncing" /\ thread'.mode = thread.mode /\ thread'.sid = k
      BY <1>2, <1>5 DEF ControlInv, ETyped
    <3> QED BY <1>5, <3>1, <3>2, <3>3, <3>4 DEF IdsKept, IdsOf
  <2>8. DaemonAt(k)' /\ AddAt(k)'
    BY <1>1, <1>3, <2>3 DEF ControlInv, DaemonHas, DaemonAt, AddCalls, AddAt, Unopened
  <2>9. OneLive' /\ DaemonHas' /\ AddCalls'
    BY <1>1, <1>3, <2>2, <2>3, <2>8, SessionKept
  <2> QED BY <2>4, <2>5, <2>6, <2>7, <2>9 DEF ControlInv
<1> QED BY <1>2, <1>4, <1>5 DEF SyncActive, Goto

LEMMA SyncReturnsControl ==
    ASSUME ControlInv, SyncReturns
    PROVE  ControlInv'
<1>1. /\ thread.at = "syncing" /\ slot' = Open(thread.sid)
      /\ UNCHANGED <<settings, daemon, disposed>>
  BY DEF SyncReturns, At
<1>2. PICK k \in Sids : k = thread.sid
  BY <1>1 DEF ControlInv, OwnedAt
<1>3. /\ sess[k].at = "held" /\ thread.mode \in {"open", "pause"} /\ ~disposed
      /\ sess \in [Sids -> SessionRecord] /\ sess[k] \in SessionRecord
      /\ \A s \in Sids : sess[s].at \in Live => s = k
  <2>1. sess[k].at = "held"
    BY <1>1, <1>2 DEF ControlInv, OwnedAt
  <2>2. \A s \in Sids : sess[s].at \in Live => s = k
    BY <2>1 DEF ControlInv, OneLive, Live
  <2> QED BY <1>1, <2>1, <2>2 DEF ControlInv, ETyped, Modes
<1>4. CASE sess[k].sync = "ok" /\ Activated /\ UNCHANGED sess
  BY <1>1, <1>2, <1>4, ActivatedControl
<1>5. CASE NotActivated
  BY <1>1, <1>5, NotActivatedControl
<1>6. CASE /\ UNCHANGED <<state, ids>>
           /\ sess' = [sess EXCEPT ![k].inflight_sync = TRUE,
                                   ![k].incomplete = (thread.mode = "pause")]
           /\ thread' = [thread EXCEPT !.at = IF thread.mode = "open" THEN "closing"
                                                                     ELSE "restoring"]
  <2> DEFINE x == [[sess[k] EXCEPT !.inflight_sync = TRUE]
                      EXCEPT !.incomplete = (thread.mode = "pause")]
  <2>1. x \in SessionRecord
    BY <1>3, FieldTyped
  <2>2. /\ x.incomplete <=> thread.mode = "pause"
        /\ \A f \in {"at", "add", "inflight_add", "resource", "sync", "lost"} :
             x[f] = sess[k][f]
    BY <1>3 DEF SessionRecord
  <2>3. sess' = [sess EXCEPT ![k] = x]
    BY <1>6
  <2> HIDE DEF x
  <2>4. /\ sess' \in [Sids -> SessionRecord] /\ sess'[k] = x
        /\ \A t \in Sids : t # k => sess'[t] = sess[t]
    BY <1>3, <2>1, <2>3
  <2>5. ETyped' /\ Modes'
    BY <1>1, <1>2, <1>3, <1>6, <2>4, SidsNotNone
    DEF ControlInv, ETyped, Modes, ThreadPhases, Teardown, Open
  <2>6. SlotAt' /\ OwnedAt' /\ OwnerOf'
    BY <1>1, <1>2, <1>3, <1>6, <2>2, <2>4
    DEF ControlInv, ETyped, Modes, SlotAt, OwnedAt, OwnerOf, Carrying, Open
  <2>7. SyncCalls'
    BY <1>1, <1>2, <1>3, <1>6, <2>2, <2>4
    DEF ControlInv, ETyped, Modes, SyncCalls, Synced, Open, Unopened
  <2>8. IdsKept'
    <3>1. thread.mode = "pause" => ids = resource_ids(Open(k), sess)
      BY <1>1, <1>2 DEF ControlInv, Modes, IdsKept, IdsOf
    <3>2. resource_ids(Open(k), sess') = resource_ids(Open(k), sess)
      BY <2>2, <2>4 DEF resource_ids, Open
    <3>3. thread'.at = IF thread.mode = "open" THEN "closing" ELSE "restoring"
      BY <1>6 DEF ControlInv, ETyped
    <3> QED BY <1>1, <1>2, <1>3, <1>6, <3>1, <3>2, <3>3 DEF IdsKept, IdsOf
  <2>9. DaemonAt(k)' /\ AddAt(k)'
    BY <1>1, <1>3, <2>2, <2>4 DEF ControlInv, DaemonHas, DaemonAt, AddCalls, AddAt, Unopened
  <2>10. OneLive' /\ DaemonHas' /\ AddCalls'
    BY <1>1, <1>3, <2>2, <2>4, <2>9, SessionKept
  <2> QED BY <2>5, <2>6, <2>7, <2>8, <2>10 DEF ControlInv
<1> QED BY <1>2, <1>4, <1>5, <1>6 DEF SyncReturns, Goto

LEMMA MaybeAddDeferredSenderControl ==
    ASSUME ControlInv, MaybeAddDeferredSender
    PROVE  ControlInv'
<1>1. thread.at = "pausing" /\ UNCHANGED <<settings, daemon, ids, disposed>>
  BY DEF MaybeAddDeferredSender, At
<1>2. PICK k \in Sids : k = slot.sid
  BY <1>1 DEF ControlInv, ETyped, SlotAt, Open
<1>3. /\ slot = Open(k) /\ k = thread.sid /\ sess[k].at = "held" /\ Synced(k)
      /\ state = "READY" /\ thread.mode = "pause" /\ ~disposed
      /\ sess \in [Sids -> SessionRecord] /\ sess[k] \in SessionRecord
      /\ ids = resource_ids(Open(k), sess)
      /\ \A s \in Sids : sess[s].at \in Live => s = k
  <2>1. slot = Open(k) /\ k = thread.sid
    BY <1>1, <1>2 DEF ControlInv, SlotAt, Open
  <2>2. Synced(k) /\ state = "READY" /\ thread.mode = "pause" /\ ~disposed
    BY <1>1, <2>1 DEF ControlInv, SyncCalls, Modes
  <2>3. sess[k].at = "held"
    BY <2>1 DEF ControlInv, OwnedAt, Open
  <2>4. \A s \in Sids : sess[s].at \in Live => s = k
    BY <2>3 DEF ControlInv, OneLive, Live
  <2>5. ids = resource_ids(Open(k), sess)
    BY <1>1, <2>1 DEF ControlInv, Modes, IdsKept, IdsOf
  <2> QED BY <2>1, <2>2, <2>3, <2>4, <2>5 DEF ControlInv, ETyped
<1>4. CASE thread' = IdleThread /\ state' \in {state, "PAUSED"} /\ UNCHANGED <<slot, sess>>
  <2>1. ETyped' /\ Modes' /\ SlotAt'
    BY <1>1, <1>3, <1>4
    DEF ControlInv, ETyped, Modes, SlotAt, ThreadPhases, Carrying, Open, IdleThread
  <2>2. OwnedAt' /\ OwnerOf'
    BY <1>1, <1>3, <1>4 DEF ControlInv, OwnedAt, OwnerOf, Open, IdleThread
  <2>3. SyncCalls' /\ IdsKept'
    BY <1>1, <1>3, <1>4 DEF ControlInv, SyncCalls, Synced, IdsKept, IdsOf, Open, IdleThread
  <2> QED BY <1>1, <1>4, <2>1, <2>2, <2>3, SessionsKept DEF ControlInv
<1>5. CASE /\ ~sess[k].resource /\ ~sess[k].inflight_add
           /\ sess' = [sess EXCEPT ![k].add = "sent"] /\ slot' = NoSlot
           /\ thread' = [thread EXCEPT !.at = "adding"] /\ UNCHANGED state
  <2>1. [sess[k] EXCEPT !.add = "sent"] \in SessionRecord
    BY <1>3, FieldTyped DEF Calls
  <2>2. /\ sess' \in [Sids -> SessionRecord] /\ sess'[k] = [sess[k] EXCEPT !.add = "sent"]
        /\ \A t \in Sids : t # k => sess'[t] = sess[t]
    BY <1>3, <1>5, <2>1
  <2>3. /\ sess'[k].add = "sent"
        /\ \A f \in {"at", "sync", "inflight_add", "resource", "incomplete", "lost"} :
             sess'[k][f] = sess[k][f]
    BY <1>3, <2>2 DEF SessionRecord
  <2>4. ETyped' /\ Modes' /\ SlotAt'
    BY <1>1, <1>3, <1>5, <2>2
    DEF ControlInv, ETyped, Modes, SlotAt, ThreadPhases, Carrying, NoSlot
  <2>5. thread'.at = "adding" /\ thread'.sid = k /\ thread'.mode = "pause"
    BY <1>3, <1>5 DEF ControlInv, ETyped
  <2>6. OwnedAt' /\ OwnerOf'
    BY <1>3, <1>5, <2>2, <2>3, <2>5 DEF OwnedAt, OwnerOf, NoSlot
  <2>7. SyncCalls'
    BY <1>3, <1>5, <2>2, <2>3, <2>5 DEF ControlInv, SyncCalls, Synced, NoSlot, Unopened
  <2>8. IdsKept'
    <3>1. resource_ids(Open(k), sess') = resource_ids(Open(k), sess)
      BY <2>3 DEF resource_ids, Open
    <3> QED BY <1>1, <1>3, <2>5, <3>1 DEF IdsKept, IdsOf
  <2>9. DaemonAt(k)' /\ AddAt(k)'
    <3>1. daemon[k].adds = 0
      BY <1>1, <1>3, <1>5 DEF ControlInv, AddCalls, AddAt
    <3> QED BY <1>1, <1>3, <2>3, <2>5, <3>1 DEF DaemonAt, AddAt, Unopened
  <2>10. OneLive' /\ DaemonHas' /\ AddCalls'
    BY <1>1, <1>3, <2>2, <2>3, <2>9, SessionKept
  <2> QED BY <2>4, <2>6, <2>7, <2>8, <2>10 DEF ControlInv
<1> QED BY <1>2, <1>3, <1>4, <1>5 DEF MaybeAddDeferredSender, Fails, Goto, Deferred

LEMMA AddReturnsControl ==
    ASSUME ControlInv, AddReturns
    PROVE  ControlInv'
<1>1. /\ thread.at = "adding" /\ slot' = Open(thread.sid)
      /\ UNCHANGED <<state, settings, daemon, disposed>>
  BY DEF AddReturns, At, element
<1>2. PICK k \in Sids : k = thread.sid
  BY <1>1 DEF ControlInv, OwnedAt
<1>3. /\ sess[k].at = "held" /\ Synced(k) /\ slot' = Open(k)
      /\ state = "READY" /\ thread.mode = "pause" /\ ~disposed
      /\ sess \in [Sids -> SessionRecord] /\ sess[k] \in SessionRecord
      /\ ids = resource_ids(Open(k), sess)
      /\ \A s \in Sids : sess[s].at \in Live => s = k
  <2>1. Synced(k) /\ state = "READY" /\ thread.mode = "pause" /\ ~disposed
    BY <1>1, <1>2 DEF ControlInv, SyncCalls, Modes
  <2>2. sess[k].at = "held"
    BY <1>1, <1>2 DEF ControlInv, OwnedAt
  <2>3. \A s \in Sids : sess[s].at \in Live => s = k
    BY <2>2 DEF ControlInv, OneLive, Live
  <2>4. ids = resource_ids(Open(k), sess)
    BY <1>1, <1>2 DEF ControlInv, Modes, IdsKept, IdsOf
  <2> QED BY <1>1, <1>2, <2>1, <2>2, <2>3, <2>4 DEF ControlInv, ETyped
<1>4. CASE /\ sess' = [sess EXCEPT ![k].resource = TRUE] /\ sess[k].add = "ok"
           /\ ids' = resource_ids(Open(k), sess')
           /\ \E p \in {"real", "fake"} :
                thread' = [thread EXCEPT !.at = "activate", !.plan = p]
  <2>1. [sess[k] EXCEPT !.resource = TRUE] \in SessionRecord
    BY <1>3, FieldTyped
  <2>2. /\ sess' \in [Sids -> SessionRecord] /\ sess'[k] = [sess[k] EXCEPT !.resource = TRUE]
        /\ \A t \in Sids : t # k => sess'[t] = sess[t]
    BY <1>3, <1>4, <2>1
  <2>3. /\ sess'[k].resource
        /\ \A f \in {"at", "add", "sync", "inflight_add", "incomplete", "lost"} :
             sess'[k][f] = sess[k][f]
    BY <1>3, <2>2 DEF SessionRecord
  <2>4. /\ thread'.at = "activate" /\ thread'.sid = k /\ thread'.mode = "pause"
        /\ ids' \in {"none", "node", "all"}
    BY <1>2, <1>3, <1>4 DEF ControlInv, ETyped, resource_ids
  <2>5. ETyped' /\ Modes' /\ SlotAt'
    <3>1. thread' \in [at : ThreadPhases, sid : Sids \cup {NoSid},
                       mode : {"none", "open", "pause", "null"}, plan : {"real", "fake"}]
      BY <1>4 DEF ControlInv, ETyped, ThreadPhases
    <3>2. ETyped'
      BY <1>1, <1>3, <2>2, <2>4, <3>1, SidsNotNone DEF ControlInv, ETyped, Open
    <3> QED BY <1>1, <1>3, <2>4, <3>2 DEF Modes, SlotAt, Carrying
  <2>6. OwnedAt' /\ OwnerOf'
    BY <1>3, <2>2, <2>3, <2>4 DEF OwnedAt, OwnerOf, Open
  <2>7. SyncCalls'
    BY <1>1, <1>3, <2>2, <2>3, <2>4 DEF ControlInv, SyncCalls, Synced, Open, Unopened
  <2>8. IdsKept'
    BY <1>3, <1>4, <2>4 DEF IdsKept, IdsOf
  <2>9. DaemonAt(k)' /\ AddAt(k)'
    BY <1>1, <1>3, <1>4, <2>3, <2>4
    DEF ControlInv, DaemonHas, DaemonAt, AddCalls, AddAt, Unopened
  <2>10. OneLive' /\ DaemonHas' /\ AddCalls'
    BY <1>1, <1>2, <1>3, <2>2, <2>3, <2>9, SessionKept
  <2> QED BY <2>5, <2>6, <2>7, <2>8, <2>10 DEF ControlInv
<1>5. CASE /\ thread' = IdleThread /\ UNCHANGED ids
           /\ \/ sess[k].add = "err" /\ UNCHANGED sess
              \/ sess[k].add = "sent" /\ sess' = [sess EXCEPT ![k].inflight_add = TRUE]
  <2>1. [sess[k] EXCEPT !.inflight_add = TRUE] \in SessionRecord
    BY <1>3, FieldTyped
  <2>2. /\ sess' \in [Sids -> SessionRecord]
        /\ sess'[k] \in {sess[k], [sess[k] EXCEPT !.inflight_add = TRUE]}
        /\ \A t \in Sids : t # k => sess'[t] = sess[t]
    BY <1>3, <1>5, <2>1
  <2>3. /\ sess[k].add = "err" \/ (sess[k].add = "sent" /\ sess'[k].inflight_add)
        /\ \A f \in {"at", "add", "sync", "resource", "incomplete", "lost"} :
             sess'[k][f] = sess[k][f]
        /\ sess[k].inflight_add => sess'[k].inflight_add
    BY <1>3, <1>5, <2>2 DEF SessionRecord
  <2>4. ETyped' /\ Modes' /\ SlotAt'
    BY <1>1, <1>3, <1>5, <2>2, SidsNotNone
    DEF ControlInv, ETyped, Modes, SlotAt, ThreadPhases, Carrying, Open, IdleThread
  <2>5. OwnedAt' /\ OwnerOf'
    BY <1>3, <1>5, <2>2, <2>3 DEF OwnedAt, OwnerOf, Open, IdleThread
  <2>6. SyncCalls'
    BY <1>1, <1>3, <1>5, <2>2, <2>3
    DEF ControlInv, SyncCalls, Synced, Open, Unopened, IdleThread
  <2>7. IdsKept'
    <3>1. resource_ids(Open(k), sess') = resource_ids(Open(k), sess)
      BY <2>3 DEF resource_ids, Open
    <3> QED BY <1>3, <1>5, <3>1 DEF IdsKept, IdsOf, IdleThread
  <2>8. DaemonAt(k)' /\ AddAt(k)'
    BY <1>1, <1>3, <2>3 DEF ControlInv, DaemonHas, DaemonAt, AddCalls, AddAt, Unopened
  <2>9. OneLive' /\ DaemonHas' /\ AddCalls'
    BY <1>1, <1>2, <1>3, <2>2, <2>3, <2>8, SessionKept
  <2> QED BY <2>4, <2>5, <2>6, <2>7, <2>9 DEF ControlInv
<1> QED
  <2>1. \A b \in BOOLEAN : PlanFor(b) \subseteq {"real", "fake"}
    BY DEF PlanFor
  <2> QED BY <1>1, <1>2, <1>3, <1>4, <1>5, <2>1 DEF AddReturns, Fails, publish_resource_ids

-----------------------------------------------------------------------------
(* The workers, and the whole step. *)

\* The workers of the data path touch only the activation task of a session.
LEMMA WorkerFrame ==
    ASSUME ControlInv, UNCHANGED <<state, thread, settings, slot, daemon, ids, disposed>>,
           sess' \in [Sids -> SessionRecord],
           \A s \in Sids :
               \A f \in {"at", "add", "sync", "inflight_add", "resource", "incomplete", "lost"} :
                   sess'[s][f] = sess[s][f]
    PROVE  ControlInv'
<1>1. ETyped' /\ Modes' /\ SlotAt'
  BY DEF ControlInv, ETyped, Modes, SlotAt
<1>2. \A s \in Sids : sess'[s].at = sess[s].at
  OBVIOUS
<1>3. OwnedAt' /\ OwnerOf' /\ OneLive'
  <2>1. Unused' = Unused
    BY <1>2 DEF Unused
  <2>2. slot.phase # "none" => slot.sid \in Sids
    BY DEF ControlInv, ETyped
  <2>3. OwnedAt'
    BY <1>2, <2>1, <2>2 DEF ControlInv, OwnedAt
  <2>4. OwnerOf' /\ OneLive'
    BY <1>2 DEF ControlInv, OwnerOf, OneLive
  <2> QED BY <2>3, <2>4
<1>4. DaemonHas' /\ AddCalls'
  <2>1. DaemonHas'
    BY DEF ControlInv, DaemonHas, DaemonAt
  <2>2. AddCalls'
    BY DEF ControlInv, AddCalls, AddAt
  <2> QED BY <2>1, <2>2
<1>5. SyncCalls'
  <2>1. \A s \in Sids : Synced(s) <=> Synced(s)'
    BY DEF Synced
  <2>2. \A s \in Sids : sess'[s].incomplete <=> sess[s].incomplete
    OBVIOUS
  <2>3. thread.at \in {"activate", "sync", "syncing", "pausing", "adding"} => thread.sid \in Sids
    BY DEF ControlInv, OwnedAt, SlotAt, Open, ETyped
  <2>4. slot.phase = "open" => slot.sid \in Sids
    BY DEF ControlInv, ETyped
  <2>5. state = "PAUSED" /\ thread.at = "idle" => slot.phase = "open"
    BY DEF ControlInv, SlotAt
  <2> QED BY <1>2, <2>1, <2>2, <2>3, <2>4, <2>5 DEF ControlInv, SyncCalls
<1>6. IdsKept'
  <2>1. slot.phase = "open" => slot.sid \in Sids
    BY DEF ControlInv, ETyped
  <2>2. thread.at \in {"adding", "syncing"} => thread.sid \in Sids
    BY DEF ControlInv, OwnedAt
  <2>3. IdsOf' = IdsOf /\ (IdsOf.phase = "open" => IdsOf.sid \in Sids)
    BY <2>1, <2>2 DEF IdsOf, Open
  <2>4. \A s \in Sids : sess'[s].resource = sess[s].resource
    OBVIOUS
  <2>5. resource_ids(IdsOf, sess') = resource_ids(IdsOf, sess)
    BY <2>3, <2>4 DEF resource_ids
  <2> QED BY <2>3, <2>5 DEF ControlInv, IdsKept
<1> QED BY <1>1, <1>3, <1>4, <1>5, <1>6 DEF ControlInv

LEMMA WorkerControl ==
    ASSUME ControlInv, NEW s \in Sids, Worker(s)
    PROVE  ControlInv'
<1>1. sess \in [Sids -> SessionRecord] /\ sess[s] \in SessionRecord
  BY DEF ControlInv, ETyped
<1>2. CASE UNCHANGED <<element, thread, slot, sess, daemon, ids>>
  BY <1>1, <1>2, WorkerFrame DEF element
<1>3. CASE /\ UNCHANGED <<element, thread, slot, daemon, ids>>
           /\ \E c \in {"none", "reading", "applying", "ended"} :
                sess' = [sess EXCEPT ![s].task = c]
  <2>1. PICK c \in {"none", "reading", "applying", "ended"} :
          sess' = [sess EXCEPT ![s] = [sess[s] EXCEPT !.task = c]]
    BY <1>3
  <2>2. [sess[s] EXCEPT !.task = c] \in SessionRecord
    BY <1>1, FieldTyped
  <2>3. \A f \in {"at", "add", "sync", "inflight_add", "resource", "incomplete", "lost"} :
          [sess[s] EXCEPT !.task = c][f] = sess[s][f]
    BY <1>1 DEF SessionRecord
  <2>4. sess' \in [Sids -> SessionRecord]
    BY <1>1, <2>1, <2>2
  <2>5. \A t \in Sids :
          \A f \in {"at", "add", "sync", "inflight_add", "resource", "incomplete", "lost"} :
              sess'[t][f] = sess[t][f]
    BY <1>1, <2>1, <2>3
  <2> QED BY <1>3, <2>4, <2>5, WorkerFrame DEF element
<1>4. CASE ActivationEvent(s)
  BY <1>3, <1>4 DEF ActivationEvent
<1>5. CASE AckActivation(s)
  <2>1. sess[s].task \in {"none", "reading", "applying", "ended"}
    BY <1>1 DEF SessionRecord
  <2> QED BY <1>1, <1>3, <1>5, <2>1 DEF AckActivation
<1>6. CASE FakeHop(s) \/ SwapPlanned(s) \/ MarkActive(s)
  BY <1>2, <1>6 DEF FakeHop, SwapPlanned, MarkActive
<1> QED BY <1>4, <1>5, <1>6 DEF Worker

LEMMA ErrorControl ==
    ASSUME ControlInv, InnerError \/ CheckCurrent \/ ErrorRestore
    PROVE  ControlInv'
<1>1. UNCHANGED <<element, thread, slot, sess, daemon, ids>>
  BY DEF InnerError, CheckCurrent, ErrorRestore
<1> QED BY <1>1, WorkerFrame DEF element, ControlInv, ETyped

LEMMA ControlStep ==
    ASSUME ControlInv, Step
    PROVE  ControlInv'
<1>1. CASE StateThread
  BY <1>1, NullToReadyControl, JoinPendingControl, DiscardControl, OpenReturnsControl,
     ActivateInnerControl, SyncActiveControl, SyncReturnsControl,
     PrepareDeferredFakeChainControl, MaybeAddDeferredSenderControl, AddReturnsControl,
     PausedToReadyControl, ReadyToNullControl, TakeForCloseControl, CloseJoinControl,
     SettleCallsControl, CloseReturnsControl, PublishClosedControl, RestoreInactiveControl,
     RestoreFakeChainControl DEF StateThread
<1>2. ASSUME NEW s \in Sids, Task(s) PROVE ControlInv'
  BY <1>2, OpenSessionControl, SubscribeActivationsControl, AddResourceControl,
     RollbackControl, CloseLandsControl, DropSessionControl, AddSenderControl,
     SyncResourceStateControl DEF Task
<1> QED BY <1>1, <1>2, SetPropertyControl, DisposeControl, WorkerControl, ErrorControl DEF Step

-----------------------------------------------------------------------------
(* The data path: `active` and the chain. *)

Early == {"unused", "opening", "subscribing"}

\* A step never restarts an activation task, nor takes a session back.
TaskKept ==
    \A s \in Sids :
        /\ sess'[s].task \in {sess[s].task, "ended"}
        /\ sess'[s].at \in Early => sess[s].at \in Early /\ sess'[s].task = sess[s].task

LEMMA StartOpenTask ==
    ASSUME ControlInv, NEW p, StartOpen(p), Unused # {}
    PROVE  TaskKept
<1>1. NextSid \in Sids /\ sess[NextSid].at = "unused"
  BY DEF NextSid, Unused
<1>2. sess \in [Sids -> SessionRecord]
  BY DEF ControlInv, ETyped
<1> QED BY <1>1, <1>2 DEF StartOpen, TaskKept, Early, SessionRecord

LEMMA ThreadTask ==
    ASSUME ControlInv, StateThread
    PROVE  TaskKept
<1>1. sess \in [Sids -> SessionRecord]
  BY DEF ControlInv, ETyped
<1>2. CASE UNCHANGED sess
  BY <1>2 DEF TaskKept
<1>3. ASSUME NEW k \in Sids, sess' = [sess EXCEPT ![k] = Consumed(@)]
      PROVE  TaskKept
  <2>1. sess'[k].task = "ended" /\ sess'[k].at = "closing"
    BY <1>1, <1>3 DEF Consumed, NewSession
  <2> QED BY <1>1, <1>3, <2>1 DEF TaskKept, Early
<1>4. CASE NullToReady
  BY <1>2, <1>4, StartOpenTask DEF NullToReady
<1>5. CASE JoinPending
  <2>1. At("joining") /\ thread.sid \in Sids /\ Unused # {}
    BY <1>5 DEF JoinPending, At, ControlInv, OwnedAt
  <2> QED BY <1>2, <1>3, <1>5, <2>1, StartOpenTask DEF JoinPending
<1>6. CASE Discard
  <2>1. Unused # {}
    BY <1>6 DEF Discard, At, ControlInv, OwnedAt
  <2> QED BY <1>6, <2>1, StartOpenTask DEF Discard
<1>7. CASE OpenReturns
  BY <1>1, <1>2, <1>7 DEF OpenReturns, TaskKept, Early, SessionRecord
<1>8. ASSUME NotActivated PROVE TaskKept
  BY <1>1, <1>8 DEF NotActivated, TaskKept, Early, SessionRecord
<1>9. CASE ActivateInner
  BY <1>2, <1>8, <1>9 DEF ActivateInner
<1>10. CASE SyncActive
  <2>1. CASE sess' = [sess EXCEPT ![thread.sid].sync = "sent"]
    BY <1>1, <2>1 DEF TaskKept, Early, SessionRecord
  <2> QED BY <1>8, <1>10, <2>1 DEF SyncActive
<1>11. CASE SyncReturns
  <2>1. CASE sess' = [sess EXCEPT ![thread.sid].inflight_sync = TRUE,
                                  ![thread.sid].incomplete = (thread.mode = "pause")]
    BY <1>1, <2>1 DEF TaskKept, Early, SessionRecord
  <2> QED BY <1>2, <1>8, <1>11, <2>1 DEF SyncReturns
<1>12. CASE MaybeAddDeferredSender
  <2>1. CASE sess' = [sess EXCEPT ![slot.sid].add = "sent"]
    BY <1>1, <2>1 DEF TaskKept, Early, SessionRecord
  <2> QED BY <1>2, <1>12, <2>1 DEF MaybeAddDeferredSender
<1>13. CASE AddReturns
  <2>1. CASE sess' = [sess EXCEPT ![thread.sid].resource = TRUE]
    BY <1>1, <2>1 DEF TaskKept, Early, SessionRecord
  <2>2. CASE sess' = [sess EXCEPT ![thread.sid].inflight_add = TRUE]
    BY <1>1, <2>2 DEF TaskKept, Early, SessionRecord
  <2> QED BY <1>2, <1>13, <2>1, <2>2 DEF AddReturns
<1>14. CASE SettleCalls
  <2>1. thread.sid \in Sids
    BY <1>14 DEF SettleCalls, At, ControlInv, OwnedAt
  <2> QED BY <1>3, <1>14, <2>1 DEF SettleCalls
<1>15. CASE \/ PrepareDeferredFakeChain \/ PausedToReady \/ ReadyToNull \/ TakeForClose
            \/ CloseJoin \/ CloseReturns \/ PublishClosed \/ RestoreInactive \/ RestoreFakeChain
  BY <1>2, <1>15 DEF PrepareDeferredFakeChain, PausedToReady, ReadyToNull, TakeForClose,
     CloseJoin, CloseReturns, PublishClosed, RestoreInactive, RestoreFakeChain
<1> QED BY <1>4, <1>5, <1>6, <1>7, <1>9, <1>10, <1>11, <1>12, <1>13, <1>14, <1>15
        DEF StateThread

LEMMA KeptWorkerOf ==
    ASSUME WorkerOf, TaskKept, UNCHANGED work
    PROVE  WorkerOf'
BY DEF WorkerOf, TaskKept, Early

\* The history `upset` of a step.
UpsetStep ==
    upset' = IF (Quiet /\ Agree)' THEN {}
             ELSE (IF Renews THEN {} ELSE upset) \cup {w \in Upsets : Upset(w)}

Settled == Quiet /\ Agree

\* The events a step adds to it.
LEMMA UpsetBy ==
    ASSUME UpsetStep, ~Settled'
    PROVE  /\ ErrorRestore => "error" \in upset'
           /\ RestoreFakeChain /\ chain' = "real" => "unrestored" \in upset'
           /\ /\ ActivateInner \/ PrepareDeferredFakeChain
              /\ active \/ \E s \in Sids : Midway(s)
              => "leftover" \in upset'
           /\ \A s \in Sids :
                (FakeHop(s) \/ SwapPlanned(s)) /\ work'[s].at = "failed" => "failed" \in upset'
<1>1. \A w \in Upsets : Upset(w) => w \in upset'
  BY DEF UpsetStep, Settled
<1>2. ErrorRestore => "error" \in upset'
  BY <1>1 DEF Upset, Upsets
<1>3. RestoreFakeChain /\ chain' = "real" => "unrestored" \in upset'
  BY <1>1 DEF Upset, Upsets
<1>4. /\ ActivateInner \/ PrepareDeferredFakeChain
      /\ active \/ \E s \in Sids : Midway(s)
      => "leftover" \in upset'
  BY <1>1 DEF Upset, Upsets
<1>5. ASSUME NEW s \in Sids, FakeHop(s) \/ SwapPlanned(s), work'[s].at = "failed"
      PROVE  "failed" \in upset'
  BY <1>1, <1>5 DEF Upset, Upsets
<1> QED BY <1>2, <1>3, <1>4, <1>5

\* It keeps the others, but when an activation or a restore has set both.
LEMMA UpsetKept ==
    ASSUME ControlInv, UpsetStep, ~Settled', thread.at # "restoring" \/ UNCHANGED thread,
           \A s \in Sids : work[s].at = "swap" => work'[s].at # "mark"
    PROVE  upset \subseteq upset'
<1>1. ~RestoreInactive
  BY DEF RestoreInactive, At, Goto, ControlInv, ETyped
<1>2. ~Renews
  BY <1>1 DEF Renews, SwapPlanned
<1> QED BY <1>2 DEF UpsetStep, Settled

\* It has an overlap as long as it lasts.
LEMMA UpsetOverlap ==
    ASSUME UpsetStep
    PROVE  Overlap' => "overlap" \in upset'
<1> SUFFICES ASSUME Overlap' PROVE "overlap" \in upset'
  OBVIOUS
<1>1. ~Quiet'
  BY DEF Overlap, Quiet
<1>2. Upset("overlap") /\ "overlap" \in Upsets
  BY DEF Upset, Upsets
<1> QED BY <1>1, <1>2 DEF UpsetStep

\* Where `active` is what the chain is, nothing is owed.
LEMMA PathNow ==
    ASSUME PathInv, UpsetStep, chain' \in {"fake", "real", "gone"}, active' \in BOOLEAN,
           work' \in [Sids -> WorkRecord], WorkerOf',
           ~Settled' => RealOwed' /\ ActiveOwed' /\ Marked' /\ ThreadOwed'
    PROVE  PathInv'
<1>1. PathTyped'
  BY DEF PathInv, PathTyped, UpsetStep
<1>2. Settled' => RealOwed' /\ ActiveOwed' /\ Marked' /\ ThreadOwed'
  BY DEF Settled, Quiet, Agree, RealOwed, ActiveOwed, Marked, ThreadOwed, Midway, At
<1> QED BY <1>1, <1>2, UpsetOverlap DEF PathInv

\* A step that swaps nothing, and leaves no teardown behind.
LEMMA PathFrame ==
    ASSUME ControlInv, PathInv, UpsetStep, UNCHANGED <<chain, active, work>>, WorkerOf',
           thread.at # "restoring" \/ UNCHANGED thread,
           thread.at \in Teardown => thread'.at \in Teardown,
           thread'.at \in {"sync", "syncing"} => thread.at \in {"sync", "syncing"},
           thread'.at = "refaking" => thread.at = "refaking"
    PROVE  PathInv'
<1>1. ASSUME ~Settled' PROVE RealOwed' /\ ActiveOwed' /\ Marked' /\ ThreadOwed'
  <2>1. upset \subseteq upset'
    BY <1>1, UpsetKept
  <2>2. (RealExcused => RealExcused') /\ (ActiveExcused => ActiveExcused')
    BY <2>1 DEF RealExcused, ActiveExcused
  <2>3. RealOwed' /\ ActiveOwed'
    BY <2>2 DEF PathInv, RealOwed, ActiveOwed, Midway
  <2>4. Marked' /\ ThreadOwed'
    BY <2>1, <2>2 DEF PathInv, Marked, ThreadOwed
  <2> QED BY <2>3, <2>4
<1> QED BY <1>1, PathNow DEF PathInv, PathTyped

\* The thread sets the chain or `active` in a state change: a worker about to
\* mark overlaps with it.
LEMMA ThreadSwap ==
    ASSUME ControlInv, PathInv, UpsetStep, WorkerOf', UNCHANGED work,
           thread.at \notin {"idle", "restoring"},
           chain' \in {"fake", "real", "gone"}, active' \in BOOLEAN,
           ~Settled' => RealOwed' /\ ActiveOwed' /\ ThreadOwed'
    PROVE  PathInv'
<1>1. ASSUME ~Settled' PROVE Marked'
  <2>1. \A s \in Sids : work[s].at = "mark" => "overlap" \in upset
    BY DEF PathInv, Overlap, Midway, At
  <2>2. upset \subseteq upset'
    BY <1>1, UpsetKept
  <2> QED BY <2>1, <2>2 DEF Marked, ActiveExcused
<1> QED BY <1>1, PathNow DEF PathInv, PathTyped

\* What a swap can come to.
LEMMA SwapOutcome ==
    ASSUME NEW target \in {"real", "fake"}, NEW r \in rebuild_chain(target)
    PROVE  /\ r.ok \in BOOLEAN
           /\ r.ok => r.chain = target
           /\ ~r.ok => r.chain \in {chain, "gone"}
<1>1. r = [ok |-> TRUE, chain |-> target] \/ r \in [ok : {FALSE}, chain : {chain, "gone"}]
  BY DEF rebuild_chain
<1>2. CASE r = [ok |-> TRUE, chain |-> target]
  BY <1>2
<1>3. CASE r \in [ok : {FALSE}, chain : {chain, "gone"}]
  <2>1. r.ok = FALSE /\ r.chain \in {chain, "gone"}
    BY <1>3
  <2> QED BY <2>1
<1> QED BY <1>1, <1>2, <1>3

LEMMA ThreadPath ==
    ASSUME ControlInv, PathInv, StateThread, UpsetStep
    PROVE  PathInv'
<1>1. /\ thread.at \in ThreadPhases /\ thread.plan \in {"real", "fake"}
      /\ chain \in {"fake", "real", "gone"} /\ active \in BOOLEAN
  BY DEF ControlInv, ETyped, PathInv, PathTyped
<1>2. ASSUME UNCHANGED work PROVE WorkerOf'
  BY <1>2, ThreadTask, KeptWorkerOf DEF PathInv
<1>3. CASE \/ NullToReady \/ JoinPending \/ Discard \/ OpenReturns \/ MaybeAddDeferredSender
           \/ AddReturns \/ PausedToReady \/ ReadyToNull
  <2>1. UNCHANGED path
    BY <1>3 DEF NullToReady, JoinPending, Discard, OpenReturns, MaybeAddDeferredSender,
       AddReturns, PausedToReady, ReadyToNull
  <2>2. thread.at \in {"idle", "joining", "discarding", "opening", "pausing", "adding"}
    BY <1>3 DEF NullToReady, JoinPending, Discard, OpenReturns, MaybeAddDeferredSender,
       AddReturns, PausedToReady, ReadyToNull, At
  <2>3. thread'.at \in {"idle", "joining", "discarding", "opening", "activate", "adding", "closing"}
    <3>1. thread \in [at : ThreadPhases, sid : Sids \cup {NoSid},
                      mode : {"none", "open", "pause", "null"}, plan : {"real", "fake"}]
      BY DEF ControlInv, ETyped
    <3>2. CASE NullToReady \/ JoinPending \/ Discard
      BY <3>1, <3>2 DEF NullToReady, JoinPending, Discard, StartOpen, Goto, Fails, IdleThread, At
    <3>3. CASE OpenReturns \/ MaybeAddDeferredSender
      BY <3>1, <3>3 DEF OpenReturns, MaybeAddDeferredSender, Goto, Fails, IdleThread
    <3>4. CASE AddReturns
      <4>1. CASE \E p \in PlanFor(TRUE) : thread' = [thread EXCEPT !.at = "activate", !.plan = p]
        <5>1. PICK p \in PlanFor(TRUE) : thread' = [thread EXCEPT !.at = "activate", !.plan = p]
          BY <4>1
        <5> QED BY <3>1, <5>1
      <4>2. CASE Fails
        BY <4>2 DEF Fails, IdleThread
      <4> QED BY <3>4, <4>1, <4>2 DEF AddReturns
    <3>5. CASE PausedToReady \/ ReadyToNull
      BY <3>1, <3>5 DEF PausedToReady, ReadyToNull, At
    <3> QED BY <1>3, <3>2, <3>3, <3>4, <3>5
  <2> QED BY <1>2, <2>1, <2>2, <2>3, PathFrame DEF Teardown, path
<1>4. CASE SyncActive
  <2>1. thread.at = "sync" /\ thread'.at \in {"syncing", "closing", "restoring"}
    BY <1>4 DEF SyncActive, NotActivated, At, Goto, ControlInv, ETyped
  <2>2. UNCHANGED path
    BY <1>4 DEF SyncActive
  <2> QED BY <1>2, <2>1, <2>2, PathFrame DEF Teardown, path
<1>5. CASE TakeForClose \/ SettleCalls \/ CloseReturns \/ PublishClosed
  <2>1. UNCHANGED path
    BY <1>5 DEF TakeForClose, SettleCalls, CloseReturns, PublishClosed
  <2>2. /\ thread.at # "restoring"
        /\ thread'.at \in {"settling", "closewait", "closed", "restoring"}
    BY <1>5 DEF TakeForClose, SettleCalls, CloseReturns, PublishClosed, Goto, At, ControlInv,
       ETyped, SlotAt
  <2> QED BY <1>2, <2>1, <2>2, PathFrame DEF Teardown, path
<1>6. CASE CloseJoin
  BY <1>1, <1>6 DEF CloseJoin, At, ThreadPhases, Carrying, Teardown
<1>7. CASE RestoreInactive
  <2>1. thread.at = "restoring" /\ active' = FALSE /\ UNCHANGED <<chain, work>>
    BY <1>7 DEF RestoreInactive, At
  <2>2. thread'.at = "refaking"
    BY <1>7 DEF RestoreInactive, Goto, ControlInv, ETyped
  <2>3. RealOwed' /\ ActiveOwed' /\ ThreadOwed'
    BY <2>1, <2>2 DEF RealOwed, ActiveOwed, ThreadOwed, Teardown
  <2>4. Marked'
    <3>1. \A s \in Sids : work'[s].at = "mark" => "overlap" \in upset'
      BY <2>2, UpsetOverlap DEF Overlap, Midway, At
    <3> QED BY <3>1 DEF Marked, ActiveExcused
  <2> QED BY <1>1, <1>2, <2>1, <2>3, <2>4, PathNow DEF PathInv, PathTyped
<1>8. CASE RestoreFakeChain
  <2>1. thread.at = "refaking" /\ UNCHANGED <<active, work>> /\ thread'.at = "idle"
    BY <1>8 DEF RestoreFakeChain, At, IdleThread
  <2>2. PICK r \in rebuild_chain("fake") : chain' = r.chain
    BY <1>8 DEF RestoreFakeChain, swap_inner
  <2>3. chain' \in {"fake", "real", "gone"}
    BY <1>1, <2>2, SwapOutcome
  <2>4. ASSUME ~Settled' PROVE RealOwed' /\ ActiveOwed' /\ ThreadOwed'
    <3>1. chain' = "real" => "unrestored" \in upset'
      BY <1>8, <2>4, UpsetBy
    <3>2. upset \subseteq upset'
      BY <2>1, <2>4, UpsetKept
    <3>3. ~active \/ "overlap" \in upset
      BY <2>1 DEF PathInv, ThreadOwed
    <3> QED BY <2>1, <3>1, <3>2, <3>3
            DEF RealOwed, ActiveOwed, ThreadOwed, RealExcused, ActiveExcused
  <2> QED BY <1>1, <1>2, <2>1, <2>3, <2>4, ThreadSwap
<1>9. CASE SyncReturns
  <2>1. thread.at = "syncing" /\ UNCHANGED <<chain, work>>
    BY <1>9 DEF SyncReturns, At
  <2>2. \/ active' = TRUE /\ thread'.at = "idle"
        \/ thread'.at \in {"closing", "restoring"} /\ UNCHANGED active
    BY <1>9 DEF SyncReturns, Activated, NotActivated, Goto, IdleThread, ControlInv, ETyped
  <2>3. ASSUME ~Settled' PROVE RealOwed' /\ ActiveOwed' /\ ThreadOwed'
    <3>1. upset \subseteq upset'
      BY <2>1, <2>3, UpsetKept
    <3>2. chain' = "real" \/ ActiveExcused'
      BY <2>1, <3>1 DEF PathInv, ThreadOwed, ActiveExcused
    <3> QED BY <2>2, <3>2 DEF RealOwed, ActiveOwed, ThreadOwed, Teardown
  <2>4. active' \in BOOLEAN
    BY <1>1, <2>2
  <2> QED BY <1>1, <1>2, <2>1, <2>3, <2>4, ThreadSwap
<1>10. CASE ActivateInner
  <2>1. thread.at = "activate" /\ UNCHANGED <<active, work>>
    BY <1>10 DEF ActivateInner, At
  <2>2. PICK r \in rebuild_chain(thread.plan) :
          \/ UNCHANGED chain /\ Activated
          \/ chain' = r.chain /\ ~r.ok /\ NotActivated
          \/ chain' = r.chain /\ r.ok /\ thread.plan = "real" /\ Goto("sync")
          \/ chain' = r.chain /\ r.ok /\ thread.plan = "fake" /\ Activated
    BY <1>1, <1>10 DEF ActivateInner, swap_inner
  <2>3. NotActivated => thread'.at \in {"closing", "restoring"}
    BY DEF NotActivated, Goto, ControlInv, ETyped
  <2>4. Goto("sync") => thread'.at = "sync"
    BY DEF Goto, ControlInv, ETyped
  <2>5. Activated => thread'.at = "idle"
    BY DEF Activated, IdleThread
  <2>6. chain' \in {"fake", "real", "gone"}
    BY <1>1, <2>2, SwapOutcome
  <2>7. \/ UNCHANGED chain /\ thread'.at = "idle"
        \/ thread'.at \in {"closing", "restoring"}
        \/ chain' = "real" /\ thread'.at = "sync"
        \/ chain' = "fake" /\ thread'.at = "idle"
    BY <1>1, <2>2, <2>3, <2>4, <2>5, SwapOutcome
  <2>8. ASSUME ~Settled' PROVE RealOwed' /\ ActiveOwed' /\ ThreadOwed'
    <3>1. upset \subseteq upset'
      BY <2>1, <2>8, UpsetKept
    <3>2. active => "leftover" \in upset'
      BY <1>10, <2>8, UpsetBy
    <3>3. active' => ActiveExcused'
      BY <2>1, <3>2 DEF ActiveExcused
    <3>4. RealOwed
      BY DEF PathInv
    <3>5. RealOwed'
      BY <2>1, <2>7, <3>1, <3>4 DEF RealOwed, RealExcused, Teardown
    <3> QED BY <2>7, <3>3, <3>5 DEF ActiveOwed, ThreadOwed
  <2> QED BY <1>1, <1>2, <2>1, <2>6, <2>8, ThreadSwap
<1>11. CASE PrepareDeferredFakeChain
  <2>1. thread.at = "idle" /\ UNCHANGED <<active, work>>
    BY <1>11 DEF PrepareDeferredFakeChain, At
  <2>2. PICK r \in rebuild_chain("fake") : chain' = chain \/ chain' = r.chain
    BY <1>11 DEF PrepareDeferredFakeChain
  <2>3. chain' \in {chain, "fake", "gone"}
    BY <2>2, SwapOutcome
  <2>4. thread'.at \in {"idle", "pausing"}
    BY <1>11 DEF PrepareDeferredFakeChain, At, ControlInv, ETyped
  <2>5. ASSUME ~Settled' PROVE RealOwed' /\ ActiveOwed' /\ Marked' /\ ThreadOwed'
    <3>1. upset \subseteq upset'
      BY <2>1, <2>5, UpsetKept
    <3>2. (active \/ \E s \in Sids : Midway(s)) => "leftover" \in upset'
      BY <1>11, <2>5, UpsetBy
    <3>3. RealOwed' /\ ThreadOwed'
      BY <2>1, <2>3, <2>4, <3>1 DEF PathInv, RealOwed, ThreadOwed, RealExcused, Teardown
    <3>4. ActiveOwed'
      BY <2>1, <3>2 DEF ActiveOwed, ActiveExcused
    <3>5. Marked'
      BY <2>1, <2>3, <3>1, <3>2 DEF PathInv, Marked, ActiveExcused, Midway
    <3> QED BY <3>3, <3>4, <3>5
  <2> QED BY <1>1, <1>2, <2>1, <2>3, <2>5, PathNow DEF PathInv, PathTyped
<1> QED BY <1>3, <1>4, <1>5, <1>6, <1>7, <1>8, <1>9, <1>10, <1>11 DEF StateThread

LEMMA TaskPath ==
    ASSUME ControlInv, PathInv, NEW s \in Sids, Task(s), UpsetStep
    PROVE  PathInv'
<1>1. UNCHANGED <<chain, active, work, thread>>
  BY DEF Task, OpenSession, SubscribeActivations, AddResource, Rollback, CloseLands,
      DropSession,
         AddSender, SyncResourceState, path
<1>2. sess \in [Sids -> SessionRecord]
  BY DEF ControlInv, ETyped
<1>3. CASE SubscribeActivations(s)
  <2>1. sess[s].task = "none" /\ work[s].at = "none"
    BY <1>3 DEF PathInv, WorkerOf, SubscribeActivations
  <2>2. /\ sess'[s].at \notin Early
        /\ \A t \in Sids : t # s => sess'[t] = sess[t]
    BY <1>2, <1>3 DEF SubscribeActivations, SessionRecord, Early
  <2>3. WorkerOf'
    BY <1>1, <2>1, <2>2 DEF PathInv, WorkerOf, Early
  <2> QED BY <1>1, <2>3, PathFrame
<1>4. CASE OpenSession(s)
  <2>1. TaskKept
    BY <1>2, <1>4 DEF OpenSession, TaskKept, Early, SessionRecord
  <2> QED BY <1>1, <2>1, KeptWorkerOf, PathFrame DEF PathInv
<1>5. CASE AddResource(s)
  <2>1. TaskKept
    BY <1>2, <1>5 DEF AddResource, TaskKept, Early, SessionRecord
  <2> QED BY <1>1, <2>1, KeptWorkerOf, PathFrame DEF PathInv
<1>6. CASE Rollback(s) \/ CloseLands(s)
  <2>1. TaskKept
    BY <1>2, <1>6 DEF Rollback, CloseLands, CloseSession, TaskKept, Early, SessionRecord
  <2> QED BY <1>1, <2>1, KeptWorkerOf, PathFrame DEF PathInv
<1>7. CASE DropSession(s)
  <2>1. sess'[s].task = "ended" /\ sess'[s].at = "closing"
    BY <1>2, <1>7 DEF DropSession, Consumed, NewSession
  <2>2. TaskKept
    BY <1>2, <1>7, <2>1 DEF DropSession, TaskKept, Early
  <2> QED BY <1>1, <2>2, KeptWorkerOf, PathFrame DEF PathInv
<1>8. CASE AddSender(s) \/ SyncResourceState(s)
  <2>1. TaskKept
    BY <1>2, <1>8 DEF AddSender, SyncResourceState, TaskKept, Early, SessionRecord
  <2> QED BY <1>1, <2>1, KeptWorkerOf, PathFrame DEF PathInv
<1> QED BY <1>3, <1>4, <1>5, <1>6, <1>7, <1>8 DEF Task

LEMMA WorkerPath ==
    ASSUME ControlInv, PathInv, NEW s \in Sids, Worker(s), UpsetStep
    PROVE  PathInv'
<1>1. /\ sess \in [Sids -> SessionRecord] /\ work \in [Sids -> WorkRecord]
      /\ work[s] \in WorkRecord /\ chain \in {"fake", "real", "gone"} /\ active \in BOOLEAN
  BY DEF ControlInv, ETyped, PathInv, PathTyped
<1>2. UNCHANGED thread
  BY DEF Worker, ActivationEvent, FakeHop, SwapPlanned, MarkActive, AckActivation
\* A step of the worker of s that keeps what was owed, or says that it does not.
<1>3. ASSUME work' \in [Sids -> WorkRecord], work[s].at # "swap" \/ work'[s].at # "mark",
             \A t \in Sids : t # s => work'[t] = work[t], ~Settled'
      PROVE  /\ upset \subseteq upset'
             /\ RealExcused => RealExcused'
             /\ ActiveExcused => ActiveExcused'
  <2>1. upset \subseteq upset'
    BY <1>2, <1>3, UpsetKept
  <2> QED BY <2>1 DEF RealExcused, ActiveExcused
\* One that swaps and marks nothing.
<1>4. ASSUME work' \in [Sids -> WorkRecord], WorkerOf', UNCHANGED <<chain, active>>,
             ~Midway(s), ~Midway(s)', \A t \in Sids : t # s => work'[t] = work[t]
      PROVE  PathInv'
  <2>1. ASSUME ~Settled' PROVE RealOwed' /\ ActiveOwed' /\ Marked' /\ ThreadOwed'
    <3>1. /\ upset \subseteq upset'
          /\ RealExcused => RealExcused'
          /\ ActiveExcused => ActiveExcused'
      BY <1>3, <1>4, <2>1 DEF Midway
    <3>2. \A t \in Sids : Midway(t) => t # s /\ Midway(t)'
      BY <1>4 DEF Midway
    <3>3. RealOwed' /\ ActiveOwed'
      BY <1>2, <1>4, <3>1, <3>2 DEF PathInv, RealOwed, ActiveOwed, Midway
    <3>4. Marked' /\ ThreadOwed'
      BY <1>2, <1>4, <3>1 DEF PathInv, Marked, ThreadOwed, Midway
    <3> QED BY <3>3, <3>4
  <2> QED BY <1>1, <1>4, <2>1, PathNow
<1>5. CASE ActivationEvent(s)
  <2>1. PICK ask \in {"real", "off", "bad"} :
          work' = [work EXCEPT ![s] = [at |-> "queued", ask |-> ask]]
    BY <1>5 DEF ActivationEvent
  <2>2. work[s].at = "none" /\ sess[s].task = "reading" /\ UNCHANGED <<chain, active>>
    BY <1>5 DEF ActivationEvent, PathInv, WorkerOf
  <2>3. /\ work' \in [Sids -> WorkRecord] /\ work'[s].at = "queued"
        /\ \A t \in Sids : t # s => work'[t] = work[t]
    BY <1>1, <2>1 DEF WorkRecord
  <2>4. /\ sess'[s].task = "applying" /\ sess'[s].at = sess[s].at
        /\ \A t \in Sids : t # s => sess'[t] = sess[t]
    BY <1>1, <1>5 DEF ActivationEvent, SessionRecord
  <2>5. WorkerOf'
    BY <2>2, <2>3, <2>4 DEF PathInv, WorkerOf
  <2> QED BY <1>4, <2>2, <2>3, <2>5 DEF Midway
<1>6. CASE AckActivation(s)
  <2>1. /\ work[s].at \in {"applied", "failed"} /\ UNCHANGED <<chain, active>>
        /\ work' = [work EXCEPT ![s].at = "none"]
    BY <1>6 DEF AckActivation, Work
  <2>2. /\ work' \in [Sids -> WorkRecord] /\ work'[s].at = "none"
        /\ \A t \in Sids : t # s => work'[t] = work[t]
    BY <1>1, <2>1 DEF WorkRecord
  <2>3. /\ sess'[s].at = sess[s].at /\ (sess[s].task # "applying" => sess'[s] = sess[s])
        /\ \A t \in Sids : t # s => sess'[t] = sess[t]
    BY <1>1, <1>6 DEF AckActivation, SessionRecord
  <2>4. sess[s].task = "applying" => sess[s].at \notin {"unused", "opening", "subscribing"}
    BY DEF PathInv, WorkerOf
  <2>5. WorkerOf'
    BY <2>2, <2>3, <2>4 DEF PathInv, WorkerOf
  <2> QED BY <1>4, <2>1, <2>2, <2>5 DEF Midway
<1>7. ASSUME NEW p \in {"swap", "failed", "mark", "applied"}, Work(s, p), UNCHANGED sess,
             work[s].at # "none"
      PROVE  /\ work' \in [Sids -> WorkRecord] /\ work'[s].at = p /\ work'[s].ask = work[s].ask
             /\ \A t \in Sids : t # s => work'[t] = work[t]
             /\ WorkerOf'
  <2>1. /\ work' \in [Sids -> WorkRecord] /\ work'[s].at = p /\ work'[s].ask = work[s].ask
        /\ \A t \in Sids : t # s => work'[t] = work[t]
    BY <1>1, <1>7 DEF Work, WorkRecord
  <2>2. WorkerOf'
    BY <1>7, <2>1 DEF PathInv, WorkerOf
  <2> QED BY <2>1, <2>2
<1>8. CASE FakeHop(s)
  <2>1. work[s].at = "queued" /\ UNCHANGED <<sess, active>>
    BY <1>8 DEF FakeHop
  <2>2. \/ Work(s, "swap") /\ UNCHANGED chain
        \/ \E r \in rebuild_chain("fake") :
             chain' = r.chain /\ (Work(s, "swap") \/ Work(s, "failed"))
    BY <1>8 DEF FakeHop, swap_inner
  <2>3. chain' \in {chain, "fake", "gone"} /\ (Work(s, "swap") \/ Work(s, "failed"))
    BY <2>2, SwapOutcome
  <2>4. PICK p \in {"swap", "failed"} : Work(s, p)
    BY <2>3
  <2>5. /\ work' \in [Sids -> WorkRecord] /\ work'[s].at = p
        /\ \A t \in Sids : t # s => work'[t] = work[t]
        /\ WorkerOf'
    BY <1>7, <2>1, <2>4
  <2>6. chain' \in {"fake", "real", "gone"}
    BY <1>1, <2>3
  <2>7. ASSUME ~Settled' PROVE RealOwed' /\ ActiveOwed' /\ Marked' /\ ThreadOwed'
    <3>1. /\ upset \subseteq upset'
          /\ RealExcused => RealExcused'
          /\ ActiveExcused => ActiveExcused'
      BY <1>3, <2>1, <2>5, <2>7
    <3>2. \A t \in Sids : Midway(t) => t # s /\ Midway(t)'
      BY <2>1, <2>5 DEF Midway
    <3>3. Midway(s)' \/ "failed" \in upset'
      BY <1>8, <2>5, <2>7, UpsetBy DEF Midway
    <3>4. ~At("idle") \/ (\E t \in Sids \ {s} : Midway(t)) => ActiveExcused'
      <4>1. CASE Midway(s)'
        <5>1. ~At("idle") \/ (\E t \in Sids \ {s} : Midway(t)) => Overlap'
          BY <1>2, <3>2, <4>1 DEF Overlap, At
        <5> QED BY <5>1, UpsetOverlap DEF ActiveExcused
      <4> QED BY <3>3, <4>1 DEF ActiveExcused
    <3>5. RealOwed'
      BY <1>2, <2>1, <2>3, <2>5, <3>1 DEF PathInv, RealOwed
    <3>6. ActiveOwed'
      BY <3>3 DEF ActiveOwed, ActiveExcused
    <3>7. Marked'
      BY <2>1, <2>3, <2>5, <3>1, <3>4 DEF PathInv, Marked, Midway
    <3>8. ThreadOwed'
      BY <1>2, <2>1, <3>1, <3>4 DEF PathInv, ThreadOwed, At
    <3> QED BY <3>5, <3>6, <3>7, <3>8
  <2> QED BY <1>1, <2>1, <2>5, <2>6, <2>7, PathNow
<1>9. CASE SwapPlanned(s)
  <2> DEFINE target == IF work[s].ask = "real" THEN "real" ELSE "fake"
  <2>1. work[s].at = "swap" /\ UNCHANGED <<sess, active>>
    BY <1>9 DEF SwapPlanned
  <2>2. PICK r \in rebuild_chain(target), refaked \in BOOLEAN :
          /\ swap_inner(IF ~r.ok /\ refaked THEN [r EXCEPT !.chain = "fake"] ELSE r)
          /\ Work(s, CASE ~r.ok \/ work[s].ask = "bad" -> "failed" [] OTHER -> "mark")
    BY <1>9 DEF SwapPlanned
  <2>3. target \in {"real", "fake"}
    OBVIOUS
  <2>4. /\ r.ok \in BOOLEAN /\ r.ok => r.chain = target
        /\ ~r.ok => r.chain \in {chain, "gone"}
    BY <2>2, <2>3, SwapOutcome
  <2>5. \/ chain' = r.chain
        \/ ~r.ok /\ chain' = "fake"
    <3>1. CASE ~r.ok /\ refaked
      <4>1. chain' = [r EXCEPT !.chain = "fake"].chain
        BY <2>2, <3>1 DEF swap_inner
      <4>2. r = [ok |-> TRUE, chain |-> target] \/ r \in [ok : {FALSE}, chain : {chain, "gone"}]
        BY <2>2 DEF rebuild_chain
      <4>3. [r EXCEPT !.chain = "fake"].chain = "fake"
        BY <4>2
      <4> QED BY <3>1, <4>1, <4>3
    <3>2. CASE ~(~r.ok /\ refaked)
      BY <2>2, <3>2 DEF swap_inner
    <3> QED BY <3>1, <3>2
  <2>6. \/ chain' \in {chain, "fake", "gone"} /\ Work(s, "failed")
        \/ chain' = target /\ Work(s, "mark")
    <3>1. CASE ~r.ok
      BY <2>2, <2>4, <2>5, <3>1
    <3>2. CASE r.ok
      BY <2>2, <2>4, <2>5, <3>2
    <3> QED BY <2>4, <3>1, <3>2
  <2>7. CASE chain' \in {chain, "fake", "gone"} /\ Work(s, "failed")
    <3>1. /\ work' \in [Sids -> WorkRecord] /\ work'[s].at = "failed"
          /\ \A t \in Sids : t # s => work'[t] = work[t]
          /\ WorkerOf'
      BY <1>7, <2>1, <2>7
    <3>2. ASSUME ~Settled' PROVE RealOwed' /\ ActiveOwed' /\ Marked' /\ ThreadOwed'
      <4>1. /\ upset \subseteq upset'
            /\ RealExcused => RealExcused'
        BY <1>3, <3>1, <3>2
      <4>2. ActiveExcused'
        BY <1>9, <3>1, <3>2, UpsetBy DEF ActiveExcused
      <4>3. RealOwed'
        BY <1>2, <2>1, <2>7, <3>1, <4>1 DEF PathInv, RealOwed
      <4>4. ActiveOwed' /\ ThreadOwed'
        BY <1>2, <2>1, <4>1, <4>2 DEF PathInv, ActiveOwed, ThreadOwed
      <4>5. Marked'
        BY <2>7, <3>1, <4>1, <4>2 DEF PathInv, Marked
      <4> QED BY <4>3, <4>4, <4>5
    <3>3. chain' \in {"fake", "real", "gone"}
      BY <1>1, <2>7
    <3> QED BY <1>1, <2>1, <3>1, <3>2, <3>3, PathNow
  <2>8. CASE chain' = target /\ Work(s, "mark")
    <3>1. /\ work' \in [Sids -> WorkRecord] /\ work'[s].at = "mark" /\ work'[s].ask = work[s].ask
          /\ \A t \in Sids : t # s => work'[t] = work[t]
          /\ WorkerOf'
      BY <1>7, <2>1, <2>8
    <3>2. RealOwed' /\ ActiveOwed'
      BY <2>8, <3>1 DEF RealOwed, ActiveOwed, Midway
    <3>3. ~At("idle") \/ (\E t \in Sids \ {s} : work[t].at = "mark") => Overlap'
      BY <1>2, <3>1 DEF Overlap, Midway, At
    <3>4. ~At("idle") \/ (\E t \in Sids \ {s} : work[t].at = "mark") => "overlap" \in upset'
      BY <3>3, UpsetOverlap
    <3>5. Marked'
      BY <2>8, <3>1, <3>4 DEF Marked, ActiveExcused
    <3>6. ThreadOwed'
      BY <1>2, <3>4 DEF ThreadOwed, At, ActiveExcused
    <3>7. chain' \in {"fake", "real", "gone"}
      BY <2>8
    <3> QED BY <1>1, <2>1, <3>1, <3>2, <3>5, <3>6, <3>7, PathNow
  <2> QED BY <2>6, <2>7, <2>8
<1>10. CASE MarkActive(s)
  <2>1. /\ work[s].at = "mark" /\ active' = (work[s].ask = "real") /\ Work(s, "applied")
        /\ UNCHANGED <<sess, chain>>
    BY <1>10 DEF MarkActive
  <2>2. /\ work' \in [Sids -> WorkRecord] /\ work'[s].at = "applied"
        /\ \A t \in Sids : t # s => work'[t] = work[t]
        /\ WorkerOf'
    BY <1>7, <2>1
  <2>3. ASSUME ~Settled' PROVE RealOwed' /\ ActiveOwed' /\ Marked' /\ ThreadOwed'
    <3>1. /\ upset \subseteq upset'
          /\ RealExcused => RealExcused'
          /\ ActiveExcused => ActiveExcused'
      BY <1>3, <2>1, <2>2, <2>3
    <3>2. RealOwed' /\ ActiveOwed'
      BY <2>1, <3>1 DEF PathInv, RealOwed, ActiveOwed, Marked, RealExcused
    <3>3. Marked'
      BY <2>1, <2>2, <3>1 DEF PathInv, Marked
    <3>4. thread.at # "idle" => "overlap" \in upset
      BY <2>1 DEF PathInv, Overlap, Midway, At
    <3>5. ThreadOwed'
      BY <1>2, <3>1, <3>4 DEF ThreadOwed, ActiveExcused
    <3> QED BY <3>2, <3>3, <3>5
  <2>4. active' \in BOOLEAN
    BY <2>1
  <2> QED BY <1>1, <2>1, <2>2, <2>3, <2>4, PathNow
<1> QED BY <1>5, <1>6, <1>8, <1>9, <1>10 DEF Worker

LEMMA OtherPath ==
    ASSUME ControlInv, PathInv, UpsetStep,
           SetProperty \/ Dispose \/ InnerError \/ CheckCurrent \/ ErrorRestore
    PROVE  PathInv'
<1>1. UNCHANGED <<thread, work, active>>
  BY DEF SetProperty, Dispose, InnerError, CheckCurrent, ErrorRestore, path
<1>2. TaskKept
  <2>1. sess \in [Sids -> SessionRecord]
    BY DEF ControlInv, ETyped
  <2>2. CASE UNCHANGED sess
    BY <2>2 DEF TaskKept
  <2>3. CASE slot.phase = "open" /\ sess' = [sess EXCEPT ![slot.sid] = Consumed(@)]
    <3>1. slot.sid \in Sids
      BY <2>3 DEF ControlInv, ETyped
    <3>2. sess'[slot.sid].task = "ended" /\ sess'[slot.sid].at = "closing"
      BY <2>1, <2>3, <3>1 DEF Consumed, NewSession
    <3> QED BY <2>1, <2>3, <3>1, <3>2 DEF TaskKept, Early
  <2> QED BY <2>2, <2>3 DEF SetProperty, Dispose, InnerError, CheckCurrent, ErrorRestore
<1>3. WorkerOf'
  BY <1>1, <1>2, KeptWorkerOf DEF PathInv
<1>4. CASE UNCHANGED chain
  BY <1>1, <1>3, <1>4, PathFrame
<1>5. CASE ErrorRestore
  <2>1. PICK r \in rebuild_chain("fake") : chain' = r.chain
    BY <1>5 DEF ErrorRestore, swap_inner
  <2>2. chain' \in {chain, "fake", "gone"}
    BY <2>1, SwapOutcome
  <2>3. ASSUME ~Settled' PROVE RealOwed' /\ ActiveOwed' /\ Marked' /\ ThreadOwed'
    <3>1. upset \subseteq upset'
      BY <1>1, <2>3, UpsetKept
    <3>2. ActiveExcused'
      BY <1>5, <2>3, UpsetBy DEF ActiveExcused
    <3>3. RealOwed'
      BY <1>1, <2>2, <3>1 DEF PathInv, RealOwed, RealExcused
    <3>4. ActiveOwed' /\ ThreadOwed'
      BY <1>1, <3>1, <3>2 DEF PathInv, ActiveOwed, ThreadOwed
    <3>5. Marked'
      BY <1>1, <2>2, <3>1, <3>2 DEF PathInv, Marked
    <3> QED BY <3>3, <3>4, <3>5
  <2>4. chain' \in {"fake", "real", "gone"}
    BY <2>2 DEF PathInv, PathTyped
  <2> QED BY <1>1, <1>3, <2>3, <2>4, PathNow DEF PathInv, PathTyped
<1> QED BY <1>4, <1>5 DEF SetProperty, Dispose, InnerError, CheckCurrent, path

-----------------------------------------------------------------------------
(* The theorems. *)

LEMMA InitEInv == Init => EInv
<1> SUFFICES ASSUME Init PROVE EInv
  OBVIOUS
<1>1. /\ sess = [s \in Sids |-> NewSession] /\ NewSession \in SessionRecord
      /\ daemon = [s \in Sids |-> [session |-> "none", adds |-> 0]]
      /\ thread = IdleThread /\ slot = NoSlot /\ state = "NULL" /\ ids = "none"
      /\ disposed = FALSE
  BY DEF Init, NewSession, SessionRecord, SessionPhases, Calls
<1>2. ETyped
  <2>1. thread \in [at : ThreadPhases, sid : Sids \cup {NoSid},
                    mode : {"none", "open", "pause", "null"}, plan : {"real", "fake"}]
    BY <1>1 DEF IdleThread, ThreadPhases
  <2>2. /\ slot \in [phase : {"none", "pending", "open"}, sid : Sids \cup {NoSid}]
        /\ (slot.phase = "none") <=> (slot.sid = NoSid)
    BY <1>1 DEF NoSlot
  <2>3. sess \in [Sids -> SessionRecord]
    BY <1>1
  <2>4. daemon \in [Sids -> [session : {"none", "open", "closed"}, adds : Nat]]
    BY <1>1
  <2>5. settings \in Settings
    BY DEF Init
  <2> QED BY <1>1, <2>1, <2>2, <2>3, <2>4, <2>5 DEF ETyped
<1>3. Modes /\ SlotAt /\ OwnedAt /\ OwnerOf /\ OneLive
  BY <1>1
  DEF Modes, SlotAt, OwnedAt, OwnerOf, OneLive, IdleThread, NoSlot, Carrying, NewSession,
              Live
<1>4. DaemonHas /\ AddCalls
  BY <1>1 DEF DaemonHas, DaemonAt, AddCalls, AddAt, NewSession
<1>5. SyncCalls /\ IdsKept
  BY <1>1 DEF SyncCalls, Synced, IdsKept, IdsOf, resource_ids, NewSession, IdleThread, NoSlot
<1>6. PathInv
  <2>1. /\ work = [s \in Sids |-> [at |-> "none", ask |-> "off"]]
        /\ chain = "fake" /\ active = FALSE /\ upset = {}
    BY DEF Init
  <2>2. PathTyped
    BY <2>1 DEF PathTyped, WorkRecord
  <2>3. \A s \in Sids : work[s].at = "none" /\ sess[s].task = "none"
    BY <1>1, <2>1 DEF NewSession
  <2>4. WorkerOf /\ RealOwed /\ ActiveOwed /\ Marked /\ ThreadOwed /\ ~Overlap
    BY <1>1, <2>1, <2>3
    DEF WorkerOf, RealOwed, ActiveOwed, Marked, ThreadOwed, Overlap, Midway, IdleThread
  <2> QED BY <2>2, <2>4 DEF PathInv
<1> QED BY <1>2, <1>3, <1>4, <1>5, <1>6 DEF EInv, ControlInv

LEMMA NextEInv == EInv /\ [Next]_vars => EInv'
<1> SUFFICES ASSUME EInv, [Next]_vars PROVE EInv'
  OBVIOUS
<1>1. ControlInv /\ PathInv
  BY DEF EInv
<1>2. CASE Next
  <2>1. Step /\ UpsetStep
    BY <1>2 DEF Next, UpsetStep
  <2>2. ControlInv'
    BY <1>1, <2>1, ControlStep
  <2>3. PathInv'
    BY <1>1, <2>1, ThreadPath, TaskPath, WorkerPath, OtherPath DEF Step
  <2> QED BY <2>2, <2>3 DEF EInv
<1>3. CASE UNCHANGED vars
  <2>1. UNCHANGED <<state, thread, settings, slot, sess, daemon, work, chain, active, ids,
                    upset, disposed>>
    BY <1>3 DEF vars
  <2>2. ControlInv'
    BY <1>1, <2>1, WorkerFrame DEF ControlInv, ETyped
  <2>3. Overlap' <=> Overlap
    BY <2>1 DEF Overlap, Midway, At
  <2>4. PathInv'
    BY <1>1, <2>1, <2>3
    DEF PathInv, PathTyped, WorkerOf, RealOwed, ActiveOwed, Marked, ThreadOwed, RealExcused,
        ActiveExcused, Midway
  <2> QED BY <2>2, <2>4 DEF EInv
<1> QED BY <1>2, <1>3

LEMMA EInvAlways == Spec => []EInv
BY InitEInv, NextEInv, PTL DEF Spec

\* What the daemon has open the element holds, is closing or could not
\* close, whatever times out, fails or is retried (validate_and_open,
\* take_for_close, Session::open, Drop).
THEOREM NoSessionLeaks == Spec => []SessionsHeld
<1>1. EInv => SessionsHeld
  <2> SUFFICES ASSUME EInv PROVE SessionsHeld
    OBVIOUS
  <2>1. ControlInv /\ PathInv
    BY DEF EInv
  <2>2. TypeOK
    BY <2>1 DEF ControlInv, ETyped, PathInv, PathTyped, TypeOK, SessionRecord, SessionPhases,
                Unopened
  <2>3. NoLeakedSession
    <3> SUFFICES ASSUME NEW s \in Sids, daemon[s].session = "open"
                 PROVE  Referenced(s) \/ sess[s].at = "closing" \/ sess[s].lost
      BY DEF NoLeakedSession
    <3>1. \/ sess[s].at \in {"subscribing", "adding", "rollback", "ready", "held", "closing"}
          \/ sess[s].lost
      BY <2>1 DEF ControlInv, DaemonHas, DaemonAt
    <3>2. sess[s].at \in {"ready", "held"} => Referenced(s)
      BY <2>1 DEF ControlInv, OwnerOf, Live, Referenced, ETyped, SessionRecord
    <3> QED BY <3>1, <3>2 DEF Referenced
  <2> QED BY <2>2, <2>3 DEF SessionsHeld
<1> QED BY <1>1, EInvAlways, PTL

\* However late a call returns and however often it is retried: one live
\* session, and one Sender or Receiver in it (SessionPhase::Pending,
\* inflight_add).
THEOREM NothingDoneTwice == Spec => []NothingTwice
<1>1. EInv => NothingTwice
  <2> SUFFICES ASSUME EInv PROVE NothingTwice
    OBVIOUS
  <2>1. ControlInv
    BY DEF EInv
  <2> DEFINE L == {s \in Sids : sess[s].at \in Live}
  <2>2. L = {} \/ \E s \in Sids : L = {s}
    BY <2>1 DEF ControlInv, OneLive
  <2>3. Cardinality(L) <= 1
    <3>1. CASE L = {}
      <4>1. Cardinality(L) = 0
        BY <3>1, FS_EmptySet
      <4> QED BY <4>1
    <3>2. CASE \E s \in Sids : L = {s}
      <4>1. Cardinality(L) = 1
        BY <3>2, FS_Singleton
      <4> QED BY <4>1
    <3> QED BY <2>2, <3>1, <3>2
  <2>4. OneLiveSession
    BY <2>3 DEF OneLiveSession, Live
  <2>5. OneResource
    BY <2>1 DEF ControlInv, AddCalls, AddAt, OneResource
  <2> QED BY <2>4, <2>5 DEF NothingTwice
<1> QED BY <1>1, EInvAlways, PTL

\* PAUSED is reached only on a session whose auto-activation the daemon
\* confirmed (maybe_add_deferred_sender, activation_incomplete).
THEOREM PausedOnlySynced == Spec => []PausedIsSynced
<1>1. EInv => PausedIsSynced
  BY DEF EInv, ControlInv, SyncCalls, Synced, SlotAt, PausedIsSynced
<1> QED BY <1>1, EInvAlways, PTL

\* `active` is TRUE over a real chain and only over one, and the published ids are
\* those of the session in the slot (set_connection_active, publish_resource_ids,
\* restore_fake_chain), when nothing is under way: but for the five events of `upset`,
\* of which two can leave a real chain behind an inactive element and four an active
\* element without one, until the next activation or restore that succeeds alone.
THEOREM PublishedIsTrue == Spec => []PublishedAgrees
<1>1. EInv => PublishedAgrees
  <2>1. EInv => IdsAgree
    BY DEF EInv, ControlInv, IdsKept, IdsOf, IdsAgree, At
  <2>2. EInv => RealIsActive
    BY DEF EInv, PathInv, RealOwed, RealExcused, RealIsActive, Quiet, Midway, At, Teardown
  <2>3. EInv => ActiveIsReal
    BY DEF EInv, PathInv, ActiveOwed, ActiveExcused, ActiveIsReal, Quiet, At, Teardown
  <2> QED BY <2>1, <2>2, <2>3 DEF PublishedAgrees
<1> QED BY <1>1, EInvAlways, PTL
=============================================================================
