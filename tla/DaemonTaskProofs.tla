-------------------------- MODULE DaemonTaskProofs --------------------------
(*************************************************************************)
(* The daemon's tasks: GraceInv and LiveStreamKeepsSession of SessionGc  *)
(* for every number of sessions, kinds of stream and ids, and all        *)
(* timeouts; LockInv of LockOrdering for every number of Nodes,          *)
(* activation threads, handlers of every kind and workers.               *)
(*                                                                       *)
(* GraceInv is not inductive: whether a watchdog closes a session early  *)
(* is decided when it is started. GInv follows it from there. A watchdog *)
(* of a session that no race has touched has seen no stream, and what it *)
(* has left to sleep is what the session is still owed of its grace      *)
(* period (DogPatient); that is so at the start because the task that    *)
(* starts it knows whether the session has had a stream (TaskHistory),   *)
(* and a session is opened once, so that no earlier life of it           *)
(* interferes (OpenedOnce).                                              *)
(*                                                                       *)
(* LockInv is not inductive either. LInv adds who holds what in every    *)
(* phase of a handler and, for the destroy of a NodeServer, why no new   *)
(* holder of its Arc can appear: a handler gets its clone in its first   *)
(* look into the map, and only if the Node is still there (ScriptShape). *)
(*************************************************************************)
EXTENDS SessionGc, LockOrdering, FiniteSetTheorems, TLAPS

-----------------------------------------------------------------------------
(* The inductive invariant of SessionGc. *)

Task == [phase : {"cancel", "insert"}, h : Sessions, opens : BOOLEAN]
        \cup [phase : {"check"}, h : Sessions, k : Kinds, opens : {FALSE}]

Dog == [phase : {"sleep", "woken", "closed", "ffi"}, h : Sessions,
        left : 0 .. SubscribeTimeout + ResubscribeTimeout]

Typed ==
    /\ next_id \in Nat \ {0}
    /\ idle \in [Sessions -> Nat]
    /\ \A i \in DOMAIN task : task[i] \in Task
    /\ \A i \in DOMAIN dog : dog[i] \in Dog

\* The sessions whose one OpenSession has been called.
Opened == known \cup {task[i].h : i \in DOMAIN task}

OpenedOnce ==
    /\ open \cup owed \subseteq Opened
    /\ \A i \in DOMAIN dog : dog[i].h \in Opened

\* The tail of an OpenSession runs before the client knows the session, and what
\* a dropped stream spawned after the session had that stream.
TaskHistory ==
    /\ streamed \subseteq known
    /\ \A n \in DOMAIN live : live[n][1] \in streamed
    /\ DOMAIN live \cap DOMAIN task = {}
    /\ \A i \in DOMAIN task : IF task[i].opens THEN task[i].h \notin known
                                               ELSE task[i].h \in streamed

OneOpener ==
    \A i, j \in DOMAIN task :
        task[i].opens /\ task[j].opens /\ task[i].h = task[j].h => i = j

\* A watchdog that has closed its session and not handed over the removals is
\* the only one that will.
RemovalsPending ==
    /\ \A i \in DOMAIN dog : dog[i].phase = "closed" => dog[i].h \in owed \ pool
    /\ \A i, j \in DOMAIN dog :
          dog[i].phase = "closed" /\ dog[j].phase = "closed" /\ dog[i].h = dog[j].h => i = j

Sleeping(i) == dog[i].phase \in {"sleep", "woken"}

\* The watchdog of a session that no race has touched has seen no stream, and
\* leaves the session what is left of its grace period.
Patient(i, h) ==
    dog[i].h = h /\ Sleeping(i) /\ h \in open \ raced =>
        /\ ~HasAnyActivationSubscription(h)
        /\ idle[h] + dog[i].left >= Grace(h)

DogPatient ==
    \A i \in DOMAIN dog :
        /\ dog[i].phase = "woken" => dog[i].left = 0
        /\ \A h \in Sessions : Patient(i, h)

GInv ==
    /\ TypeOK
    /\ Typed
    /\ OpenedOnce
    /\ TaskHistory
    /\ OneOpener
    /\ RemovalsPending
    /\ DogPatient
    /\ GraceCutOnlyByRace

-----------------------------------------------------------------------------
LEMMA InitGInv == Init => GInv
<1> SUFFICES ASSUME Init PROVE GInv
  OBVIOUS
<1>1. TypeOK
  BY DEF Init, TypeOK
<1>2. Typed /\ TaskHistory /\ OneOpener /\ RemovalsPending /\ DogPatient
  BY DEF Init, Typed, TaskHistory, OneOpener, RemovalsPending, DogPatient
<1>3. OpenedOnce /\ GraceCutOnlyByRace
  BY DEF Init, OpenedOnce, GraceCutOnlyByRace
<1> QED BY <1>1, <1>2, <1>3 DEF GInv

\* cancel_timeout takes watchdogs away and changes none.
LEMMA CancelDogs ==
    ASSUME NEW h
    PROVE  /\ DOMAIN DogsAfterCancel(h) \subseteq DOMAIN dog
           /\ \A i \in DOMAIN DogsAfterCancel(h) : DogsAfterCancel(h)[i] = dog[i]
BY DEF DogsAfterCancel, Aborted, Without

-----------------------------------------------------------------------------
(* Steps that change no watchdog, or take some away. *)

\* What the watchdogs are promised stays true when some of them go.
LEMMA FewerDogs ==
    ASSUME GInv,
           DOMAIN dog' \subseteq DOMAIN dog,
           \A i \in DOMAIN dog' : dog'[i] = dog[i],
           Opened \subseteq Opened', owed \ pool \subseteq owed' \ pool',
           open' \cap Opened \subseteq open, raced \subseteq raced',
           \A h \in Sessions : HasAnyActivationSubscription(h)' => HasAnyActivationSubscription(h),
           UNCHANGED <<idle, streamed, early>>
    PROVE  /\ \A i \in DOMAIN dog' : dog'[i] \in Dog /\ dog'[i].h \in Opened'
           /\ RemovalsPending'
           /\ DogPatient'
           /\ GraceCutOnlyByRace'
<1>1. \A i \in DOMAIN dog' : dog'[i] \in Dog /\ dog'[i].h \in Opened'
  BY DEF GInv, Typed, OpenedOnce
<1>2. RemovalsPending'
  BY DEF GInv, RemovalsPending
<1>3. DogPatient'
  <2>1. ASSUME NEW i \in DOMAIN dog' PROVE dog'[i].phase = "woken" => dog'[i].left = 0
    BY <2>1 DEF GInv, DogPatient
  <2>2. ASSUME NEW i \in DOMAIN dog', NEW h \in Sessions PROVE Patient(i, h)'
    <3>1. /\ i \in DOMAIN dog /\ Patient(i, h) /\ Grace(h)' = Grace(h)
          /\ dog[i].h \in Opened
      BY <2>2 DEF GInv, DogPatient, OpenedOnce, Grace
    <3> QED BY <3>1 DEF Patient, Sleeping
  <2> QED BY <2>1, <2>2 DEF DogPatient
<1>4. GraceCutOnlyByRace'
  BY DEF GInv, GraceCutOnlyByRace
<1> QED BY <1>1, <1>2, <1>3, <1>4

LEMMA UnchangedStep == GInv /\ UNCHANGED vars => GInv'
<1> SUFFICES ASSUME GInv, UNCHANGED vars PROVE GInv'
  OBVIOUS
<1>1. TypeOK' /\ Typed' /\ TaskHistory' /\ OneOpener'
  BY DEF GInv, vars, TypeOK, Typed, TaskHistory, OneOpener
<1>2. Opened' = Opened
  BY DEF vars, Opened
<1>3. \A h \in Sessions : HasAnyActivationSubscription(h)' = HasAnyActivationSubscription(h)
  BY DEF vars, HasAnyActivationSubscription
<1>4. OpenedOnce'
  BY <1>2 DEF GInv, vars, OpenedOnce
<1> QED BY <1>1, <1>2, <1>3, <1>4, FewerDogs DEF GInv, vars

LEMMA OpenSessionStep ==
    ASSUME GInv, NEW h \in Sessions, OpenSession(h)
    PROVE  GInv'
<1> DEFINE t == [phase |-> "cancel", h |-> h, opens |-> TRUE]
<1>1. /\ h \notin open /\ h \notin known /\ h \notin Opened
      /\ open' = open \cup {h}
      /\ task' = Put(task, next_id, t)
      /\ next_id' = next_id + 1
      /\ UNCHANGED <<known, closing, slot, live, dog, watchdogs, owed, pool, idle, streamed,
                     early, raced>>
  BY DEF OpenSession, Opened, history
<1>2. next_id \in Nat \ {0} /\ next_id \notin DOMAIN task /\ next_id \notin DOMAIN live
  BY DEF GInv, Typed, TypeOK
<1>3. t \in Task /\ t.h = h /\ t.opens = TRUE
  BY DEF Task
<1> HIDE DEF t
<1>4. /\ DOMAIN task' = DOMAIN task \cup {next_id}
      /\ task'[next_id] = t
      /\ \A i \in DOMAIN task : task'[i] = task[i]
  BY <1>1, <1>2 DEF Put
<1>5. Opened' = Opened \cup {h}
  BY <1>1, <1>3, <1>4 DEF Opened
<1>6. TypeOK'
  <2>1. h \notin owed
    BY <1>1 DEF GInv, OpenedOnce
  <2>2. 1 .. next_id - 1 \subseteq 1 .. next_id' - 1 /\ next_id \in 1 .. next_id' - 1
        /\ 0 .. next_id - 1 \subseteq 0 .. next_id' - 1
    BY <1>1, <1>2
  <2>3. slot' \in [Sessions \X Kinds -> 0 .. next_id' - 1]
    BY <1>1, <2>2 DEF GInv, TypeOK
  <2>4. DOMAIN task' \subseteq 1 .. next_id' - 1
    BY <1>4, <2>2 DEF GInv, TypeOK
  <2> QED BY <1>1, <2>1, <2>2, <2>3, <2>4 DEF GInv, TypeOK
<1>7. TaskHistory'
  BY <1>1, <1>2, <1>3, <1>4 DEF GInv, TaskHistory
<1>11. OneOpener'
  <2>1. \A i \in DOMAIN task : task[i].h # h
    BY <1>1 DEF Opened
  <2> QED BY <2>1, <1>3, <1>4 DEF GInv, OneOpener
<1>8. Typed' /\ OpenedOnce'
  BY <1>1, <1>2, <1>3, <1>4, <1>5 DEF GInv, Typed, OpenedOnce
<1>9. \A g \in Sessions : HasAnyActivationSubscription(g)' = HasAnyActivationSubscription(g)
  BY <1>1 DEF HasAnyActivationSubscription
<1>10. open' \cap Opened \subseteq open /\ Opened \subseteq Opened'
  BY <1>1, <1>5
<1> QED BY <1>1, <1>6, <1>7, <1>8, <1>9, <1>10, <1>11, FewerDogs DEF GInv

LEMMA ListWatchdogStep ==
    ASSUME GInv, NEW i \in DOMAIN task, ListWatchdog(i)
    PROVE  GInv'
<1> DEFINE h == task[i].h
<1>1. /\ watchdogs' = Put(watchdogs, h, i)
      /\ known' = IF task[i].opens THEN known \cup {h} ELSE known
      /\ task' = Without(task, {i})
      /\ UNCHANGED <<open, closing, slot, live, dog, owed, pool, next_id, idle, streamed,
                     early, raced>>
  BY DEF ListWatchdog, history
<1>2. h \in Sessions /\ i \in 1 .. next_id - 1
  BY DEF GInv, Typed, Task, TypeOK
<1>3. /\ DOMAIN task' = DOMAIN task \ {i}
      /\ \A j \in DOMAIN task' : task'[j] = task[j]
  BY <1>1 DEF Without
<1>4. h \in known' /\ known \subseteq known' /\ known' \subseteq known \cup {h}
  BY <1>1 DEF GInv, TaskHistory
<1>5. Opened' = Opened
  BY <1>3, <1>4 DEF Opened
<1> HIDE DEF h
<1>6. TypeOK'
  BY <1>1, <1>2, <1>3, <1>4 DEF GInv, TypeOK, Put
<1>7. TaskHistory'
  <2>1. \A j \in DOMAIN task' : IF task'[j].opens THEN task'[j].h \notin known'
                                                  ELSE task'[j].h \in streamed'
    <3> SUFFICES ASSUME NEW j \in DOMAIN task'
                 PROVE  IF task[j].opens THEN task[j].h \notin known' ELSE task[j].h \in streamed
      BY <1>1, <1>3
    <3>1. task[j].opens /\ task[i].opens => task[j].h # h
      BY <1>3 DEF GInv, OneOpener, h
    <3> QED BY <1>1, <1>3, <3>1 DEF GInv, TaskHistory
  <2> QED BY <2>1, <1>1, <1>3, <1>4 DEF GInv, TaskHistory
<1>8. Typed' /\ OpenedOnce' /\ OneOpener'
  <2>1. Typed'
    BY <1>1, <1>3 DEF GInv, Typed
  <2>2. OpenedOnce'
    BY <1>1, <1>5 DEF GInv, OpenedOnce
  <2>3. OneOpener'
    BY <1>3 DEF GInv, OneOpener
  <2> QED BY <2>1, <2>2, <2>3
<1>9. \A g \in Sessions : HasAnyActivationSubscription(g)' = HasAnyActivationSubscription(g)
  BY <1>1 DEF HasAnyActivationSubscription
<1> QED BY <1>1, <1>5, <1>6, <1>7, <1>8, <1>9, FewerDogs DEF GInv

LEMMA StreamDroppedStep ==
    ASSUME GInv, NEW n \in DOMAIN live, StreamDropped(n)
    PROVE  GInv'
<1> DEFINE t == [phase |-> "check", h |-> live[n][1], k |-> live[n][2], opens |-> FALSE]
<1>1. /\ live' = Without(live, {n})
      /\ task' = Put(task, n, t)
      /\ UNCHANGED <<open, known, closing, slot, dog, watchdogs, owed, pool, next_id, idle,
                     streamed, early, raced>>
  BY DEF StreamDropped, history
<1>2. /\ live[n] \in Sessions \X Kinds /\ live[n][1] \in streamed /\ live[n][1] \in known
      /\ n \in 1 .. next_id - 1 /\ n \notin DOMAIN task
  BY DEF GInv, TypeOK, TaskHistory
<1>3. t \in Task /\ t.opens = FALSE /\ t.h = live[n][1]
  BY <1>2 DEF Task
<1> HIDE DEF t
<1>4. /\ DOMAIN task' = DOMAIN task \cup {n}
      /\ task'[n] = t
      /\ \A i \in DOMAIN task : task'[i] = task[i]
      /\ DOMAIN live' = DOMAIN live \ {n}
      /\ \A i \in DOMAIN live' : live'[i] = live[i]
  BY <1>1, <1>2 DEF Put, Without
<1>5. Opened' = Opened
  BY <1>1, <1>2, <1>3, <1>4 DEF Opened
<1>6. TypeOK'
  BY <1>1, <1>2, <1>4 DEF GInv, TypeOK
<1>7. TaskHistory' /\ OneOpener'
  <2>1. TaskHistory'
    BY <1>1, <1>2, <1>3, <1>4 DEF GInv, TaskHistory
  <2>2. OneOpener'
    BY <1>3, <1>4 DEF GInv, OneOpener
  <2> QED BY <2>1, <2>2
<1>8. Typed' /\ OpenedOnce'
  BY <1>1, <1>3, <1>4, <1>5 DEF GInv, Typed, OpenedOnce
<1>9. \A g \in Sessions : HasAnyActivationSubscription(g)' => HasAnyActivationSubscription(g)
  BY <1>1, <1>4 DEF HasAnyActivationSubscription
<1> QED BY <1>1, <1>5, <1>6, <1>7, <1>8, <1>9, FewerDogs DEF GInv

LEMMA StreamEndedStep ==
    ASSUME GInv, NEW i \in DOMAIN task, StreamEnded(i)
    PROVE  GInv'
<1> DEFINE h == task[i].h
           k == task[i].k
           t == [phase |-> "cancel", h |-> h, opens |-> FALSE]
<1>1. /\ slot' = IF slot[<<h, k>>] \in DOMAIN live THEN slot ELSE [slot EXCEPT ![<<h, k>>] = 0]
      /\ task' = IF ArmNeeded(h, k) THEN [task EXCEPT ![i] = t] ELSE Without(task, {i})
      /\ UNCHANGED <<open, known, closing, live, dog, watchdogs, owed, pool, next_id, idle,
                     streamed, early, raced>>
  BY DEF StreamEnded, history
<1>2. h \in Sessions /\ k \in Kinds /\ task[i].opens = FALSE /\ h \in streamed /\ h \in known
  BY DEF GInv, Typed, Task, TaskHistory, StreamEnded
<1>3. t \in Task /\ t.h = h /\ t.opens = FALSE
  BY <1>2 DEF Task
<1> HIDE DEF t, h, k
<1>4. /\ DOMAIN task' \subseteq DOMAIN task
      /\ \A j \in DOMAIN task : j # i => j \in DOMAIN task' /\ task'[j] = task[j]
      /\ i \in DOMAIN task' => task'[i] = t
  BY <1>1 DEF Without
<1>5. Opened' = Opened
  BY <1>1, <1>2, <1>3, <1>4 DEF Opened, h
<1>6. /\ slot' \in [Sessions \X Kinds -> 0 .. next_id - 1]
      /\ \A q \in Sessions \X Kinds : slot'[q] = slot[q] \/ slot'[q] = 0
  <2>1. next_id \in Nat \ {0} /\ slot \in [Sessions \X Kinds -> 0 .. next_id - 1]
    BY DEF GInv, Typed, TypeOK
  <2>2. <<h, k>> \in Sessions \X Kinds /\ 0 \in 0 .. next_id - 1
    BY <2>1, <1>2
  <2> QED BY <2>1, <2>2, <1>1
<1>7. TypeOK'
  <2>1. \A g \in Sessions, c \in Kinds : slot'[<<g, c>>] # 0 => g \in open
    BY <1>6 DEF GInv, TypeOK
  <2> QED BY <2>1, <1>1, <1>4, <1>6 DEF GInv, TypeOK
<1>8. TaskHistory' /\ OneOpener'
  <2>1. TaskHistory'
    BY <1>1, <1>2, <1>3, <1>4 DEF GInv, TaskHistory
  <2>2. OneOpener'
    BY <1>3, <1>4 DEF GInv, OneOpener
  <2> QED BY <2>1, <2>2
<1>9. Typed' /\ OpenedOnce'
  BY <1>1, <1>3, <1>4, <1>5 DEF GInv, Typed, OpenedOnce
<1>10. \A g \in Sessions : HasAnyActivationSubscription(g)' => HasAnyActivationSubscription(g)
  <2>1. 0 \notin DOMAIN live
    BY DEF GInv, TypeOK, Typed
  <2> QED BY <2>1, <1>1, <1>6 DEF HasAnyActivationSubscription
<1> QED BY <1>1, <1>5, <1>7, <1>8, <1>9, <1>10, FewerDogs DEF GInv

\* Steps that leave tasks, streams and time alone.
LEMMA EndFrame ==
    ASSUME GInv, TypeOK',
           UNCHANGED <<known, live, task, next_id, idle, streamed, early, raced>>,
           DOMAIN dog' \subseteq DOMAIN dog,
           \A i \in DOMAIN dog' : dog'[i] = dog[i],
           open' \subseteq open, owed' \subseteq owed \cup open,
           owed \ pool \subseteq owed' \ pool',
           \A q \in Sessions \X Kinds : slot'[q] \in {slot[q], 0}
    PROVE  GInv'
<1>1. Opened' = Opened
  BY DEF Opened
<1>2. Typed' /\ TaskHistory' /\ OneOpener' /\ OpenedOnce'
  BY <1>1 DEF GInv, Typed, TaskHistory, OneOpener, OpenedOnce
<1>3. \A g \in Sessions : HasAnyActivationSubscription(g)' => HasAnyActivationSubscription(g)
  <2>1. 0 \notin DOMAIN live
    BY DEF GInv, TypeOK, Typed
  <2> QED BY <2>1 DEF HasAnyActivationSubscription
<1> QED BY <1>1, <1>2, <1>3, FewerDogs DEF GInv

LEMMA WatchdogEnds ==
    ASSUME GInv, NEW i \in DOMAIN dog, Leave(i) \/ Unlist(i)
    PROVE  GInv'
<1>1. /\ UNCHANGED <<open, known, closing, slot, live, task, owed, pool, next_id, idle,
                     streamed, early, raced>>
      /\ DOMAIN dog' \subseteq DOMAIN dog /\ \A j \in DOMAIN dog' : dog'[j] = dog[j]
      /\ DOMAIN watchdogs' \subseteq DOMAIN watchdogs
      /\ \A h \in DOMAIN watchdogs' : watchdogs'[h] = watchdogs[h]
  BY DEF Leave, Unlist, Without, history
<1>2. TypeOK'
  BY <1>1 DEF GInv, TypeOK
<1> QED BY <1>1, <1>2, EndFrame

LEMMA RunRemovalsStep ==
    ASSUME GInv, NEW h \in Sessions, RunRemovals(h)
    PROVE  GInv'
<1>1. /\ pool' = pool \ {h} /\ owed' = owed \ {h} /\ h \in pool
      /\ UNCHANGED <<open, known, closing, slot, live, task, dog, watchdogs, next_id, idle,
                     streamed, early, raced>>
  BY DEF RunRemovals, history
<1>2. pool' \subseteq owed' /\ owed' \subseteq Sessions \ open'
  BY <1>1 DEF GInv, TypeOK
<1>3. TypeOK'
  BY <1>1, <1>2 DEF GInv, TypeOK
<1> QED BY <1>1, <1>3, EndFrame

LEMMA CancelBeforeCloseStep ==
    ASSUME GInv, NEW h \in Sessions, CancelBeforeClose(h)
    PROVE  GInv'
<1>1. /\ closing' = closing \cup {h} /\ h \in known
      /\ UNCHANGED <<open, known, slot, live, task, owed, pool, next_id, idle, streamed,
                     early, raced>>
      /\ DOMAIN dog' \subseteq DOMAIN dog /\ \A j \in DOMAIN dog' : dog'[j] = dog[j]
      /\ DOMAIN watchdogs' \subseteq DOMAIN watchdogs
      /\ \A g \in DOMAIN watchdogs' : watchdogs'[g] = watchdogs[g]
  BY CancelDogs DEF CancelBeforeClose, Without, history
<1>2. TypeOK'
  BY <1>1 DEF GInv, TypeOK
<1> QED BY <1>1, <1>2, EndFrame

\* close_session of State takes the session's slots along.
LEMMA CloseSlots ==
    ASSUME GInv, NEW h \in Sessions, Close(h), UNCHANGED next_id
    PROVE  /\ slot' \in [Sessions \X Kinds -> 0 .. next_id' - 1]
           /\ \A q \in Sessions \X Kinds : slot'[q] \in {slot[q], 0}
           /\ \A g \in Sessions, k \in Kinds : slot'[<<g, k>>] # 0 => g \in open'
<1>1. /\ slot \in [Sessions \X Kinds -> 0 .. next_id - 1] /\ 0 \in 0 .. next_id - 1
      /\ slot' = [q \in Sessions \X Kinds |-> IF q[1] = h THEN 0 ELSE slot[q]]
      /\ \A g \in Sessions, k \in Kinds : slot[<<g, k>>] # 0 => g \in open
  BY DEF GInv, TypeOK, Typed, Close
<1>2. \A g \in Sessions, k \in Kinds :
        slot'[<<g, k>>] = IF g = h THEN 0 ELSE slot[<<g, k>>]
  BY <1>1
<1> QED BY <1>1, <1>2 DEF Close

LEMMA CloseSessionStep ==
    ASSUME GInv, NEW h \in Sessions, CloseSession(h)
    PROVE  GInv'
<1>1. closing' = closing \ {h} /\ UNCHANGED <<known, live, task, dog, watchdogs, next_id,
                                              idle, streamed, early, raced>>
  BY DEF CloseSession, history
<1>2. CASE h \in open /\ Close(h) /\ pool' = pool \cup {h}
  <2>1. open' = open \ {h} /\ owed' = owed \cup {h} /\ h \notin owed
    BY <1>2 DEF Close, GInv, TypeOK
  <2>2. TypeOK'
    BY <1>1, <1>2, <2>1, CloseSlots DEF GInv, TypeOK
  <2> QED BY <1>1, <1>2, <2>1, <2>2, CloseSlots, EndFrame
<1>3. CASE UNCHANGED <<open, slot, owed, pool>>
  <2>1. TypeOK'
    BY <1>1, <1>3 DEF GInv, TypeOK
  <2> QED BY <1>1, <1>3, <2>1, EndFrame
<1> QED BY <1>2, <1>3 DEF CloseSession

-----------------------------------------------------------------------------
(* Steps that start, run or race a watchdog. *)

LEMMA StartTimeoutStep ==
    ASSUME GInv, NEW i \in DOMAIN task, StartTimeout(i)
    PROVE  GInv'
<1> DEFINE h == task[i].h
           d == [phase |-> "sleep", h |-> h, left |-> Timeout(i)]
<1>1. /\ dog' = Put(DogsAfterCancel(h), i, d)
      /\ watchdogs' = Without(watchdogs, {h})
      /\ raced' = IF HasAnyActivationSubscription(h) THEN raced \cup {h} ELSE raced
      /\ task' = [task EXCEPT ![i].phase = "insert"]
      /\ UNCHANGED <<open, known, closing, slot, live, owed, pool, next_id, idle, streamed,
                     early>>
  BY DEF StartTimeout
<1>2. h \in Sessions /\ i \in 1 .. next_id - 1 /\ task[i] \in Task /\ task[i].phase = "cancel"
  BY DEF GInv, Typed, Task, TypeOK, StartTimeout
<1>3. Timeout(i) \in 0 .. SubscribeTimeout + ResubscribeTimeout
  BY TimeoutAssumption DEF Timeout
<1>4. d \in Dog /\ d.phase = "sleep" /\ d.h = h /\ d.left = Timeout(i)
  BY <1>2, <1>3 DEF Dog
<1>5. Timeout(i) >= Grace(h) /\ h \in Opened
  BY TimeoutAssumption DEF GInv, TaskHistory, Timeout, Grace, Opened
<1> HIDE DEF d
<1>6. /\ i \in DOMAIN dog' /\ dog'[i] = d
      /\ \A j \in DOMAIN dog' : j # i => j \in DOMAIN dog /\ dog'[j] = dog[j]
  BY <1>1, CancelDogs DEF Put
<1>7. /\ DOMAIN task' = DOMAIN task
      /\ \A j \in DOMAIN task : task'[j] \in Task /\ task'[j].h = task[j].h
                                /\ task'[j].opens = task[j].opens
  <2>1. /\ task'[i] \in Task /\ task'[i].h = task[i].h /\ task'[i].opens = task[i].opens
    BY <1>1, <1>2 DEF Task
  <2> QED BY <1>1, <2>1 DEF GInv, Typed
<1>8. Opened' = Opened
  BY <1>1, <1>7 DEF Opened
<1>9. \A g \in Sessions : HasAnyActivationSubscription(g)' <=> HasAnyActivationSubscription(g)
  BY <1>1 DEF HasAnyActivationSubscription
<1> HIDE DEF h
<1>10. TypeOK'
  <2>1. DOMAIN dog' \subseteq 1 .. next_id - 1
    BY <1>2, <1>6 DEF GInv, TypeOK
  <2>2. \A j \in DOMAIN dog' : dog'[j].left \in 0 .. SubscribeTimeout + ResubscribeTimeout
    BY <1>3, <1>4, <1>6 DEF GInv, TypeOK
  <2>3. DOMAIN watchdogs' \subseteq Sessions
        /\ \A g \in DOMAIN watchdogs' : watchdogs'[g] \in 1 .. next_id - 1
    BY <1>1 DEF GInv, TypeOK, Without
  <2> QED BY <1>1, <1>2, <1>7, <2>1, <2>2, <2>3 DEF GInv, TypeOK
<1>11. Typed' /\ OpenedOnce'
  BY <1>1, <1>4, <1>5, <1>6, <1>7, <1>8 DEF GInv, Typed, OpenedOnce
<1>12. TaskHistory' /\ OneOpener'
  BY <1>1, <1>7 DEF GInv, TaskHistory, OneOpener
<1>13. RemovalsPending'
  BY <1>1, <1>4, <1>6 DEF GInv, RemovalsPending
<1>14. DogPatient'
  <2>1. ASSUME NEW j \in DOMAIN dog' PROVE dog'[j].phase = "woken" => dog'[j].left = 0
    BY <1>4, <1>6 DEF GInv, DogPatient
  <2>2. ASSUME NEW j \in DOMAIN dog', NEW g \in Sessions PROVE Patient(j, g)'
    <3>1. Grace(g)' = Grace(g) /\ raced \subseteq raced'
      BY <1>1 DEF Grace
    <3>2. CASE j = i
      <4>1. g = h /\ g \notin raced' => ~HasAnyActivationSubscription(g)
        BY <1>1
      <4>2. idle[h] \in Nat /\ Timeout(i) \in Nat /\ Grace(h) \in Nat
        BY <1>2, <1>3, TimeoutAssumption DEF GInv, Typed, Grace
      <4>3. idle[h] + Timeout(i) >= Grace(h)
        BY <4>2, <1>5
      <4> QED BY <1>1, <1>4, <1>6, <1>9, <3>1, <3>2, <4>1, <4>3 DEF Patient
    <3>3. CASE j # i
      <4>1. j \in DOMAIN dog /\ Patient(j, g) /\ dog'[j] = dog[j]
        BY <1>6, <3>3 DEF GInv, DogPatient
      <4> QED BY <4>1, <1>1, <1>9, <3>1 DEF Patient, Sleeping
    <3> QED BY <3>2, <3>3
  <2> QED BY <2>1, <2>2 DEF DogPatient
<1>15. GraceCutOnlyByRace'
  BY <1>1 DEF GInv, GraceCutOnlyByRace
<1> QED BY <1>10, <1>11, <1>12, <1>13, <1>14, <1>15 DEF GInv

LEMMA SubscribeStep ==
    ASSUME GInv, NEW h \in Sessions, NEW k \in Kinds, Subscribe(h, k)
    PROVE  GInv'
<1>1. /\ h \in known /\ h \in open
      /\ slot' = [slot EXCEPT ![<<h, k>>] = next_id]
      /\ live' = Put(live, next_id, <<h, k>>)
      /\ next_id' = next_id + 1
      /\ dog' = DogsAfterCancel(h)
      /\ watchdogs' = Without(watchdogs, {h})
      /\ streamed' = streamed \cup {h}
      /\ idle' = [idle EXCEPT ![h] = 0]
      /\ raced' = IF \E i \in DOMAIN dog' : dog'[i].h = h THEN raced \cup {h} ELSE raced
      /\ UNCHANGED <<open, known, closing, task, owed, pool, early>>
  BY DEF Subscribe
<1>2. /\ next_id \in Nat \ {0} /\ next_id \notin DOMAIN live /\ next_id \notin DOMAIN task
      /\ slot \in [Sessions \X Kinds -> 0 .. next_id - 1] /\ <<h, k>> \in Sessions \X Kinds
      /\ 1 .. next_id - 1 \subseteq 1 .. next_id' - 1 /\ next_id \in 1 .. next_id' - 1
      /\ 0 .. next_id - 1 \subseteq 0 .. next_id' - 1 /\ next_id \in 0 .. next_id' - 1
  BY <1>1 DEF GInv, Typed, TypeOK
<1>3. /\ DOMAIN live' = DOMAIN live \cup {next_id} /\ live'[next_id] = <<h, k>>
      /\ \A n \in DOMAIN live : live'[n] = live[n]
  BY <1>1, <1>2 DEF Put
<1>4. DOMAIN dog' \subseteq DOMAIN dog /\ \A i \in DOMAIN dog' : dog'[i] = dog[i]
  BY <1>1, CancelDogs
<1>5. Opened' = Opened
  BY <1>1 DEF Opened
<1>6. TypeOK'
  <2>1. slot' \in [Sessions \X Kinds -> 0 .. next_id' - 1]
    BY <1>1, <1>2
  <2>2. \A g \in Sessions, c \in Kinds : slot'[<<g, c>>] # 0 => g \in open'
    <3> SUFFICES ASSUME NEW g \in Sessions, NEW c \in Kinds, slot'[<<g, c>>] # 0
                 PROVE  g \in open
      BY <1>1
    <3>1. g = h \/ slot'[<<g, c>>] = slot[<<g, c>>]
      BY <1>1, <1>2
    <3> QED BY <1>1, <3>1 DEF GInv, TypeOK
  <2>3. DOMAIN live' \subseteq 1 .. next_id' - 1 /\ \A n \in DOMAIN live' : live'[n] \in Sessions \X Kinds
    BY <1>2, <1>3 DEF GInv, TypeOK
  <2>4. /\ DOMAIN task' \subseteq 1 .. next_id' - 1
        /\ DOMAIN dog' \subseteq 1 .. next_id' - 1
        /\ \A i \in DOMAIN dog' : dog'[i].left \in 0 .. SubscribeTimeout + ResubscribeTimeout
    BY <1>1, <1>2, <1>4 DEF GInv, TypeOK
  <2>5. DOMAIN watchdogs' \subseteq Sessions
        /\ \A g \in DOMAIN watchdogs' : watchdogs'[g] \in 1 .. next_id' - 1
    BY <1>1, <1>2 DEF GInv, TypeOK, Without
  <2>6. raced' \subseteq Sessions
    BY <1>1 DEF GInv, TypeOK
  <2> QED BY <1>1, <2>1, <2>2, <2>3, <2>4, <2>5, <2>6 DEF GInv, TypeOK
<1>7. Typed' /\ OpenedOnce'
  BY <1>1, <1>2, <1>4, <1>5 DEF GInv, Typed, OpenedOnce
<1>8. TaskHistory'
  BY <1>1, <1>2, <1>3 DEF GInv, TaskHistory
<1>9. OneOpener' /\ RemovalsPending' /\ GraceCutOnlyByRace'
  BY <1>1, <1>4 DEF GInv, OneOpener, RemovalsPending, GraceCutOnlyByRace
<1>10. DogPatient'
  <2>1. ASSUME NEW j \in DOMAIN dog' PROVE dog'[j].phase = "woken" => dog'[j].left = 0
    BY <1>4 DEF GInv, DogPatient
  <2>2. ASSUME NEW j \in DOMAIN dog', NEW g \in Sessions PROVE Patient(j, g)'
    <3>1. CASE g = h
      BY <1>1, <3>1 DEF Patient
    <3>2. CASE g # h
      <4>1. j \in DOMAIN dog /\ Patient(j, g) /\ dog'[j] = dog[j]
        BY <1>4 DEF GInv, DogPatient
      <4>2. Grace(g)' = Grace(g) /\ idle'[g] = idle[g]
        BY <1>1, <3>2 DEF Grace, GInv, Typed
      <4>3. \A c \in Kinds : slot'[<<g, c>>] = slot[<<g, c>>] /\ slot[<<g, c>>] # next_id
        BY <1>1, <1>2, <3>2
      <4>4. HasAnyActivationSubscription(g)' => HasAnyActivationSubscription(g)
        BY <1>3, <4>3 DEF HasAnyActivationSubscription
      <4> QED BY <1>1, <4>1, <4>2, <4>4 DEF Patient, Sleeping
    <3> QED BY <3>1, <3>2
  <2> QED BY <2>1, <2>2 DEF DogPatient
<1> QED BY <1>6, <1>7, <1>8, <1>9, <1>10 DEF GInv

LEMMA TickStep ==
    ASSUME GInv, Tick
    PROVE  GInv'
<1>1. /\ dog' = [i \in DOMAIN dog |->
                    IF dog[i].phase = "sleep" /\ dog[i].left > 0
                    THEN [dog[i] EXCEPT !.left = @ - 1] ELSE dog[i]]
      /\ idle' = [h \in Sessions |->
                    IF h \in open /\ ~HasAnyActivationSubscription(h)
                       /\ idle[h] < SubscribeTimeout + ResubscribeTimeout
                    THEN idle[h] + 1 ELSE idle[h]]
      /\ UNCHANGED <<open, known, closing, slot, live, task, watchdogs, owed, pool, next_id,
                     streamed, early, raced>>
  BY DEF Tick
<1>2. /\ DOMAIN dog' = DOMAIN dog
      /\ \A i \in DOMAIN dog : dog'[i] \in Dog /\ dog'[i].h = dog[i].h
                               /\ dog'[i].phase = dog[i].phase
                               /\ dog'[i].left = IF dog[i].phase = "sleep" /\ dog[i].left > 0
                                                 THEN dog[i].left - 1 ELSE dog[i].left
  <2> SUFFICES ASSUME NEW i \in DOMAIN dog
               PROVE  /\ dog'[i] \in Dog /\ dog'[i].h = dog[i].h
                      /\ dog'[i].phase = dog[i].phase
                      /\ dog'[i].left = IF dog[i].phase = "sleep" /\ dog[i].left > 0
                                        THEN dog[i].left - 1 ELSE dog[i].left
    BY <1>1
  <2>1. dog[i] \in Dog
    BY DEF GInv, Typed
  <2> QED BY <1>1, <2>1, TimeoutAssumption DEF Dog
<1>3. Opened' = Opened
  BY <1>1 DEF Opened
<1>4. \A g \in Sessions : HasAnyActivationSubscription(g)' <=> HasAnyActivationSubscription(g)
  BY <1>1 DEF HasAnyActivationSubscription
<1>5. idle' \in [Sessions -> Nat]
  BY <1>1 DEF GInv, Typed
<1>6. TypeOK'
  BY <1>1, <1>2 DEF GInv, TypeOK, Dog
<1>7. Typed' /\ OpenedOnce' /\ TaskHistory' /\ OneOpener'
  BY <1>1, <1>2, <1>3, <1>5 DEF GInv, Typed, OpenedOnce, TaskHistory, OneOpener
<1>8. RemovalsPending' /\ GraceCutOnlyByRace'
  BY <1>1, <1>2 DEF GInv, RemovalsPending, GraceCutOnlyByRace
<1>9. DogPatient'
  <2>1. ASSUME NEW j \in DOMAIN dog' PROVE dog'[j].phase = "woken" => dog'[j].left = 0
    BY <1>2 DEF GInv, DogPatient
  <2>2. ASSUME NEW j \in DOMAIN dog', NEW g \in Sessions PROVE Patient(j, g)'
    <3> SUFFICES ASSUME dog'[j].h = g, Sleeping(j)', g \in open' \ raced'
                 PROVE  ~HasAnyActivationSubscription(g)' /\ idle'[g] + dog'[j].left >= Grace(g)'
      BY DEF Patient
    <3>1. ~HasAnyActivationSubscription(g) /\ idle[g] + dog[j].left >= Grace(g) /\ g \in open
      BY <1>1, <1>2 DEF GInv, DogPatient, Patient, Sleeping
    <3>2. /\ idle[g] \in Nat /\ dog[j].left \in Nat /\ dog[j] \in Dog
          /\ Grace(g) \in 0 .. SubscribeTimeout + ResubscribeTimeout
      BY <1>2, TimeoutAssumption DEF GInv, Typed, Dog, Grace
    <3>3. Grace(g)' = Grace(g)
      BY <1>1 DEF Grace
    <3>4. /\ idle'[g] = IF idle[g] < SubscribeTimeout + ResubscribeTimeout
                        THEN idle[g] + 1 ELSE idle[g]
          /\ dog'[j].left \in Nat /\ dog'[j].left >= dog[j].left - 1
      BY <1>1, <1>2, <3>1, <3>2
    <3>5. idle'[g] + dog'[j].left >= Grace(g)
      BY <3>1, <3>2, <3>4, TimeoutAssumption
    <3> QED BY <1>4, <3>1, <3>3, <3>5
  <2> QED BY <2>1, <2>2 DEF DogPatient
<1> QED BY <1>6, <1>7, <1>8, <1>9 DEF GInv

\* A step of watchdog i to its next phase: Wake, CloseAbandoned, SpawnRemovals.
LEMMA PhaseDogs ==
    ASSUME GInv, NEW i \in DOMAIN dog,
           NEW phase \in {"sleep", "woken", "closed", "ffi"},
           dog' = [dog EXCEPT ![i].phase = phase]
    PROVE  /\ DOMAIN dog' = DOMAIN dog
           /\ \A j \in DOMAIN dog : dog'[j] \in Dog /\ dog'[j].h = dog[j].h
                                    /\ dog'[j].left = dog[j].left
           /\ dog'[i].phase = phase
           /\ \A j \in DOMAIN dog : j # i => dog'[j].phase = dog[j].phase
<1>1. \A j \in DOMAIN dog : dog[j] \in Dog
  BY DEF GInv, Typed
<1>2. dog'[i] \in Dog /\ dog'[i].h = dog[i].h /\ dog'[i].left = dog[i].left
      /\ dog'[i].phase = phase
  BY <1>1 DEF Dog
<1> QED BY <1>1, <1>2

LEMMA WakeStep ==
    ASSUME GInv, NEW i \in DOMAIN dog, Wake(i)
    PROVE  GInv'
<1>1. /\ dog[i].phase = "sleep" /\ dog[i].left = 0
      /\ dog' = [dog EXCEPT ![i].phase = "woken"]
      /\ UNCHANGED <<open, known, closing, slot, live, task, watchdogs, owed, pool, next_id,
                     idle, streamed, early, raced>>
  BY DEF Wake, history
<1>2. /\ DOMAIN dog' = DOMAIN dog
      /\ \A j \in DOMAIN dog : dog'[j] \in Dog /\ dog'[j].h = dog[j].h
                               /\ dog'[j].left = dog[j].left
      /\ dog'[i].phase = "woken"
      /\ \A j \in DOMAIN dog : j # i => dog'[j].phase = dog[j].phase
  BY <1>1, PhaseDogs
<1>3. Opened' = Opened
  BY <1>1 DEF Opened
<1>4. \A g \in Sessions : HasAnyActivationSubscription(g)' <=> HasAnyActivationSubscription(g)
  BY <1>1 DEF HasAnyActivationSubscription
<1>5. TypeOK'
  BY <1>1, <1>2 DEF GInv, TypeOK
<1>6. Typed' /\ OpenedOnce' /\ TaskHistory' /\ OneOpener'
  BY <1>1, <1>2, <1>3 DEF GInv, Typed, OpenedOnce, TaskHistory, OneOpener
<1>7. RemovalsPending' /\ GraceCutOnlyByRace'
  BY <1>1, <1>2 DEF GInv, RemovalsPending, GraceCutOnlyByRace
<1>8. DogPatient'
  <2>1. ASSUME NEW j \in DOMAIN dog' PROVE dog'[j].phase = "woken" => dog'[j].left = 0
    BY <1>1, <1>2 DEF GInv, DogPatient
  <2>2. ASSUME NEW j \in DOMAIN dog', NEW g \in Sessions PROVE Patient(j, g)'
    <3>1. Patient(j, g) /\ Grace(g)' = Grace(g) /\ (Sleeping(j)' => Sleeping(j))
      BY <1>1, <1>2 DEF GInv, DogPatient, Grace, Sleeping
    <3> QED BY <1>1, <1>2, <1>4, <3>1 DEF Patient
  <2> QED BY <2>1, <2>2 DEF DogPatient
<1> QED BY <1>5, <1>6, <1>7, <1>8 DEF GInv

\* The one step that could close a session early.
LEMMA CloseAbandonedStep ==
    ASSUME GInv, NEW i \in DOMAIN dog, CloseAbandoned(i)
    PROVE  GInv'
<1> DEFINE h == dog[i].h
<1>1. /\ dog[i].phase = "woken" /\ h \in open /\ Close(h)
      /\ early' = IF idle[h] < Grace(h) THEN early \cup {h} ELSE early
      /\ dog' = [dog EXCEPT ![i].phase = "closed"]
      /\ UNCHANGED <<known, closing, live, task, watchdogs, pool, next_id, idle, streamed,
                     raced>>
  BY DEF CloseAbandoned, Abandoned
<1>2. /\ DOMAIN dog' = DOMAIN dog
      /\ \A j \in DOMAIN dog : dog'[j] \in Dog /\ dog'[j].h = dog[j].h
                               /\ dog'[j].left = dog[j].left
      /\ dog'[i].phase = "closed"
      /\ \A j \in DOMAIN dog : j # i => dog'[j].phase = dog[j].phase
  BY <1>1, PhaseDogs
<1>3. h \in Sessions /\ idle[h] \in Nat /\ Grace(h) \in Nat
  BY TimeoutAssumption DEF GInv, Typed, Dog, Grace
<1>4. /\ open' = open \ {h} /\ owed' = owed \cup {h} /\ h \notin owed
      /\ h \in Opened /\ Opened' = Opened
  BY <1>1 DEF Close, GInv, TypeOK, Opened, OpenedOnce
<1>5. h \notin raced => idle[h] >= Grace(h)
  <2> SUFFICES ASSUME h \notin raced PROVE idle[h] >= Grace(h)
    OBVIOUS
  <2>1. dog[i].left = 0 /\ Patient(i, h)
    BY <1>1, <1>3 DEF GInv, DogPatient
  <2>2. idle[h] + 0 >= Grace(h)
    BY <1>1, <2>1 DEF Patient, Sleeping
  <2> QED BY <2>2, <1>3
<1>6. GraceCutOnlyByRace'
  BY <1>1, <1>3, <1>5 DEF GInv, GraceCutOnlyByRace
<1>7. /\ slot' \in [Sessions \X Kinds -> 0 .. next_id' - 1]
      /\ \A q \in Sessions \X Kinds : slot'[q] \in {slot[q], 0}
      /\ \A g \in Sessions, k \in Kinds : slot'[<<g, k>>] # 0 => g \in open'
  BY <1>1, <1>3, CloseSlots
<1> HIDE DEF h
<1>8. TypeOK'
  BY <1>1, <1>2, <1>3, <1>4, <1>7 DEF GInv, TypeOK
<1>9. Typed' /\ OpenedOnce' /\ TaskHistory' /\ OneOpener'
  BY <1>1, <1>2, <1>4 DEF GInv, Typed, OpenedOnce, TaskHistory, OneOpener
<1>10. RemovalsPending'
  <2>1. h \notin pool /\ \A j \in DOMAIN dog : dog[j].phase = "closed" => dog[j].h # h
    BY <1>4 DEF GInv, TypeOK, RemovalsPending
  <2> QED BY <1>1, <1>2, <1>4, <2>1 DEF GInv, RemovalsPending, h
<1>11. DogPatient'
  <2>1. ASSUME NEW j \in DOMAIN dog' PROVE dog'[j].phase = "woken" => dog'[j].left = 0
    BY <1>2 DEF GInv, DogPatient
  <2>2. ASSUME NEW j \in DOMAIN dog', NEW g \in Sessions PROVE Patient(j, g)'
    <3>1. Patient(j, g) /\ Grace(g)' = Grace(g) /\ (Sleeping(j)' => Sleeping(j))
      BY <1>1, <1>2 DEF GInv, DogPatient, Grace, Sleeping
    <3>2. HasAnyActivationSubscription(g)' => HasAnyActivationSubscription(g)
      <4>1. 0 \notin DOMAIN live
        BY DEF GInv, TypeOK, Typed
      <4> QED BY <1>1, <1>7, <4>1 DEF HasAnyActivationSubscription
    <3> QED BY <1>1, <1>2, <1>4, <3>1, <3>2 DEF Patient
  <2> QED BY <2>1, <2>2 DEF DogPatient
<1> QED BY <1>6, <1>8, <1>9, <1>10, <1>11 DEF GInv

LEMMA SpawnRemovalsStep ==
    ASSUME GInv, NEW i \in DOMAIN dog, SpawnRemovals(i)
    PROVE  GInv'
<1>1. /\ dog[i].phase = "closed" /\ pool' = pool \cup {dog[i].h}
      /\ dog' = [dog EXCEPT ![i].phase = "ffi"]
      /\ UNCHANGED <<open, known, closing, slot, live, task, watchdogs, owed, next_id, idle,
                     streamed, early, raced>>
  BY DEF SpawnRemovals, history
<1>2. /\ DOMAIN dog' = DOMAIN dog
      /\ \A j \in DOMAIN dog : dog'[j] \in Dog /\ dog'[j].h = dog[j].h
                               /\ dog'[j].left = dog[j].left
      /\ dog'[i].phase = "ffi"
      /\ \A j \in DOMAIN dog : j # i => dog'[j].phase = dog[j].phase
  BY <1>1, PhaseDogs
<1>3. Opened' = Opened
  BY <1>1 DEF Opened
<1>4. TypeOK'
  <2>1. pool' \subseteq owed
    BY <1>1 DEF GInv, TypeOK, RemovalsPending
  <2> QED BY <1>1, <1>2, <2>1 DEF GInv, TypeOK
<1>5. Typed' /\ OpenedOnce' /\ TaskHistory' /\ OneOpener' /\ GraceCutOnlyByRace'
  BY <1>1, <1>2, <1>3 DEF GInv, Typed, OpenedOnce, TaskHistory, OneOpener, GraceCutOnlyByRace
<1>6. RemovalsPending'
  BY <1>1, <1>2 DEF GInv, RemovalsPending
<1>7. DogPatient'
  <2>1. ASSUME NEW j \in DOMAIN dog' PROVE dog'[j].phase = "woken" => dog'[j].left = 0
    BY <1>2 DEF GInv, DogPatient
  <2>2. ASSUME NEW j \in DOMAIN dog', NEW g \in Sessions PROVE Patient(j, g)'
    <3>1. Patient(j, g) /\ Grace(g)' = Grace(g) /\ (Sleeping(j)' => Sleeping(j))
      BY <1>1, <1>2 DEF GInv, DogPatient, Grace, Sleeping
    <3>2. HasAnyActivationSubscription(g)' <=> HasAnyActivationSubscription(g)
      BY <1>1 DEF HasAnyActivationSubscription
    <3> QED BY <1>1, <1>2, <3>1, <3>2 DEF Patient
  <2> QED BY <2>1, <2>2 DEF DogPatient
<1> QED BY <1>4, <1>5, <1>6, <1>7 DEF GInv

-----------------------------------------------------------------------------
LEMMA GInvStep == GInv /\ [Next]_vars => GInv'
<1> SUFFICES ASSUME GInv, [Next]_vars PROVE GInv'
  OBVIOUS
<1>1. CASE UNCHANGED vars
  BY <1>1, UnchangedStep
<1>2. ASSUME NEW h \in Sessions,
             OpenSession(h) \/ CancelBeforeClose(h) \/ CloseSession(h) \/ RunRemovals(h)
      PROVE  GInv'
  BY <1>2, OpenSessionStep, CancelBeforeCloseStep, CloseSessionStep, RunRemovalsStep
<1>3. ASSUME NEW h \in Sessions, NEW k \in Kinds, Subscribe(h, k) PROVE GInv'
  BY <1>3, SubscribeStep
<1>4. ASSUME NEW n \in DOMAIN live, StreamDropped(n) PROVE GInv'
  BY <1>4, StreamDroppedStep
<1>5. ASSUME NEW i \in 1 .. MaxIds, TaskStep(i) PROVE GInv'
  BY <1>5, StreamEndedStep, StartTimeoutStep, ListWatchdogStep DEF TaskStep
<1>6. ASSUME NEW i \in 1 .. MaxIds, DogStep(i) PROVE GInv'
  BY <1>6, WakeStep, CloseAbandonedStep, SpawnRemovalsStep, WatchdogEnds DEF DogStep
<1>7. CASE Tick
  BY <1>7, TickStep
<1> QED BY <1>1, <1>2, <1>3, <1>4, <1>5, <1>6, <1>7 DEF Next

\* The grace period of a session, from its opening or from the end of its last
\* stream, is cut short only by the race that a Subscribe loses against a
\* watchdog of session_gc.rs, and the bookkeeping of slots, watchdogs and owed
\* removals is consistent, for all timeouts.
THEOREM GraceCorrect == Spec => []GraceInv
<1>1. GInv => GraceInv
  BY DEF GInv, GraceInv
<1> QED BY <1>1, InitGInv, GInvStep, PTL DEF Spec

\* No step of a watchdog, of a task or of the clock closes a session that has a
\* live stream; only the client's own CloseSession does.
THEOREM LiveStreamSafe == Spec => LiveStreamKeepsSession
<1> DEFINE Kept == \A h \in Sessions :
                      h \in open /\ h \notin open' /\ HasAnyActivationSubscription(h)
                          => h \in closing
<1>1. ASSUME [Next]_vars PROVE [Kept]_vars
  <2>1. CASE UNCHANGED vars
    BY <2>1
  <2> SUFFICES ASSUME Next, NEW h \in Sessions, h \in open, h \notin open',
                      HasAnyActivationSubscription(h)
               PROVE  h \in closing
    BY <1>1, <2>1
  <2>2. ASSUME NEW g \in Sessions, CloseSession(g) PROVE h \in closing
    BY <2>2 DEF CloseSession, Close
  <2>3. ASSUME NEW i \in 1 .. MaxIds, DogStep(i) PROVE h \in closing
    BY <2>3 DEF DogStep, Wake, CloseAbandoned, Abandoned, Close, SpawnRemovals, Leave, Unlist
  <2>4. ASSUME NEW i \in 1 .. MaxIds, TaskStep(i) PROVE h \in closing
    BY <2>4 DEF TaskStep, StreamEnded, StartTimeout, ListWatchdog
  <2>5. ASSUME NEW g \in Sessions,
               \/ OpenSession(g) \/ CancelBeforeClose(g) \/ RunRemovals(g)
               \/ \E k \in Kinds : Subscribe(g, k)
        PROVE  h \in closing
    BY <2>5 DEF OpenSession, CancelBeforeClose, RunRemovals, Subscribe
  <2>6. CASE Tick \/ \E n \in DOMAIN live : StreamDropped(n)
    BY <2>6 DEF Tick, StreamDropped
  <2> QED BY <2>2, <2>3, <2>4, <2>5, <2>6 DEF Next
<1>2. [][Next]_vars => [][Kept]_vars
  BY <1>1, PTL
<1> QED BY <1>2 DEF Spec, LiveStreamKeepsSession

-----------------------------------------------------------------------------
(* The inductive invariant of LockOrdering. *)

Ffi == {"ffi", "ffi_callback"}

AllKinds == {"add", "remove", "sync", "close", "watchdog", "subscribe", "annotate"}

Phases == {"new", "queued", "polling", "inside", "in_watchdogs", "in_callback",
           "destroy", "join", "done"}

LTyped ==
    /\ state \in Requests \cup {Free}
    /\ watchdogs_mutex \in Requests \cup {Free}
    /\ model \in [Nodes -> Requests \cup Threads \cup {Free}]
    /\ req \in [Requests -> [step : Nat, at : Phases]]
    /\ thread \in [Threads -> {"idle", "dispatch", "parked", "cleanup", "exited"}]
    /\ ack \in [Threads -> {"none", "sent", "polling", "acked"}]
    /\ closed \subseteq Nodes
    /\ shutdown \subseteq closed
    /\ gone \subseteq shutdown

\* A handler is at a step of its script, in a phase that this step has.
InScript ==
    \A r \in Requests : req[r].at # "new" =>
        /\ req[r].step \in 1 .. Len(Script(KindOf[r]))
        /\ req[r].at = "inside" => StepOf(r) # "watchdogs"
        /\ req[r].at = "in_watchdogs" => StepOf(r) \in {"watchdogs", "state_watchdogs"}
        /\ req[r].at = "in_callback" => StepOf(r) = "ffi_callback"
        /\ req[r].at \in {"destroy", "join"} => StepOf(r) \in Ffi

HasState(r) ==
    \/ req[r].at = "inside" /\ StepOf(r) \in {"state", "state_watchdogs"}
    \/ req[r].at = "in_callback"
    \/ req[r].at = "in_watchdogs" /\ StepOf(r) = "state_watchdogs"

StateHeld == \A r \in Requests : HasState(r) => state = r

WatchdogsHeld == \A r \in Requests : req[r].at = "in_watchdogs" => watchdogs_mutex = r

HasModel(r) == req[r].at \in {"inside", "in_callback"} /\ StepOf(r) \in Ffi

ModelHeld ==
    /\ \A r \in Requests : HasModel(r) => model[NodeOf[r]] = r
    /\ \A n \in Nodes, r \in Requests : model[n] = r => NodeOf[r] = n /\ HasModel(r)

InActivation(w) == thread[w] \in {"dispatch", "parked", "cleanup"}

ThreadHeld ==
    /\ \A w \in Threads : InActivation(w) => model[ThreadNode[w]] = w
    /\ \A n \in Nodes, w \in Threads : model[n] = w => ThreadNode[w] = n /\ InActivation(w)

WorkersBounded == IsFiniteSet(OnWorker) /\ Cardinality(OnWorker) <= Workers

\* Whoever destroys a server is the last to have its Arc.
DestroyAlone ==
    \A r \in Requests : req[r].at \in {"destroy", "join"} =>
        /\ NodeOf[r] \in closed
        /\ req[r].at = "join" => NodeOf[r] \in shutdown
        /\ \A q \in Requests \ {r} : NodeOf[q] = NodeOf[r] => ~HoldsServer(q)

LInv ==
    /\ LTyped
    /\ InScript
    /\ StateHeld
    /\ WatchdogsHeld
    /\ ModelHeld
    /\ ThreadHeld
    /\ WorkersBounded
    /\ DestroyAlone
    /\ GoneIsQuiet

-----------------------------------------------------------------------------
(* The scripts. *)

Steps == {"state", "watchdogs", "state_watchdogs"} \cup Ffi

\* A libnvnmos call is never the first step, follows a critical section directly,
\* and that one is the handler's first.
ScriptOk(sc) ==
    /\ sc \in Seq(Steps)
    /\ Len(sc) >= 1
    /\ sc[1] \notin Ffi
    /\ \A k \in 1 .. Len(sc) - 1 :
          sc[k + 1] \in Ffi => sc[k] = "state" /\ \A j \in 1 .. k - 1 : sc[j] # "state"

LEMMA ScriptShape == \A kind \in AllKinds : ScriptOk(Script(kind))
<1>1. Script("add") = <<"state", "ffi", "state">>
  BY DEF Script
<1>2. Script("remove") = <<"state", "ffi", "state">>
  BY DEF Script
<1>3. Script("sync") = <<"state", "ffi">>
  BY DEF Script
<1>4. Script("close") = <<"watchdogs", "state", "ffi", "state">>
  BY DEF Script
<1>5. Script("watchdog") = <<"state", "ffi", "state", "watchdogs">>
  BY DEF Script
<1>6. Script("subscribe") = <<"state_watchdogs">>
  BY DEF Script
<1>7. Script("annotate") = <<"state", "ffi_callback">>
  BY DEF Script
<1>8. ScriptOk(<<"state", "ffi", "state">>) /\ ScriptOk(<<"state", "ffi">>)
  BY DEF ScriptOk, Steps, Ffi
<1>9. ScriptOk(<<"watchdogs", "state", "ffi", "state">>)
  BY DEF ScriptOk, Steps, Ffi
<1>10. ScriptOk(<<"state", "ffi", "state", "watchdogs">>)
  BY DEF ScriptOk, Steps, Ffi
<1>11. ScriptOk(<<"state_watchdogs">>) /\ ScriptOk(<<"state", "ffi_callback">>)
  BY DEF ScriptOk, Steps, Ffi
<1> QED BY <1>1, <1>2, <1>3, <1>4, <1>5, <1>6, <1>7, <1>8, <1>9, <1>10, <1>11 DEF AllKinds

LEMMA KindsTyped == \A r \in Requests : KindOf[r] \in AllKinds /\ NodeOf[r] \in Nodes
BY LockAssumption DEF AllKinds

LEMMA InitLInv == LockInit => LInv
<1> SUFFICES ASSUME LockInit PROVE LInv
  OBVIOUS
<1>1. LTyped
  BY DEF LockInit, LTyped, Phases
<1>2. InScript /\ StateHeld /\ WatchdogsHeld /\ DestroyAlone
  BY DEF LockInit, InScript, StateHeld, HasState, WatchdogsHeld, DestroyAlone
<1>3. ModelHeld /\ ThreadHeld
  BY LockAssumption DEF LockInit, ModelHeld, HasModel, ThreadHeld, InActivation
<1>4. GoneIsQuiet
  BY DEF LockInit, GoneIsQuiet
<1>5. WorkersBounded
  <2>1. OnWorker = {}
    BY DEF LockInit, OnWorker
  <2> QED BY <2>1, FS_EmptySet, LockAssumption DEF WorkersBounded
<1> QED BY <1>1, <1>2, <1>3, <1>4, <1>5 DEF LInv

-----------------------------------------------------------------------------
(* What a handler's step does to itself and to the others. *)

LEMMA GoFacts ==
    ASSUME LInv, NEW r \in Requests, NEW phase \in Phases, Go(r, phase)
    PROVE  /\ req' \in [Requests -> [step : Nat, at : Phases]]
           /\ req'[r].at = phase /\ req'[r].step = req[r].step
           /\ \A q \in Requests \ {r} : req'[q] = req[q]
           /\ \A q \in Requests : StepOf(q)' = StepOf(q)
<1>1. req \in [Requests -> [step : Nat, at : Phases]]
  BY DEF LInv, LTyped
<1>2. /\ req' \in [Requests -> [step : Nat, at : Phases]]
      /\ req'[r].at = phase /\ req'[r].step = req[r].step
      /\ \A q \in Requests \ {r} : req'[q] = req[q]
  <2>1. /\ [req[r] EXCEPT !.at = phase] \in [step : Nat, at : Phases]
        /\ [req[r] EXCEPT !.at = phase].at = phase
        /\ [req[r] EXCEPT !.at = phase].step = req[r].step
    BY <1>1
  <2> QED BY <1>1, <2>1 DEF Go
<1> QED BY <1>2 DEF StepOf

\* The next step of a script is a libnvnmos call only after the first critical
\* section.
LEMMA ProceedFacts ==
    ASSUME LInv, NEW r \in Requests, req[r].at # "new", Proceed(r)
    PROVE  /\ req' \in [Requests -> [step : Nat, at : Phases]]
           /\ req'[r].at \in {"queued", "done"}
           /\ req'[r].step \in 1 .. Len(Script(KindOf[r]))
           /\ \A q \in Requests \ {r} : req'[q] = req[q] /\ StepOf(q)' = StepOf(q)
           /\ HoldsServer(r)' =>
                 /\ StepOf(r) = "state"
                 /\ \A k \in 1 .. req[r].step - 1 : Script(KindOf[r])[k] # "state"
<1> DEFINE sc == Script(KindOf[r])
<1>1. req \in [Requests -> [step : Nat, at : Phases]]
  BY DEF LInv, LTyped
<1>2. /\ ScriptOk(sc) /\ req[r].step \in 1 .. Len(sc) /\ Len(sc) \in Nat
  <2>1. ScriptOk(sc)
    BY ScriptShape, KindsTyped
  <2>2. sc \in Seq(Steps)
    BY <2>1 DEF ScriptOk
  <2> QED BY <2>1, <2>2 DEF LInv, InScript
<1>3. req' = [req EXCEPT ![r] = IF @.step < Len(sc)
                                THEN [step |-> @.step + 1, at |-> "queued"]
                                ELSE [step |-> @.step, at |-> "done"]]
  BY DEF Proceed
<1> HIDE DEF sc
<1>4. \A q \in Requests \ {r} : req'[q] = req[q] /\ StepOf(q)' = StepOf(q)
  BY <1>1, <1>3 DEF StepOf
<1>5. CASE req[r].step < Len(sc)
  <2>1. req' = [req EXCEPT ![r] = [step |-> req[r].step + 1, at |-> "queued"]]
    BY <1>1, <1>3, <1>5
  <2>2. /\ req' \in [Requests -> [step : Nat, at : Phases]]
        /\ req'[r].at = "queued" /\ req'[r].step = req[r].step + 1
    BY <1>1, <2>1 DEF Phases
  <2>3. req[r].step \in 1 .. Len(sc) - 1 /\ req'[r].step \in 1 .. Len(sc)
    BY <1>2, <1>5, <2>2
  <2>4. StepOf(r) = sc[req[r].step] /\ StepOf(r)' = sc[req[r].step + 1]
    BY <2>2 DEF StepOf, sc
  <2>5. HoldsServer(r)' => sc[req[r].step + 1] \in Ffi
    BY <2>4 DEF HoldsServer, Ffi
  <2> QED BY <1>2, <1>4, <2>2, <2>3, <2>4, <2>5 DEF ScriptOk, sc
<1>6. CASE ~(req[r].step < Len(sc))
  <2>1. req' = [req EXCEPT ![r] = [step |-> req[r].step, at |-> "done"]]
    BY <1>1, <1>3, <1>6
  <2>2. /\ req' \in [Requests -> [step : Nat, at : Phases]]
        /\ req'[r].at = "done" /\ req'[r].step = req[r].step
    BY <1>1, <2>1 DEF Phases
  <2> QED BY <1>2, <1>4, <2>2 DEF HoldsServer, sc
<1> QED BY <1>5, <1>6

\* A worker less, or one more that was free.
LEMMA WorkersStep ==
    ASSUME WorkersBounded, NEW x, OnWorker' \subseteq OnWorker \cup {x},
           x \in OnWorker' => x \in OnWorker \/ WorkerFree
    PROVE  WorkersBounded'
<1>1. IsFiniteSet(OnWorker) /\ Cardinality(OnWorker) \in Nat /\ Workers \in Nat
  BY FS_CardinalityType, LockAssumption DEF WorkersBounded
<1>2. CASE OnWorker' \subseteq OnWorker
  <2>1. IsFiniteSet(OnWorker') /\ Cardinality(OnWorker') <= Cardinality(OnWorker)
    BY <1>1, <1>2, FS_Subset
  <2>2. Cardinality(OnWorker') \in Nat
    BY <2>1, FS_CardinalityType
  <2> QED BY <1>1, <2>1, <2>2 DEF WorkersBounded
<1>3. CASE ~(OnWorker' \subseteq OnWorker)
  <2>1. x \notin OnWorker /\ Cardinality(OnWorker) < Workers
    BY <1>3 DEF WorkerFree
  <2>2. /\ IsFiniteSet(OnWorker \cup {x})
        /\ Cardinality(OnWorker \cup {x}) = Cardinality(OnWorker) + 1
    BY <1>1, <2>1, FS_AddElement
  <2>3. IsFiniteSet(OnWorker') /\ Cardinality(OnWorker') <= Cardinality(OnWorker \cup {x})
    BY <2>2, FS_Subset
  <2>4. Cardinality(OnWorker') \in Nat
    BY <2>3, FS_CardinalityType
  <2> QED BY <1>1, <2>1, <2>2, <2>3, <2>4 DEF WorkersBounded
<1> QED BY <1>2, <1>3

-----------------------------------------------------------------------------
(* A step of handler r leaves the others alone.  What is left to show of r   *)
(* is that it takes only what is free and gives back only what it has, that  *)
(* it finds a free worker, that it gets no Arc of a closed Node, and that it *)
(* destroys as the last holder.                                              *)

Takes(old, new, r) == new = old \/ (old \in {r, Free} /\ new \in {r, Free})

RequestFrame(r) ==
    /\ req' \in [Requests -> [step : Nat, at : Phases]]
    /\ \A q \in Requests \ {r} : req'[q] = req[q] /\ StepOf(q)' = StepOf(q)
    /\ UNCHANGED <<thread, ack>>

\* r itself.
Stays(r) ==
    /\ req[r].at # "new" =>
        /\ req[r].step \in 1 .. Len(Script(KindOf[r]))
        /\ req[r].at = "inside" => StepOf(r) # "watchdogs"
        /\ req[r].at = "in_watchdogs" => StepOf(r) \in {"watchdogs", "state_watchdogs"}
        /\ req[r].at = "in_callback" => StepOf(r) = "ffi_callback"
        /\ req[r].at \in {"destroy", "join"} => StepOf(r) \in Ffi
    /\ HasState(r) => state = r
    /\ req[r].at = "in_watchdogs" => watchdogs_mutex = r
    /\ HasModel(r) <=> model[NodeOf[r]] = r
    /\ req[r].at \in {"destroy", "join"} =>
        /\ NodeOf[r] \in closed
        /\ req[r].at = "join" => NodeOf[r] \in shutdown
        /\ \A q \in Requests \ {r} : NodeOf[q] = NodeOf[r] => ~HoldsServer(q)

Quiet(n) ==
    /\ n \in closed
    /\ model[n] = Free
    /\ \A q \in Requests : NodeOf[q] = n => ~HoldsServer(q)
    /\ \A w \in Threads : ThreadNode[w] = n => thread[w] = "exited"

LEMMA RequestStepFrame ==
    ASSUME LInv, NEW r \in Requests, RequestFrame(r), Stays(r)',
           Takes(state, state', r), Takes(watchdogs_mutex, watchdogs_mutex', r),
           model' \in [Nodes -> Requests \cup Threads \cup {Free}],
           \A n \in Nodes : n # NodeOf[r] => model'[n] = model[n],
           Takes(model[NodeOf[r]], model'[NodeOf[r]], r),
           r \in OnWorker' => r \in OnWorker \/ WorkerFree,
           HoldsServer(r)' => HoldsServer(r) \/ NodeOf[r] \notin closed,
           closed \subseteq closed', closed' \subseteq Nodes,
           shutdown \subseteq shutdown', shutdown' \subseteq closed',
           gone' \subseteq shutdown', \A n \in gone' : n \in gone \/ Quiet(n)'
    PROVE  LInv'
<1>1. r # Free /\ r \notin Threads /\ NodeOf[r] \in Nodes
  BY LockAssumption
<1>2. \A q \in Requests \ {r} : /\ HasState(q)' <=> HasState(q)
                                /\ HasModel(q)' <=> HasModel(q)
                                /\ HoldsServer(q)' <=> HoldsServer(q)
  BY DEF RequestFrame, HasState, HasModel, HoldsServer
<1>3. LTyped'
  BY <1>1 DEF LInv, LTyped, RequestFrame, Takes
<1>4. InScript'
  BY DEF LInv, InScript, RequestFrame, Stays
<1>5. StateHeld' /\ WatchdogsHeld'
  <2>1. ASSUME NEW q \in Requests \ {r}
        PROVE  /\ HasState(q)' => state' = q
               /\ req'[q].at = "in_watchdogs" => watchdogs_mutex' = q
    <3>1. q # r /\ q # Free
      BY LockAssumption
    <3> QED BY <1>2, <3>1 DEF LInv, StateHeld, WatchdogsHeld, RequestFrame, Takes
  <2> QED BY <2>1 DEF StateHeld, WatchdogsHeld, Stays
<1>6. ModelHeld'
  <2>1. ASSUME NEW q \in Requests \ {r}, HasModel(q)' PROVE model'[NodeOf[q]] = q
    <3>1. model[NodeOf[q]] = q /\ q # Free /\ q # r /\ NodeOf[q] \in Nodes
      BY <1>2, <2>1, LockAssumption DEF LInv, ModelHeld
    <3> QED BY <3>1 DEF Takes
  <2>2. ASSUME NEW n \in Nodes, NEW q \in Requests, model'[n] = q
        PROVE  NodeOf[q] = n /\ HasModel(q)'
    <3>1. q # Free
      BY LockAssumption
    <3>2. CASE q # r
      BY <1>2, <2>2, <3>1, <3>2 DEF LInv, ModelHeld, Takes
    <3>3. CASE q = r
      BY <2>2, <3>3 DEF LInv, ModelHeld, Stays
    <3> QED BY <3>2, <3>3
  <2> QED BY <2>1, <2>2 DEF ModelHeld, Stays
<1>7. ThreadHeld'
  <2>1. \A w \in Threads : w # r /\ w # Free /\ ThreadNode[w] \in Nodes
    BY <1>1, LockAssumption
  <2>2. \A n \in Nodes, w \in Threads : model'[n] = w <=> model[n] = w
    BY <2>1 DEF Takes
  <2> QED BY <2>1, <2>2 DEF LInv, ThreadHeld, InActivation, RequestFrame
<1>8. WorkersBounded'
  <2>1. OnWorker' \subseteq OnWorker \cup {r}
    BY DEF OnWorker, RequestFrame
  <2> QED BY <2>1, WorkersStep DEF LInv
<1>9. DestroyAlone'
  <2>1. ASSUME NEW q \in Requests \ {r}, req'[q].at \in {"destroy", "join"}
        PROVE  /\ NodeOf[q] \in closed'
               /\ req'[q].at = "join" => NodeOf[q] \in shutdown'
               /\ \A p \in Requests \ {q} : NodeOf[p] = NodeOf[q] => ~HoldsServer(p)'
    <3>1. /\ req[q].at \in {"destroy", "join"} /\ req'[q] = req[q]
          /\ NodeOf[q] \in closed
          /\ req[q].at = "join" => NodeOf[q] \in shutdown
          /\ \A p \in Requests \ {q} : NodeOf[p] = NodeOf[q] => ~HoldsServer(p)
      BY <2>1 DEF LInv, DestroyAlone, RequestFrame
    <3> QED BY <1>2, <3>1
  <2> QED BY <2>1 DEF DestroyAlone, Stays
<1>10. GoneIsQuiet'
  <2> SUFFICES ASSUME NEW n \in gone PROVE Quiet(n)'
    BY DEF GoneIsQuiet, Quiet
  <2>1. /\ n \in closed /\ n \in Nodes /\ model[n] = Free
        /\ \A q \in Requests : NodeOf[q] = n => ~HoldsServer(q)
        /\ \A w \in Threads : ThreadNode[w] = n => thread[w] = "exited"
    BY DEF LInv, LTyped, GoneIsQuiet
  <2>2. \A q \in Requests : NodeOf[q] = n => ~HoldsServer(q)'
    BY <1>2, <2>1
  <2>3. model'[n] = Free
    <3>1. CASE n # NodeOf[r]
      BY <2>1, <3>1
    <3>2. CASE n = NodeOf[r]
      <4>1. ~HasModel(r)'
        BY <2>2, <3>2 DEF HasModel, HoldsServer, Ffi
      <4> QED BY <2>1, <3>2, <4>1 DEF Takes, Stays
    <3> QED BY <3>1, <3>2
  <2> QED BY <2>1, <2>2, <2>3 DEF RequestFrame, Quiet
<1> QED BY <1>3, <1>4, <1>5, <1>6, <1>7, <1>8, <1>9, <1>10 DEF LInv

-----------------------------------------------------------------------------
(* The steps of a handler. *)

LEMMA ArriveStep ==
    ASSUME LInv, NEW r \in Requests, Arrive(r)
    PROVE  LInv'
<1> DEFINE v == [step |-> 1, at |-> "queued"]
<1>1. /\ req[r].at = "new" /\ NodeOf[r] \notin closed
      /\ req' = [req EXCEPT ![r] = v]
      /\ UNCHANGED <<state, watchdogs_mutex, model, thread, ack, closed, shutdown, gone>>
  BY DEF Arrive, At
<1>2. req \in [Requests -> [step : Nat, at : Phases]] /\ v \in [step : Nat, at : Phases]
  BY DEF LInv, LTyped, Phases
<1>3. /\ req'[r] = v
      /\ \A q \in Requests \ {r} : req'[q] = req[q]
      /\ req' \in [Requests -> [step : Nat, at : Phases]]
  BY <1>1, <1>2
<1>4. RequestFrame(r)
  BY <1>1, <1>3 DEF RequestFrame, StepOf
<1>5. ScriptOk(Script(KindOf[r])) /\ Len(Script(KindOf[r])) \in Nat /\ Len(Script(KindOf[r])) >= 1
  <2>1. ScriptOk(Script(KindOf[r]))
    BY ScriptShape, KindsTyped
  <2> QED BY <2>1 DEF ScriptOk
<1>6. Stays(r)'
  <2>1. ~HasState(r)' /\ ~HasModel(r)' /\ req'[r].at = "queued" /\ req'[r].step = 1
    BY <1>3 DEF HasState, HasModel
  <2>2. model'[NodeOf[r]] # r
    BY <1>1, KindsTyped DEF LInv, ModelHeld, HasModel
  <2> QED BY <1>5, <2>1, <2>2 DEF Stays
<1>7. ~(r \in OnWorker') /\ (HoldsServer(r)' => NodeOf[r] \notin closed)
  <2>1. r \notin Threads
    BY LockAssumption
  <2> QED BY <1>1, <1>3, <2>1 DEF OnWorker
<1> QED BY <1>1, <1>4, <1>6, <1>7, RequestStepFrame DEF LInv, LTyped, Takes

LEMMA PollStep ==
    ASSUME LInv, NEW r \in Requests, Poll(r)
    PROVE  LInv'
<1>1. /\ req[r].at = "queued" /\ (NeedsWorker(StepOf(r)) => WorkerFree)
      /\ Go(r, "polling")
      /\ UNCHANGED <<state, watchdogs_mutex, model, thread, ack, closed, shutdown, gone>>
  BY DEF Poll, At
<1>2. /\ req' \in [Requests -> [step : Nat, at : Phases]]
      /\ req'[r].at = "polling" /\ req'[r].step = req[r].step
      /\ \A q \in Requests \ {r} : req'[q] = req[q]
      /\ \A q \in Requests : StepOf(q)' = StepOf(q)
  BY <1>1, GoFacts DEF Phases
<1>3. RequestFrame(r)
  BY <1>1, <1>2 DEF RequestFrame
<1>4. Stays(r)'
  <2>1. ~HasState(r)' /\ ~HasModel(r)' /\ ~HasModel(r)
    BY <1>1, <1>2 DEF HasState, HasModel
  <2>2. model'[NodeOf[r]] # r
    BY <1>1, <2>1, KindsTyped DEF LInv, ModelHeld
  <2> QED BY <1>1, <1>2, <2>1, <2>2 DEF LInv, InScript, Stays
<1>5. r \in OnWorker' => WorkerFree
  <2>1. r \notin Threads
    BY LockAssumption
  <2> QED BY <1>1, <1>2, <2>1 DEF OnWorker
<1>6. HoldsServer(r)' => HoldsServer(r)
  BY <1>1, <1>2 DEF HoldsServer
<1> QED BY <1>1, <1>3, <1>4, <1>5, <1>6, RequestStepFrame DEF LInv, LTyped, Takes

LEMMA EnterStateStep ==
    ASSUME LInv, NEW r \in Requests, EnterState(r)
    PROVE  LInv'
<1>1. /\ req[r].at = "polling" /\ StepOf(r) \in {"state", "state_watchdogs"}
      /\ state = Free /\ state' = r /\ Go(r, "inside")
      /\ UNCHANGED <<watchdogs_mutex, model, thread, ack, closed, shutdown, gone>>
  BY DEF EnterState, At
<1>2. /\ req' \in [Requests -> [step : Nat, at : Phases]]
      /\ req'[r].at = "inside" /\ req'[r].step = req[r].step
      /\ \A q \in Requests \ {r} : req'[q] = req[q]
      /\ \A q \in Requests : StepOf(q)' = StepOf(q)
  BY <1>1, GoFacts DEF Phases
<1>3. RequestFrame(r)
  BY <1>1, <1>2 DEF RequestFrame
<1>4. Stays(r)'
  <2>1. ~HasModel(r)' /\ ~HasModel(r)
    BY <1>1, <1>2 DEF HasModel, Ffi
  <2>2. model'[NodeOf[r]] # r
    BY <1>1, <2>1, KindsTyped DEF LInv, ModelHeld
  <2> QED BY <1>1, <1>2, <2>1, <2>2 DEF LInv, InScript, Stays
<1>5. r \in OnWorker' => r \in OnWorker
  BY <1>1, <1>2 DEF OnWorker, NeedsWorker
<1>6. HoldsServer(r)' => HoldsServer(r)
  BY <1>1, <1>2 DEF HoldsServer
<1> QED BY <1>1, <1>3, <1>4, <1>5, <1>6, RequestStepFrame DEF LInv, LTyped, Takes

LEMMA EnterWatchdogsStep ==
    ASSUME LInv, NEW r \in Requests, EnterWatchdogs(r)
    PROVE  LInv'
<1>1. /\ \/ req[r].at = "polling" /\ StepOf(r) = "watchdogs"
         \/ req[r].at = "inside" /\ StepOf(r) = "state_watchdogs"
      /\ watchdogs_mutex = Free /\ watchdogs_mutex' = r /\ Go(r, "in_watchdogs")
      /\ UNCHANGED <<state, model, thread, ack, closed, shutdown, gone>>
  BY DEF EnterWatchdogs, At
<1>2. /\ req' \in [Requests -> [step : Nat, at : Phases]]
      /\ req'[r].at = "in_watchdogs" /\ req'[r].step = req[r].step
      /\ \A q \in Requests \ {r} : req'[q] = req[q]
      /\ \A q \in Requests : StepOf(q)' = StepOf(q)
  BY <1>1, GoFacts DEF Phases
<1>3. RequestFrame(r)
  BY <1>1, <1>2 DEF RequestFrame
<1>4. Stays(r)'
  <2>1. ~HasModel(r)' /\ ~HasModel(r) /\ (HasState(r)' => HasState(r))
    BY <1>1, <1>2 DEF HasModel, HasState, Ffi
  <2>2. model'[NodeOf[r]] # r
    BY <1>1, <2>1, KindsTyped DEF LInv, ModelHeld
  <2> QED BY <1>1, <1>2, <2>1, <2>2 DEF LInv, InScript, StateHeld, Stays
<1>5. r \in OnWorker' => r \in OnWorker
  BY <1>1, <1>2 DEF OnWorker, NeedsWorker
<1>6. HoldsServer(r)' => HoldsServer(r)
  BY <1>1, <1>2 DEF HoldsServer
<1> QED BY <1>1, <1>3, <1>4, <1>5, <1>6, RequestStepFrame DEF LInv, LTyped, Takes

\* A handler that has ended a step of its script holds nothing.
LEMMA EndedStays ==
    ASSUME NEW r \in Requests, req'[r].at \in {"queued", "done"},
           req'[r].step \in 1 .. Len(Script(KindOf[r])), model'[NodeOf[r]] # r
    PROVE  Stays(r)' /\ r \notin OnWorker'
<1>1. ~HasState(r)' /\ ~HasModel(r)'
  BY DEF HasState, HasModel
<1>2. r \notin Threads
  BY LockAssumption
<1> QED BY <1>1, <1>2 DEF Stays, OnWorker

LEMMA LeaveStateStep ==
    ASSUME LInv, NEW r \in Requests, LeaveState(r)
    PROVE  LInv'
<1>1. /\ req[r].at = "inside" /\ StepOf(r) = "state" /\ state' = Free
      /\ UNCHANGED <<watchdogs_mutex, model, thread, ack, shutdown, gone>>
  BY DEF LeaveState, At, StateKept
<1>2. /\ state = r /\ model'[NodeOf[r]] # r /\ NodeOf[r] \in Nodes
      /\ req[r].step \in 1 .. Len(Script(KindOf[r]))
  BY <1>1, KindsTyped DEF LInv, InScript, StateHeld, HasState, ModelHeld, HasModel, Ffi
<1>3. CASE Go(r, "done") /\ UNCHANGED closed
  <2>1. /\ req' \in [Requests -> [step : Nat, at : Phases]]
        /\ req'[r].at = "done" /\ req'[r].step = req[r].step
        /\ \A q \in Requests \ {r} : req'[q] = req[q]
        /\ \A q \in Requests : StepOf(q)' = StepOf(q)
    BY <1>3, GoFacts DEF Phases
  <2>2. RequestFrame(r)
    BY <1>1, <2>1 DEF RequestFrame
  <2>3. Stays(r)' /\ r \notin OnWorker' /\ ~HoldsServer(r)'
    BY <1>2, <2>1, EndedStays DEF HoldsServer
  <2> QED BY <1>1, <1>2, <1>3, <2>2, <2>3, RequestStepFrame DEF LInv, LTyped, Takes
<1>4. ASSUME ~(NodeOf[r] \in closed /\ \A k \in 1 .. req[r].step - 1 :
                                           Script(KindOf[r])[k] # "state"),
             Proceed(r),
             closed' = IF KindOf[r] \in Closing THEN closed \cup {NodeOf[r]} ELSE closed
      PROVE  LInv'
  <2>1. /\ req' \in [Requests -> [step : Nat, at : Phases]]
        /\ req'[r].at \in {"queued", "done"}
        /\ req'[r].step \in 1 .. Len(Script(KindOf[r]))
        /\ \A q \in Requests \ {r} : req'[q] = req[q] /\ StepOf(q)' = StepOf(q)
        /\ HoldsServer(r)' => \A k \in 1 .. req[r].step - 1 : Script(KindOf[r])[k] # "state"
    BY <1>1, <1>4, ProceedFacts
  <2>2. RequestFrame(r)
    BY <1>1, <2>1 DEF RequestFrame
  <2>3. Stays(r)' /\ r \notin OnWorker'
    BY <1>2, <2>1, EndedStays
  <2>4. HoldsServer(r)' => NodeOf[r] \notin closed
    BY <1>4, <2>1
  <2>5. closed \subseteq closed' /\ closed' \subseteq Nodes
    BY <1>2, <1>4 DEF LInv, LTyped
  <2> QED BY <1>1, <1>2, <2>2, <2>3, <2>4, <2>5, RequestStepFrame DEF LInv, LTyped, Takes
<1> QED BY <1>3, <1>4 DEF LeaveState

LEMMA LeaveWatchdogsStep ==
    ASSUME LInv, NEW r \in Requests, LeaveWatchdogs(r)
    PROVE  LInv'
<1>1. /\ req[r].at = "in_watchdogs" /\ watchdogs_mutex' = Free
      /\ state' = (IF state = r THEN Free ELSE state) /\ Proceed(r)
      /\ UNCHANGED <<model, thread, ack, closed, shutdown, gone>>
  BY DEF LeaveWatchdogs, At
<1>2. /\ watchdogs_mutex = r /\ model'[NodeOf[r]] # r /\ StepOf(r) # "state"
  BY <1>1, KindsTyped DEF LInv, InScript, WatchdogsHeld, ModelHeld, HasModel
<1>3. /\ req' \in [Requests -> [step : Nat, at : Phases]]
      /\ req'[r].at \in {"queued", "done"}
      /\ req'[r].step \in 1 .. Len(Script(KindOf[r]))
      /\ \A q \in Requests \ {r} : req'[q] = req[q] /\ StepOf(q)' = StepOf(q)
      /\ ~HoldsServer(r)'
  BY <1>1, <1>2, ProceedFacts
<1>4. RequestFrame(r)
  BY <1>1, <1>3 DEF RequestFrame
<1>5. Stays(r)' /\ r \notin OnWorker'
  BY <1>2, <1>3, EndedStays
<1> QED BY <1>1, <1>2, <1>3, <1>4, <1>5, RequestStepFrame DEF LInv, LTyped, Takes

LEMMA EnterModelStep ==
    ASSUME LInv, NEW r \in Requests, EnterModel(r)
    PROVE  LInv'
<1>1. /\ req[r].at = "polling" /\ StepOf(r) \in Ffi
      /\ model[NodeOf[r]] = Free /\ model' = [model EXCEPT ![NodeOf[r]] = r]
      /\ Go(r, "inside")
      /\ UNCHANGED <<state, watchdogs_mutex, thread, ack, closed, shutdown, gone>>
  BY DEF EnterModel, At, Ffi
<1>2. /\ req' \in [Requests -> [step : Nat, at : Phases]]
      /\ req'[r].at = "inside" /\ req'[r].step = req[r].step
      /\ \A q \in Requests \ {r} : req'[q] = req[q]
      /\ \A q \in Requests : StepOf(q)' = StepOf(q)
  BY <1>1, GoFacts DEF Phases
<1>3. RequestFrame(r)
  BY <1>1, <1>2 DEF RequestFrame
<1>4. /\ NodeOf[r] \in Nodes
      /\ model' \in [Nodes -> Requests \cup Threads \cup {Free}]
      /\ model'[NodeOf[r]] = r
      /\ \A n \in Nodes : n # NodeOf[r] => model'[n] = model[n]
  BY <1>1, KindsTyped DEF LInv, LTyped
<1>5. Stays(r)'
  <2>1. HasModel(r)' /\ ~HasState(r)' /\ StepOf(r)' # "watchdogs"
    BY <1>1, <1>2 DEF HasModel, HasState, Ffi
  <2> QED BY <1>1, <1>2, <1>4, <2>1 DEF LInv, InScript, Stays
<1>6. r \in OnWorker' => r \in OnWorker
  BY <1>1, <1>2 DEF OnWorker, NeedsWorker, Ffi
<1>7. HoldsServer(r)' => HoldsServer(r)
  BY <1>1, <1>2 DEF HoldsServer
<1> QED BY <1>1, <1>3, <1>4, <1>5, <1>6, <1>7, RequestStepFrame DEF LInv, LTyped, Takes

LEMMA EnterCallbackStep ==
    ASSUME LInv, NEW r \in Requests, EnterCallback(r)
    PROVE  LInv'
<1>1. /\ req[r].at = "inside" /\ StepOf(r) = "ffi_callback"
      /\ state = Free /\ state' = r /\ Go(r, "in_callback")
      /\ UNCHANGED <<watchdogs_mutex, model, thread, ack, closed, shutdown, gone>>
  BY DEF EnterCallback, At
<1>2. /\ req' \in [Requests -> [step : Nat, at : Phases]]
      /\ req'[r].at = "in_callback" /\ req'[r].step = req[r].step
      /\ \A q \in Requests \ {r} : req'[q] = req[q]
      /\ \A q \in Requests : StepOf(q)' = StepOf(q)
  BY <1>1, GoFacts DEF Phases
<1>3. RequestFrame(r)
  BY <1>1, <1>2 DEF RequestFrame
<1>4. Stays(r)'
  <2>1. HasModel(r)' /\ HasModel(r)
    BY <1>1, <1>2 DEF HasModel, Ffi
  <2>2. model'[NodeOf[r]] = r
    BY <1>1, <2>1 DEF LInv, ModelHeld
  <2> QED BY <1>1, <1>2, <2>1, <2>2 DEF LInv, InScript, Stays
<1>5. r \in OnWorker' => r \in OnWorker
  BY <1>1, <1>2 DEF OnWorker, NeedsWorker
<1>6. HoldsServer(r)' => HoldsServer(r)
  BY <1>1, <1>2 DEF HoldsServer
<1> QED BY <1>1, <1>3, <1>4, <1>5, <1>6, RequestStepFrame DEF LInv, LTyped, Takes

\* The call returns; the last holder goes on to the destroy.
LEMMA LeaveModelStep ==
    ASSUME LInv, NEW r \in Requests, LeaveModel(r)
    PROVE  LInv'
<1>1. /\ \/ req[r].at = "inside" /\ StepOf(r) = "ffi"
         \/ req[r].at = "in_callback"
      /\ model' = [model EXCEPT ![NodeOf[r]] = Free]
      /\ state' = (IF state = r THEN Free ELSE state)
      /\ (IF LastArc(r) THEN Go(r, "destroy") ELSE Proceed(r))
      /\ UNCHANGED <<watchdogs_mutex, thread, ack, closed, shutdown, gone>>
  BY DEF LeaveModel, At
<1>2. HasModel(r) /\ StepOf(r) \in Ffi
  BY <1>1 DEF LInv, InScript, HasModel, Ffi
<1>3. /\ NodeOf[r] \in Nodes /\ model[NodeOf[r]] = r /\ r # Free
      /\ model' \in [Nodes -> Requests \cup Threads \cup {Free}]
      /\ model'[NodeOf[r]] = Free
      /\ \A n \in Nodes : n # NodeOf[r] => model'[n] = model[n]
  BY <1>1, <1>2, KindsTyped, LockAssumption DEF LInv, LTyped, ModelHeld
<1>4. CASE LastArc(r)
  <2>1. /\ req' \in [Requests -> [step : Nat, at : Phases]]
        /\ req'[r].at = "destroy" /\ req'[r].step = req[r].step
        /\ \A q \in Requests \ {r} : req'[q] = req[q]
        /\ \A q \in Requests : StepOf(q)' = StepOf(q)
    BY <1>1, <1>4, GoFacts DEF Phases
  <2>2. RequestFrame(r)
    BY <1>1, <2>1 DEF RequestFrame
  <2>3. Stays(r)'
    <3>1. ~HasModel(r)' /\ ~HasState(r)'
      BY <2>1 DEF HasModel, HasState
    <3>2. /\ NodeOf[r] \in closed'
          /\ \A q \in Requests \ {r} : NodeOf[q] = NodeOf[r] => ~HoldsServer(q)'
      BY <1>1, <1>4, <2>1 DEF LastArc, HoldsServer
    <3> QED BY <1>1, <1>2, <1>3, <2>1, <3>1, <3>2 DEF LInv, InScript, Stays
  <2>4. (r \in OnWorker' => r \in OnWorker) /\ (HoldsServer(r)' => HoldsServer(r))
    BY <1>1, <1>2, <2>1 DEF OnWorker, NeedsWorker, HoldsServer, Ffi
  <2> QED BY <1>1, <1>3, <2>2, <2>3, <2>4, RequestStepFrame DEF LInv, LTyped, Takes
<1>5. CASE ~LastArc(r)
  <2>1. StepOf(r) # "state" /\ req[r].at # "new"
    BY <1>1, <1>2 DEF Ffi
  <2>2. /\ req' \in [Requests -> [step : Nat, at : Phases]]
        /\ req'[r].at \in {"queued", "done"}
        /\ req'[r].step \in 1 .. Len(Script(KindOf[r]))
        /\ \A q \in Requests \ {r} : req'[q] = req[q] /\ StepOf(q)' = StepOf(q)
        /\ ~HoldsServer(r)'
    BY <1>1, <1>5, <2>1, ProceedFacts
  <2>3. RequestFrame(r)
    BY <1>1, <2>2 DEF RequestFrame
  <2>4. Stays(r)' /\ r \notin OnWorker'
    BY <1>3, <2>2, EndedStays
  <2> QED BY <1>1, <1>3, <2>2, <2>3, <2>4, RequestStepFrame DEF LInv, LTyped, Takes
<1> QED BY <1>4, <1>5

LEMMA ShutdownStep ==
    ASSUME LInv, NEW r \in Requests, Shutdown(r)
    PROVE  LInv'
<1>1. /\ req[r].at = "destroy" /\ shutdown' = shutdown \cup {NodeOf[r]} /\ Go(r, "join")
      /\ UNCHANGED <<state, watchdogs_mutex, model, thread, ack, closed, gone>>
  BY DEF Shutdown, At
<1>2. /\ req' \in [Requests -> [step : Nat, at : Phases]]
      /\ req'[r].at = "join" /\ req'[r].step = req[r].step
      /\ \A q \in Requests \ {r} : req'[q] = req[q]
      /\ \A q \in Requests : StepOf(q)' = StepOf(q)
  BY <1>1, GoFacts DEF Phases
<1>3. RequestFrame(r)
  BY <1>1, <1>2 DEF RequestFrame
<1>4. /\ StepOf(r) \in Ffi /\ NodeOf[r] \in closed
      /\ \A q \in Requests \ {r} : NodeOf[q] = NodeOf[r] => ~HoldsServer(q)
  BY <1>1 DEF LInv, InScript, DestroyAlone
<1>5. Stays(r)'
  <2>1. ~HasModel(r)' /\ ~HasModel(r) /\ ~HasState(r)'
    BY <1>1, <1>2 DEF HasModel, HasState
  <2>2. model'[NodeOf[r]] # r
    BY <1>1, <2>1, KindsTyped DEF LInv, ModelHeld
  <2>3. \A q \in Requests \ {r} : NodeOf[q] = NodeOf[r] => ~HoldsServer(q)'
    BY <1>2, <1>4 DEF HoldsServer
  <2> QED BY <1>1, <1>2, <1>4, <2>1, <2>2, <2>3 DEF LInv, InScript, Stays
<1>6. (r \in OnWorker' => r \in OnWorker) /\ (HoldsServer(r)' => HoldsServer(r))
  BY <1>1, <1>2 DEF OnWorker, HoldsServer
<1>7. shutdown \subseteq shutdown' /\ shutdown' \subseteq closed'
  BY <1>1, <1>4 DEF LInv, LTyped
<1> QED BY <1>1, <1>3, <1>5, <1>6, <1>7, RequestStepFrame DEF LInv, LTyped, Takes

\* The destroyer is the last holder and the threads are gone: nobody has the
\* model lock, and nobody will.
LEMMA JoinStep ==
    ASSUME LInv, NEW r \in Requests, Join(r)
    PROVE  LInv'
<1> DEFINE n == NodeOf[r]
<1>1. /\ req[r].at = "join" /\ gone' = gone \cup {n} /\ Proceed(r)
      /\ \A w \in Threads : ThreadNode[w] = n => thread[w] = "exited"
      /\ UNCHANGED <<state, watchdogs_mutex, model, thread, ack, closed, shutdown>>
  BY DEF Join, At
<1>2. /\ StepOf(r) \in Ffi /\ n \in closed /\ n \in shutdown /\ n \in Nodes
      /\ \A q \in Requests \ {r} : NodeOf[q] = n => ~HoldsServer(q)
  BY <1>1, KindsTyped DEF LInv, InScript, DestroyAlone
<1>3. /\ req' \in [Requests -> [step : Nat, at : Phases]]
      /\ req'[r].at \in {"queued", "done"}
      /\ req'[r].step \in 1 .. Len(Script(KindOf[r]))
      /\ \A q \in Requests \ {r} : req'[q] = req[q] /\ StepOf(q)' = StepOf(q)
      /\ ~HoldsServer(r)'
  <2>1. StepOf(r) # "state" /\ req[r].at # "new"
    BY <1>1, <1>2 DEF Ffi
  <2> QED BY <1>1, <2>1, ProceedFacts
<1>4. model[n] = Free
  <2>1. \A q \in Requests : model[n] # q
    <3> SUFFICES ASSUME NEW q \in Requests, model[n] = q PROVE FALSE
      OBVIOUS
    <3>1. NodeOf[q] = n /\ HasModel(q)
      BY <1>2 DEF LInv, ModelHeld
    <3>2. q # r /\ HoldsServer(q)
      BY <1>1, <3>1 DEF HasModel, HoldsServer, Ffi
    <3> QED BY <1>2, <3>1, <3>2
  <2>2. \A w \in Threads : model[n] # w
    BY <1>1, <1>2 DEF LInv, ThreadHeld, InActivation
  <2> QED BY <1>2, <2>1, <2>2 DEF LInv, LTyped
<1>5. RequestFrame(r)
  BY <1>1, <1>3 DEF RequestFrame
<1>6. Stays(r)' /\ r \notin OnWorker'
  <2>1. model'[n] # r
    BY <1>1, <1>4, LockAssumption
  <2> QED BY <1>3, <2>1, EndedStays
<1>7. Quiet(n)'
  <2>1. \A q \in Requests : NodeOf[q] = n => ~HoldsServer(q)'
    BY <1>2, <1>3 DEF HoldsServer
  <2> QED BY <1>1, <1>2, <1>4, <2>1 DEF Quiet
<1>8. gone' \subseteq shutdown' /\ \A m \in gone' : m \in gone \/ Quiet(m)'
  BY <1>1, <1>2, <1>7 DEF LInv, LTyped
<1> QED BY <1>1, <1>3, <1>5, <1>6, <1>8, RequestStepFrame DEF LInv, LTyped, Takes

-----------------------------------------------------------------------------
(* The activation threads and their acks. *)

\* Thread w takes or returns only the model lock of its own Node, and an ack
\* comes onto a worker only if one is free.
LEMMA ThreadStepFrame ==
    ASSUME LInv, NEW w \in Threads,
           UNCHANGED <<state, watchdogs_mutex, req, closed, shutdown, gone>>,
           thread' \in [Threads -> {"idle", "dispatch", "parked", "cleanup", "exited"}],
           \A v \in Threads \ {w} : thread'[v] = thread[v] /\ ack'[v] = ack[v],
           ack' \in [Threads -> {"none", "sent", "polling", "acked"}],
           ack'[w] = "polling" => ack[w] = "polling" \/ WorkerFree,
           model' \in [Nodes -> Requests \cup Threads \cup {Free}],
           \A n \in Nodes : n # ThreadNode[w] => model'[n] = model[n],
           Takes(model[ThreadNode[w]], model'[ThreadNode[w]], w),
           model'[ThreadNode[w]] = w <=> InActivation(w)',
           ThreadNode[w] \in gone => thread'[w] = "exited"
    PROVE  LInv'
<1>1. w # Free /\ w \notin Requests /\ ThreadNode[w] \in Nodes
  BY LockAssumption
<1>2. \A q \in Requests : /\ StepOf(q)' = StepOf(q)
                          /\ HasState(q)' <=> HasState(q)
                          /\ HasModel(q)' <=> HasModel(q)
                          /\ HoldsServer(q)' <=> HoldsServer(q)
  BY DEF StepOf, HasState, HasModel, HoldsServer
<1>3. LTyped' /\ InScript' /\ StateHeld' /\ WatchdogsHeld'
  BY <1>2 DEF LInv, LTyped, InScript, StateHeld, WatchdogsHeld
<1>4. ModelHeld'
  <2>1. \A n \in Nodes, q \in Requests : model'[n] = q <=> model[n] = q
    BY <1>1, LockAssumption DEF Takes
  <2> QED BY <1>2, <2>1, KindsTyped DEF LInv, ModelHeld
<1>5. ThreadHeld'
  <2>1. ASSUME NEW v \in Threads \ {w} PROVE InActivation(v)' <=> InActivation(v)
    BY DEF InActivation
  <2>2. ASSUME NEW v \in Threads \ {w}, NEW n \in Nodes PROVE model'[n] = v <=> model[n] = v
    BY <1>1, LockAssumption DEF Takes
  <2>3. \A n \in Nodes : model'[n] = w => n = ThreadNode[w]
    BY <1>1 DEF LInv, ThreadHeld
  <2>4. \A v \in Threads : ThreadNode[v] \in Nodes
    BY LockAssumption
  <2>5. \A v \in Threads : InActivation(v)' => model'[ThreadNode[v]] = v
    BY <2>1, <2>2, <2>4 DEF LInv, ThreadHeld
  <2>6. \A n \in Nodes, v \in Threads : model'[n] = v => ThreadNode[v] = n /\ InActivation(v)'
    BY <2>1, <2>2, <2>3 DEF LInv, ThreadHeld
  <2> QED BY <2>5, <2>6 DEF ThreadHeld
<1>6. WorkersBounded'
  <2>1. OnWorker' \subseteq OnWorker \cup {w} /\ (w \in OnWorker' => w \in OnWorker \/ WorkerFree)
    BY <1>1, <1>2 DEF OnWorker
  <2> QED BY <2>1, WorkersStep DEF LInv
<1>7. DestroyAlone'
  BY <1>2 DEF LInv, DestroyAlone
<1>8. GoneIsQuiet'
  <2>1. \A n \in gone : n \in Nodes /\ model[n] = Free
    BY DEF LInv, LTyped, GoneIsQuiet
  <2>2. \A n \in gone : model'[n] = Free
    BY <1>1, <2>1 DEF Takes, InActivation
  <2> QED BY <1>2, <2>2 DEF LInv, GoneIsQuiet
<1> QED BY <1>3, <1>4, <1>5, <1>6, <1>7, <1>8 DEF LInv

\* A thread of a Node whose server is gone has exited.
LEMMA LiveThread ==
    ASSUME LInv, NEW w \in Threads, thread[w] # "exited"
    PROVE  ThreadNode[w] \notin gone
BY DEF LInv, GoneIsQuiet

LEMMA ActivationStep ==
    ASSUME LInv, NEW w \in Threads,
           Activation(w) \/ DispatchNoResource(w) \/ CleanupActivation(w)
    PROVE  LInv'
<1>1. /\ ThreadNode[w] \notin gone /\ ThreadNode[w] \in Nodes
      /\ thread \in [Threads -> {"idle", "dispatch", "parked", "cleanup", "exited"}]
      /\ ack \in [Threads -> {"none", "sent", "polling", "acked"}]
      /\ model \in [Nodes -> Requests \cup Threads \cup {Free}]
      /\ w # Free
  BY LiveThread, LockAssumption
     DEF LInv, LTyped, Activation, DispatchNoResource, CleanupActivation
<1>2. CASE Activation(w)
  <2>1. /\ model[ThreadNode[w]] = Free /\ model' = [model EXCEPT ![ThreadNode[w]] = w]
        /\ thread' = [thread EXCEPT ![w] = "dispatch"]
        /\ UNCHANGED <<state, watchdogs_mutex, req, ack, closed, shutdown, gone>>
    BY <1>2 DEF Activation, ThreadGo
  <2>2. model'[ThreadNode[w]] = w /\ InActivation(w)'
    BY <1>1, <2>1 DEF InActivation
  <2>3. Takes(model[ThreadNode[w]], model'[ThreadNode[w]], w)
    BY <2>1, <2>2 DEF Takes
  <2>4. model' \in [Nodes -> Requests \cup Threads \cup {Free}]
        /\ \A n \in Nodes : n # ThreadNode[w] => model'[n] = model[n]
    BY <1>1, <2>1
  <2> QED BY <1>1, <2>1, <2>2, <2>3, <2>4, ThreadStepFrame
<1>3. CASE DispatchNoResource(w) \/ CleanupActivation(w)
  <2>1. /\ InActivation(w) /\ model' = [model EXCEPT ![ThreadNode[w]] = Free]
        /\ thread' = [thread EXCEPT ![w] = "idle"]
        /\ UNCHANGED <<state, watchdogs_mutex, req, ack, closed, shutdown, gone>>
    BY <1>3 DEF DispatchNoResource, CleanupActivation, ThreadGo, InActivation
  <2>2. model'[ThreadNode[w]] = Free /\ ~InActivation(w)' /\ model[ThreadNode[w]] = w
    BY <1>1, <2>1 DEF LInv, ThreadHeld, InActivation
  <2>3. Takes(model[ThreadNode[w]], model'[ThreadNode[w]], w)
    BY <2>2 DEF Takes
  <2>4. model' \in [Nodes -> Requests \cup Threads \cup {Free}]
        /\ \A n \in Nodes : n # ThreadNode[w] => model'[n] = model[n]
    BY <1>1, <2>1
  <2> QED BY <1>1, <2>1, <2>2, <2>3, <2>4, ThreadStepFrame
<1> QED BY <1>2, <1>3

LEMMA AckStep ==
    ASSUME LInv, NEW w \in Threads,
           \/ DispatchActivation(w) \/ Unpark(w) \/ Exit(w)
           \/ PollAck(w) \/ CompleteActivation(w)
    PROVE  LInv'
<1>1. /\ ThreadNode[w] \in Nodes
      /\ thread \in [Threads -> {"idle", "dispatch", "parked", "cleanup", "exited"}]
      /\ ack \in [Threads -> {"none", "sent", "polling", "acked"}]
      /\ model \in [Nodes -> Requests \cup Threads \cup {Free}]
      /\ model[ThreadNode[w]] = w <=> InActivation(w)
  BY LockAssumption DEF LInv, LTyped, ThreadHeld
<1>2. UNCHANGED <<state, watchdogs_mutex, model, req, closed, shutdown, gone>>
  BY DEF DispatchActivation, Unpark, Exit, PollAck, CompleteActivation
<1>3. /\ thread' \in [Threads -> {"idle", "dispatch", "parked", "cleanup", "exited"}]
      /\ ack' \in [Threads -> {"none", "sent", "polling", "acked"}]
      /\ \A v \in Threads \ {w} : thread'[v] = thread[v] /\ ack'[v] = ack[v]
      /\ ack'[w] = "polling" => ack[w] = "polling" \/ WorkerFree
      /\ InActivation(w)' <=> InActivation(w)
      /\ thread[w] = "exited" => thread'[w] = "exited"
  BY <1>1 DEF DispatchActivation, Unpark, Exit, PollAck, CompleteActivation, ThreadGo,
     InActivation
<1>4. ThreadNode[w] \in gone => thread'[w] = "exited"
  BY <1>3, LiveThread
<1> QED BY <1>1, <1>2, <1>3, <1>4, ThreadStepFrame DEF Takes

-----------------------------------------------------------------------------
LEMMA LInvStep == LInv /\ [LockNext]_lockVars => LInv'
<1> SUFFICES ASSUME LInv, [LockNext]_lockVars PROVE LInv'
  OBVIOUS
<1>1. CASE UNCHANGED lockVars
  <2>1. \A r \in Requests : /\ StepOf(r)' = StepOf(r)
                            /\ HasState(r)' <=> HasState(r)
                            /\ HasModel(r)' <=> HasModel(r)
                            /\ HoldsServer(r)' <=> HoldsServer(r)
    BY <1>1 DEF lockVars, StepOf, HasState, HasModel, HoldsServer
  <2>2. OnWorker' = OnWorker
    BY <1>1 DEF lockVars, OnWorker, StepOf
  <2> QED BY <1>1, <2>1, <2>2 DEF lockVars, LInv, LTyped, InScript, StateHeld, WatchdogsHeld,
             ModelHeld, ThreadHeld, InActivation, WorkersBounded, DestroyAlone, GoneIsQuiet
<1>2. ASSUME NEW r \in Requests, Arrive(r) \/ RequestStep(r) PROVE LInv'
  BY <1>2, ArriveStep, PollStep, EnterStateStep, LeaveStateStep, EnterWatchdogsStep,
     LeaveWatchdogsStep, EnterModelStep, EnterCallbackStep, LeaveModelStep, ShutdownStep,
     JoinStep DEF RequestStep
<1>3. ASSUME NEW w \in Threads,
             Activation(w) \/ ThreadStep(w) \/ PollAck(w) \/ CompleteActivation(w)
      PROVE  LInv'
  BY <1>3, ActivationStep, AckStep DEF ThreadStep
<1> QED BY <1>1, <1>2, <1>3 DEF LockNext

\* For any mix of handlers, Nodes, activation threads and workers: whoever is in
\* a critical section of `state`, of the watchdogs or of a Node's model has its
\* lock, no more workers are in use than there are, and server::~server neither
\* runs under a libnvnmos call nor leaves an activation thread behind.
THEOREM LocksCorrect == LockSpec => []LockInv
<1>1. LInv => LockInv
  <2> SUFFICES ASSUME LInv PROVE LocksConsistent /\ GoneIsQuiet
    BY DEF LockInv
  <2>1. \A r \in Requests :
          /\ req[r].at = "inside" /\ StepOf(r) = "state" => state = r
          /\ req[r].at = "in_callback" => state = r /\ model[NodeOf[r]] = r
          /\ req[r].at = "in_watchdogs" => watchdogs_mutex = r
    BY DEF LInv, InScript, StateHeld, HasState, WatchdogsHeld, ModelHeld, HasModel, Ffi
  <2>2. \A w \in Threads :
          thread[w] \in {"dispatch", "parked", "cleanup"} <=> model[ThreadNode[w]] = w
    BY LockAssumption DEF LInv, ThreadHeld, InActivation
  <2> QED BY <2>1, <2>2 DEF LInv, LTyped, WorkersBounded, LocksConsistent
<1> QED BY <1>1, InitLInv, LInvStep, PTL DEF LockSpec
=============================================================================
