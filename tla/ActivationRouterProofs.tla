----------------------- MODULE ActivationRouterProofs -----------------------
(***************************************************************************)
(* RouterInv and OutcomeFaithful of ActivationRouter for every number of   *)
(* sessions, resources and activation threads, every buffer size and every *)
(* bound on the activations.                                               *)
(*                                                                         *)
(* Neither is inductive.  What an ack, a timeout or a dropped channel may  *)
(* still do to an activation depends on where its thread is, so RInv       *)
(* follows each activation from the channel (AckLogged) over the result    *)
(* that the thread carries to its cleanup (ResultJustified) to what the    *)
(* controller was told (ToldJustified), and says that a thread has its     *)
(* activation to itself (ThreadsApart).                                    *)
(***************************************************************************)
EXTENDS ActivationRouter, TLAPS

-----------------------------------------------------------------------------
(* The inductive invariant. *)

LogEntry == [session : Sessions, acks : Seq([by : Sessions, outcome : Outcome]),
             told : Outcome \cup {"none"}, timed_out : BOOLEAN]

LogTyped == \A a \in DOMAIN log : log[a] \in LogEntry

Busy(w) == thread[w].phase # "idle"

\* A busy thread serves an activation that is logged and not answered yet, and
\* no other thread serves it.
ThreadsApart ==
    /\ \A w \in Threads : Busy(w) =>
          thread[w].act \in DOMAIN log /\ log[thread[w].act].told = "none"
    /\ \A v, w \in Threads : v # w /\ Busy(v) /\ Busy(w) => thread[v].act # thread[w].act

\* The channel holds what the one accepted AckActivation said, and an entry that
\* is still pending has not been acknowledged.
AckLogged ==
    /\ \A a \in DOMAIN log :
          log[a].acks = IF ack[a] = "none" THEN <<>>
                        ELSE <<[by |-> log[a].session, outcome |-> ack[a]]>>
    /\ \A a \in DOMAIN pending : ack[a] = "none"

\* Why an activation may fail: the client said so, the thread gave up waiting, or
\* the channel was dropped and nothing can come through it any more.
MayFail(a) == ack[a] = "failure" \/ log[a].timed_out \/ ChannelDropped(a)

ResultJustified ==
    \A w \in Threads : thread[w].phase = "cleanup" =>
        /\ thread[w].result = "ok" => ack[thread[w].act] = "success"
        /\ thread[w].result = "err" => MayFail(thread[w].act)

ToldJustified ==
    \A a \in DOMAIN log :
        /\ log[a].told = "success" => ack[a] = "success"
        /\ log[a].told = "failure" => MayFail(a)

RInv ==
    /\ TypeOK
    /\ LogTyped
    /\ PendingHasThread
    /\ ThreadsApart
    /\ AckLogged
    /\ ResultJustified
    /\ ToldJustified

-----------------------------------------------------------------------------
(* Initially. *)

LEMMA InitRInv == Init => RInv
<1> SUFFICES ASSUME Init PROVE RInv
  OBVIOUS
<1>1. TypeOK
  BY DEF Init, TypeOK, Idle
<1>2. LogTyped /\ PendingHasThread /\ AckLogged /\ ToldJustified
  BY DEF Init, LogTyped, PendingHasThread, AckLogged, ToldJustified
<1>3. ThreadsApart /\ ResultJustified
  BY DEF Init, Idle, ThreadsApart, Busy, ResultJustified
<1> QED BY <1>1, <1>2, <1>3 DEF RInv

-----------------------------------------------------------------------------
(* Steps that leave the activations alone. *)

\* What such a step has to show: its own variables keep their types.
LEMMA Frame ==
    ASSUME RInv, TypeOK', UNCHANGED <<open, pending, ack, thread, log>>
    PROVE  RInv'
BY DEF RInv, LogTyped, PendingHasThread, Serves, ThreadsApart, Busy, AckLogged,
   ResultJustified, ToldJustified, MayFail, ChannelDropped

LEMMA DispatchBusyStep ==
    ASSUME RInv, NEW w \in Threads, NEW r \in Resources, DispatchBusy(w, r)
    PROVE  RInv'
<1>1. TypeOK'
  <2> USE DEF RInv, TypeOK, DispatchBusy
  <2>1. next_activation_id' \in Nat /\ next_activation_id' = next_activation_id + 1
    OBVIOUS
  <2>2. UNCHANGED <<open, owner, slots, streams, pending, ack, thread, log>>
    OBVIOUS
  <2>3. ASSUME NEW h \in DOMAIN streams, NEW k \in DOMAIN streams[h]
        PROVE  streams[h][k] < next_activation_id'
    <3>1. streams[h][k] < next_activation_id /\ streams[h] \in Seq(Nat)
      OBVIOUS
    <3>2. streams[h][k] \in Nat
      BY <3>1
    <3> QED BY <3>1, <3>2, <2>1
  <2>4. DOMAIN log \subseteq 0 .. next_activation_id' - 1
    BY <2>1
  <2> QED BY <2>1, <2>2, <2>3, <2>4
<1> QED BY <1>1, Frame DEF DispatchBusy

LEMMA SlotSteps ==
    ASSUME RInv, NEW h \in Sessions,
           Subscribe(h) \/ StreamDropped(h) \/ StreamEnded(h) \/ ReadEvent(h)
    PROVE  RInv'
<1>1. CASE Subscribe(h)
  <2>1. TypeOK'
    BY <1>1, RouterAssumption DEF RInv, TypeOK, Subscribe, Put
  <2> QED BY <1>1, <2>1, Frame DEF Subscribe
<1>2. CASE StreamDropped(h)
  <2>1. TypeOK'
    BY <1>2 DEF RInv, TypeOK, StreamDropped, Without
  <2> QED BY <1>2, <2>1, Frame DEF StreamDropped
<1>3. CASE StreamEnded(h)
  <2>1. TypeOK'
    BY <1>3 DEF RInv, TypeOK, StreamEnded
  <2> QED BY <1>3, <2>1, Frame DEF StreamEnded
<1>4. CASE ReadEvent(h)
  <2>1. TypeOK'
    <3> DEFINE q == streams[h]
    <3>1. q \in Seq(Nat) /\ q # <<>> /\ Len(q) <= Buffer
      BY <1>4 DEF RInv, TypeOK, ReadEvent
    <3>2. /\ Tail(q) \in Seq(Nat)
          /\ Len(Tail(q)) <= Buffer
          /\ \A k \in DOMAIN Tail(q) : k + 1 \in DOMAIN q /\ Tail(q)[k] = q[k + 1]
      BY <3>1, RouterAssumption
    <3>3. \A k \in DOMAIN Tail(q) : Tail(q)[k] < next_activation_id
      BY <1>4, <3>2 DEF RInv, TypeOK, ReadEvent
    <3> HIDE DEF q
    <3>4. streams' = [streams EXCEPT ![h] = Tail(q)] /\ h \in DOMAIN streams
      BY <1>4 DEF ReadEvent, q
    <3> QED BY <1>4, <3>2, <3>3, <3>4 DEF RInv, TypeOK, ReadEvent
  <2> QED BY <1>4, <2>1, Frame DEF ReadEvent
<1> QED BY <1>1, <1>2, <1>3, <1>4

LEMMA OwnerSteps ==
    ASSUME RInv, NEW r \in Resources,
           \/ \E w \in Threads : DispatchNoSubscriber(w, r)
           \/ \E h \in Sessions : Register(r, h)
           \/ Unregister(r)
    PROVE  RInv'
<1>1. ASSUME NEW w \in Threads, DispatchNoSubscriber(w, r) PROVE RInv'
  <2>1. TypeOK'
    BY <1>1 DEF RInv, TypeOK, DispatchNoSubscriber
  <2> QED BY <1>1, <2>1, Frame DEF DispatchNoSubscriber
<1>2. ASSUME NEW h \in Sessions, Register(r, h) PROVE RInv'
  <2>1. TypeOK'
    BY <1>2 DEF RInv, TypeOK, Register, Put
  <2> QED BY <1>2, <2>1, Frame DEF Register
<1>3. CASE Unregister(r)
  <2>1. TypeOK'
    BY <1>3 DEF RInv, TypeOK, Unregister, Without
  <2> QED BY <1>3, <2>1, Frame DEF Unregister
<1> QED BY <1>1, <1>2, <1>3

-----------------------------------------------------------------------------
(* Steps of an activation. *)

LEMMA DispatchStep ==
    ASSUME RInv, NEW w \in Threads, NEW r \in Resources, Dispatch(w, r)
    PROVE  RInv'
<1> DEFINE h == owner[r]
           a == next_activation_id
           e == [session |-> h, acks |-> <<>>, told |-> "none", timed_out |-> FALSE]
<1>1. /\ a \in Nat /\ a \notin DOMAIN log
      /\ h \in open /\ h \in Sessions /\ h \in DOMAIN streams /\ Len(streams[h]) < Buffer
      /\ thread[w].phase = "idle"
  BY DEF RInv, TypeOK, Dispatch, ActivationFor, HasRoom
<1>2. /\ streams' = [streams EXCEPT ![h] = Append(@, a)]
      /\ pending' = Put(pending, a, h)
      /\ ack' = Put(ack, a, "none")
      /\ thread' = [thread EXCEPT ![w] = [phase |-> "waiting", act |-> a]]
      /\ log' = Put(log, a, e)
      /\ next_activation_id' = a + 1
      /\ UNCHANGED <<open, owner, slots>>
  BY DEF Dispatch
<1>3. e \in LogEntry
  BY <1>1 DEF LogEntry, Outcome
<1> HIDE DEF a, h
<1>4. TypeOK'
  <2>1. /\ open' \subseteq Sessions /\ DOMAIN owner' \subseteq Resources
        /\ \A x \in DOMAIN owner' : owner'[x] \in open'
        /\ slots' \subseteq open'
    BY <1>2 DEF RInv, TypeOK
  <2>2. next_activation_id' \in Nat
    BY <1>1, <1>2
  <2>3. /\ DOMAIN streams' \subseteq Sessions
        /\ \A g \in DOMAIN streams' :
              /\ streams'[g] \in Seq(Nat)
              /\ Len(streams'[g]) <= Buffer
              /\ \A k \in DOMAIN streams'[g] : streams'[g][k] < next_activation_id'
    <3>1. /\ DOMAIN streams \subseteq Sessions
          /\ \A g \in DOMAIN streams :
                /\ streams[g] \in Seq(Nat)
                /\ Len(streams[g]) <= Buffer
                /\ \A k \in DOMAIN streams[g] : streams[g][k] < a
      BY DEF RInv, TypeOK, a
    <3>2. \A g \in DOMAIN streams : \A k \in DOMAIN streams[g] : streams[g][k] < a + 1
      <4> SUFFICES ASSUME NEW g \in DOMAIN streams, NEW k \in DOMAIN streams[g]
                   PROVE  streams[g][k] < a + 1
        OBVIOUS
      <4>1. streams[g][k] \in Nat
        BY <3>1
      <4> QED BY <3>1, <4>1, <1>1
    <3>3. Append(streams[h], a) \in Seq(Nat) /\ Len(Append(streams[h], a)) <= Buffer
      BY <1>1, <3>1, RouterAssumption
    <3>4. \A k \in DOMAIN Append(streams[h], a) : Append(streams[h], a)[k] < a + 1
      BY <1>1, <3>1, <3>2
    <3> QED BY <1>1, <1>2, <3>1, <3>2, <3>3, <3>4
  <2>4. /\ DOMAIN log' \subseteq 0 .. next_activation_id' - 1
        /\ DOMAIN ack' = DOMAIN log'
        /\ \A x \in DOMAIN log' : ack'[x] \in Outcome \cup {"none"}
    BY <1>1, <1>2 DEF RInv, TypeOK, Put, a
  <2>5. \A x \in DOMAIN log' :
          /\ log'[x].session \in Sessions
          /\ log'[x].told \in Outcome \cup {"none"}
          /\ log'[x].timed_out \in BOOLEAN
    BY <1>1, <1>2, <1>3 DEF RInv, LogTyped, LogEntry, Put
  <2>6. DOMAIN pending' \subseteq DOMAIN log' /\ \A x \in DOMAIN pending' : pending'[x] \in Sessions
    BY <1>1, <1>2 DEF RInv, TypeOK, Put
  <2>7. thread' \in [Threads -> [phase : {"idle"}]
                             \cup [phase : {"waiting"}, act : Nat]
                             \cup [phase : {"cleanup"}, act : Nat, result : {"ok", "err"}]]
    BY <1>1, <1>2 DEF RInv, TypeOK
  <2> QED BY <2>1, <2>2, <2>3, <2>4, <2>5, <2>6, <2>7 DEF TypeOK
<1>5. LogTyped'
  BY <1>2, <1>3 DEF RInv, LogTyped, Put
<1>6. a \notin DOMAIN pending /\ a \notin DOMAIN ack
  BY <1>1 DEF RInv, TypeOK
<1>7. PendingHasThread'
  BY <1>1, <1>2, <1>6 DEF RInv, TypeOK, PendingHasThread, Serves, Put
<1>8. ThreadsApart'
  BY <1>1, <1>2 DEF RInv, TypeOK, ThreadsApart, Busy, Put
<1>9. AckLogged'
  BY <1>1, <1>2, <1>6 DEF RInv, TypeOK, AckLogged, Put
<1>10. ResultJustified' /\ ToldJustified'
  BY <1>1, <1>2, <1>6 DEF RInv, TypeOK, ThreadsApart, Busy, ResultJustified, ToldJustified,
     MayFail, ChannelDropped, Put
<1> QED BY <1>4, <1>5, <1>7, <1>8, <1>9, <1>10 DEF RInv

\* The activation a busy thread serves is logged.
LEMMA ServedIsLogged ==
    ASSUME RInv, NEW w \in Threads, thread[w].phase # "idle"
    PROVE  /\ thread[w].act \in DOMAIN log
           /\ thread[w].act \in DOMAIN ack
           /\ log[thread[w].act].told = "none"
           /\ log[thread[w].act] \in LogEntry
BY DEF RInv, TypeOK, ThreadsApart, Busy, LogTyped

\* A thread that goes from the wait to the cleanup carries a justified result.
LEMMA AnswerStep ==
    ASSUME RInv, NEW w \in Threads, NEW result \in {"ok", "err"},
           thread[w].phase = "waiting", Answer(w, result),
           UNCHANGED <<open, owner, slots, streams, pending, ack, next_activation_id, log>>,
           result = "ok" => ack[thread[w].act] = "success",
           result = "err" => MayFail(thread[w].act)
    PROVE  RInv'
<1>1. thread' = [thread EXCEPT ![w] = [phase |-> "cleanup", act |-> thread[w].act,
                                       result |-> result]]
  BY DEF Answer
<1>2. thread[w].act \in Nat
  BY DEF RInv, TypeOK
<1>3. TypeOK' /\ LogTyped'
  BY <1>1, <1>2 DEF RInv, TypeOK, LogTyped
<1>4. PendingHasThread' /\ ThreadsApart'
  BY <1>1 DEF RInv, TypeOK, PendingHasThread, Serves, ThreadsApart, Busy
<1>5. AckLogged' /\ ToldJustified'
  BY DEF RInv, AckLogged, ToldJustified, MayFail, ChannelDropped
<1>6. ResultJustified'
  BY <1>1 DEF RInv, TypeOK, ResultJustified, MayFail, ChannelDropped
<1> QED BY <1>3, <1>4, <1>5, <1>6 DEF RInv

LEMMA RecvAckStep ==
    ASSUME RInv, NEW w \in Threads, RecvAck(w)
    PROVE  RInv'
<1> DEFINE o == ack[thread[w].act]
<1>1. o \in Outcome /\ Returned(o) \in {"ok", "err"}
  BY DEF RecvAck, Returned
<1>2. /\ Returned(o) = "ok" => o = "success"
      /\ Returned(o) = "err" => o = "failure"
  BY <1>1 DEF Returned, Outcome
<1>3. Returned(o) = "err" => MayFail(thread[w].act)
  BY <1>2 DEF MayFail
<1> QED BY <1>1, <1>2, <1>3, AnswerStep DEF RecvAck

LEMMA RecvDisconnectedStep ==
    ASSUME RInv, NEW w \in Threads, RecvDisconnected(w)
    PROVE  RInv'
<1>1. MayFail(thread[w].act)
  BY DEF RecvDisconnected, MayFail
<1> QED BY <1>1, AnswerStep DEF RecvDisconnected

LEMMA RecvTimeoutStep ==
    ASSUME RInv, NEW w \in Threads, RecvTimeout(w)
    PROVE  RInv'
<1> DEFINE a == thread[w].act
<1>1. /\ a \in DOMAIN log /\ a \in Nat /\ log[a] \in LogEntry /\ log[a].told = "none"
      /\ thread[w].phase = "waiting"
  BY ServedIsLogged DEF RInv, TypeOK, RecvTimeout
<1>2. /\ thread' = [thread EXCEPT ![w] = [phase |-> "cleanup", act |-> a, result |-> "err"]]
      /\ log' = [log EXCEPT ![a].timed_out = TRUE]
      /\ UNCHANGED <<open, owner, slots, streams, pending, ack, next_activation_id>>
  BY DEF RecvTimeout, Answer
<1> HIDE DEF a
<1>3. LogTyped' /\ DOMAIN log' = DOMAIN log
  BY <1>1, <1>2 DEF RInv, LogTyped, LogEntry
<1>4. /\ \A x \in DOMAIN log : x # a => log'[x] = log[x]
      /\ log'[a].session = log[a].session /\ log'[a].acks = log[a].acks
      /\ log'[a].told = log[a].told /\ log'[a].timed_out
  BY <1>1, <1>2 DEF LogEntry
<1>5. \A x \in DOMAIN log : log'[x].session = log[x].session /\ log'[x].acks = log[x].acks
                            /\ log'[x].told = log[x].told
                            /\ (log[x].timed_out => log'[x].timed_out)
  BY <1>4
<1>6. TypeOK'
  BY <1>1, <1>2, <1>3 DEF RInv, TypeOK, LogTyped, LogEntry
<1>7. PendingHasThread' /\ ThreadsApart'
  BY <1>1, <1>2, <1>3, <1>5 DEF RInv, TypeOK, PendingHasThread, Serves, ThreadsApart, Busy, a
<1>8. AckLogged'
  BY <1>2, <1>3, <1>5 DEF RInv, TypeOK, AckLogged
<1>9. ResultJustified'
  BY <1>1, <1>2, <1>4, <1>5 DEF RInv, TypeOK, ResultJustified, MayFail, ChannelDropped,
     ThreadsApart, Busy, a
<1>10. ToldJustified'
  BY <1>2, <1>3, <1>5 DEF RInv, ToldJustified, MayFail, ChannelDropped
<1> QED BY <1>3, <1>6, <1>7, <1>8, <1>9, <1>10 DEF RInv

LEMMA CleanupStep ==
    ASSUME RInv, NEW w \in Threads, Cleanup(w)
    PROVE  RInv'
<1> DEFINE a == thread[w].act
           t == ActivationTrampoline(thread[w].result)
<1>1. /\ a \in DOMAIN log /\ log[a] \in LogEntry /\ log[a].told = "none"
      /\ thread[w].phase = "cleanup" /\ thread[w].result \in {"ok", "err"}
  BY ServedIsLogged DEF RInv, TypeOK, Cleanup
<1>2. /\ pending' = Without(pending, {a})
      /\ log' = [log EXCEPT ![a].told = t]
      /\ thread' = [thread EXCEPT ![w] = Idle]
      /\ UNCHANGED <<open, owner, slots, streams, ack, next_activation_id>>
  BY DEF Cleanup, CleanupPending
<1>3. /\ t \in Outcome
      /\ t = "success" => ack[a] = "success"
      /\ t = "failure" => MayFail(a)
  BY <1>1 DEF ActivationTrampoline, Outcome, RInv, ResultJustified
<1> HIDE DEF a, t
<1>4. LogTyped' /\ DOMAIN log' = DOMAIN log
  BY <1>1, <1>2, <1>3 DEF RInv, LogTyped, LogEntry
<1>5. /\ \A x \in DOMAIN log : x # a => log'[x] = log[x]
      /\ log'[a].session = log[a].session /\ log'[a].acks = log[a].acks
      /\ log'[a].told = t /\ log'[a].timed_out = log[a].timed_out
  BY <1>1, <1>2 DEF LogEntry
<1>6. DOMAIN pending' = DOMAIN pending \ {a} /\ \A x \in DOMAIN pending' : pending'[x] = pending[x]
  BY <1>2 DEF Without
<1>7. \A x \in DOMAIN log : MayFail(x) => MayFail(x)'
  BY <1>2, <1>5, <1>6 DEF MayFail, ChannelDropped
<1>8. TypeOK'
  BY <1>1, <1>2, <1>4, <1>6 DEF RInv, TypeOK, LogTyped, LogEntry, Idle
<1>9. /\ \A v \in Threads : v # w => thread'[v] = thread[v]
      /\ thread'[w].phase = "idle"
      /\ \A v \in Threads : v # w /\ Busy(v) => thread[v].act # a
  BY <1>1, <1>2 DEF RInv, TypeOK, ThreadsApart, Busy, a, Idle
<1>10. PendingHasThread'
  <2> SUFFICES ASSUME NEW x \in DOMAIN pending'
               PROVE  /\ pending'[x] = log'[x].session
                      /\ pending'[x] \in open'
                      /\ log'[x].told = "none"
                      /\ \E v \in Threads : thread'[v].phase # "idle" /\ thread'[v].act = x
    BY DEF PendingHasThread, Serves
  <2>1. /\ x \in DOMAIN pending /\ x # a /\ pending'[x] = pending[x]
        /\ x \in DOMAIN log /\ log'[x] = log[x]
    BY <1>5, <1>6 DEF RInv, TypeOK
  <2>2. PICK v \in Threads : thread[v].phase # "idle" /\ thread[v].act = x
    BY <2>1 DEF RInv, PendingHasThread, Serves
  <2>3. v # w /\ thread'[v] = thread[v]
    BY <2>1, <2>2, <1>9 DEF a
  <2> QED BY <1>2, <2>1, <2>2, <2>3 DEF RInv, PendingHasThread
<1>11. ThreadsApart'
  BY <1>4, <1>5, <1>9 DEF RInv, TypeOK, ThreadsApart, Busy
<1>12. AckLogged'
  BY <1>2, <1>4, <1>5, <1>6 DEF RInv, AckLogged
<1>13. ResultJustified'
  BY <1>2, <1>7, <1>9 DEF RInv, ResultJustified, ThreadsApart, Busy
<1>14. ToldJustified'
  BY <1>2, <1>3, <1>4, <1>5, <1>7 DEF RInv, ToldJustified
<1> QED BY <1>4, <1>8, <1>10, <1>11, <1>12, <1>13, <1>14 DEF RInv

\* An ack comes at most once, from the session the event went to, while the
\* thread still serves the activation.
LEMMA AckActivationStep ==
    ASSUME RInv, NEW h \in Sessions, NEW a \in DOMAIN pending, NEW outcome \in Outcome,
           AckActivation(h, a, outcome)
    PROVE  RInv'
<1> DEFINE e == [by |-> h, outcome |-> outcome]
<1>1. /\ a \in DOMAIN log /\ a \in DOMAIN ack /\ log[a] \in LogEntry
      /\ ack[a] = "none" /\ log[a].acks = <<>> /\ log[a].session = h /\ log[a].told = "none"
  BY DEF RInv, TypeOK, LogTyped, PendingHasThread, AckLogged, AckActivation, Owns
<1>2. /\ pending' = Without(pending, {a})
      /\ ack' = [ack EXCEPT ![a] = outcome]
      /\ log' = [log EXCEPT ![a].acks = Append(@, e)]
      /\ UNCHANGED <<open, owner, slots, streams, thread, next_activation_id>>
  BY DEF AckActivation
<1>3. /\ Append(<<>>, e) = <<e>>
      /\ <<e>> \in Seq([by : Sessions, outcome : Outcome])
  OBVIOUS
<1> HIDE DEF e
<1>4. /\ \A x \in DOMAIN log : x # a => log'[x] = log[x] /\ ack'[x] = ack[x]
      /\ DOMAIN log' = DOMAIN log /\ DOMAIN ack' = DOMAIN ack
      /\ ack'[a] = outcome
      /\ log'[a] = [log[a] EXCEPT !.acks = <<e>>]
  BY <1>1, <1>2, <1>3 DEF RInv, TypeOK
<1>5. /\ log'[a].session = log[a].session /\ log'[a].acks = <<e>>
      /\ log'[a].told = log[a].told /\ log'[a].timed_out = log[a].timed_out
      /\ log'[a] \in LogEntry
  BY <1>1, <1>3, <1>4 DEF LogEntry
<1>6. DOMAIN pending' = DOMAIN pending \ {a} /\ \A x \in DOMAIN pending' : pending'[x] = pending[x]
  BY <1>2 DEF Without
<1>7. LogTyped'
  BY <1>4, <1>5 DEF RInv, LogTyped
<1>8. TypeOK'
  BY <1>2, <1>4, <1>5, <1>6 DEF RInv, TypeOK, LogEntry
<1>9. PendingHasThread'
  BY <1>2, <1>4, <1>6 DEF RInv, TypeOK, PendingHasThread, Serves
<1>10. ThreadsApart'
  BY <1>2, <1>4, <1>5 DEF RInv, TypeOK, ThreadsApart, Busy
<1>11. AckLogged'
  <2>1. outcome # "none"
    BY DEF Outcome
  <2>2. ASSUME NEW x \in DOMAIN log'
        PROVE  log'[x].acks = IF ack'[x] = "none" THEN <<>>
                              ELSE <<[by |-> log'[x].session, outcome |-> ack'[x]]>>
    <3>1. CASE x = a
      BY <1>1, <1>4, <1>5, <2>1, <3>1 DEF e
    <3>2. CASE x # a
      BY <1>4, <3>2 DEF RInv, AckLogged
    <3> QED BY <3>1, <3>2
  <2>3. \A x \in DOMAIN pending' : ack'[x] = "none"
    BY <1>4, <1>6 DEF RInv, TypeOK, AckLogged
  <2> QED BY <2>2, <2>3 DEF AckLogged
<1>12. \A x \in DOMAIN log : x # a => (MayFail(x) => MayFail(x)')
  BY <1>4, <1>6 DEF MayFail, ChannelDropped
<1>13. log[a].timed_out => MayFail(a)'
  BY <1>5 DEF MayFail
<1>14. MayFail(a) => log[a].timed_out
  BY <1>1 DEF MayFail, ChannelDropped
<1>15. \A x \in DOMAIN log : /\ MayFail(x) => MayFail(x)'
                             /\ ack[x] = "success" => ack'[x] = "success"
  BY <1>1, <1>4, <1>12, <1>13, <1>14
<1>16. ResultJustified'
  BY <1>2, <1>15 DEF RInv, ResultJustified, ThreadsApart, Busy
<1>17. ToldJustified'
  BY <1>4, <1>5, <1>15 DEF RInv, ToldJustified
<1> QED BY <1>7, <1>8, <1>9, <1>10, <1>11, <1>16, <1>17 DEF RInv

LEMMA CloseSessionStep ==
    ASSUME RInv, NEW h \in Sessions, CloseSession(h)
    PROVE  RInv'
<1>1. /\ open' = open \ {h}
      /\ slots' = slots \ {h}
      /\ UNCHANGED <<streams, ack, thread, next_activation_id, log>>
      /\ DOMAIN pending' = {a \in DOMAIN pending : pending[a] # h}
      /\ \A a \in DOMAIN pending' : pending'[a] = pending[a]
      /\ DOMAIN owner' = {r \in DOMAIN owner : owner[r] # h}
      /\ \A r \in DOMAIN owner' : owner'[r] = owner[r]
  BY DEF CloseSession, Without
<1>2. TypeOK'
  BY <1>1 DEF RInv, TypeOK
<1>3. PendingHasThread'
  BY <1>1 DEF RInv, PendingHasThread, Serves
<1>4. LogTyped' /\ ThreadsApart' /\ AckLogged'
  BY <1>1 DEF RInv, LogTyped, ThreadsApart, Busy, AckLogged
<1>5. ResultJustified' /\ ToldJustified'
  BY <1>1 DEF RInv, ResultJustified, ToldJustified, MayFail, ChannelDropped
<1> QED BY <1>2, <1>3, <1>4, <1>5 DEF RInv

-----------------------------------------------------------------------------
LEMMA RInvStep == RInv /\ [Next]_vars => RInv'
<1> SUFFICES ASSUME RInv, [Next]_vars PROVE RInv'
  OBVIOUS
<1>1. CASE UNCHANGED vars
  BY <1>1, Frame DEF vars, RInv, TypeOK
<1>2. ASSUME NEW w \in Threads, NEW r \in Resources,
             Dispatch(w, r) \/ DispatchBusy(w, r) \/ DispatchNoSubscriber(w, r)
      PROVE  RInv'
  BY <1>2, DispatchStep, DispatchBusyStep, OwnerSteps
<1>3. ASSUME NEW w \in Threads, ThreadStep(w) PROVE RInv'
  BY <1>3, RecvAckStep, RecvTimeoutStep, RecvDisconnectedStep, CleanupStep DEF ThreadStep
<1>4. ASSUME NEW h \in Sessions,
             Subscribe(h) \/ StreamDropped(h) \/ StreamEnded(h) \/ ReadEvent(h)
      PROVE  RInv'
  BY <1>4, SlotSteps
<1>5. ASSUME NEW h \in Sessions, CloseSession(h) PROVE RInv'
  BY <1>5, CloseSessionStep
<1>6. ASSUME NEW h \in Sessions, NEW a \in DOMAIN pending, NEW outcome \in Outcome,
             AckActivation(h, a, outcome)
      PROVE  RInv'
  BY <1>6, AckActivationStep
<1>7. ASSUME NEW h \in Sessions, NEW r \in Resources, Register(r, h) PROVE RInv'
  BY <1>7, OwnerSteps
<1>8. ASSUME NEW r \in Resources, Unregister(r) PROVE RInv'
  BY <1>8, OwnerSteps
<1> QED BY <1>1, <1>2, <1>3, <1>4, <1>5, <1>6, <1>7, <1>8 DEF Next

LEMMA RInvAlways == Spec => []RInv
BY InitRInv, RInvStep, PTL DEF Spec

\* Whatever order acks, timeouts, cleanups, dropped streams and close_session
\* come in, pending_activations holds no entry that no thread waits for, none of
\* a closed session and none of a session the event was not sent to, and no
\* stream holds more than its buffer.
THEOREM RouterCorrect == Spec => []RouterInv
<1>1. RInv => RouterInv
  BY DEF RInv, RouterInv
<1> QED BY <1>1, RInvAlways, PTL

\* What the history says of an answered activation.
LEMMA RInvOutcome == RInv => OutcomeFaithful
<1> SUFFICES ASSUME RInv, NEW a \in DOMAIN log
             PROVE  /\ Len(log[a].acks) <= 1
                    /\ log[a].told = "success" =>
                          /\ Len(log[a].acks) = 1
                          /\ log[a].acks[1] = [by |-> log[a].session, outcome |-> "success"]
                    /\ log[a].acks # <<>> /\ log[a].told # "none"
                       /\ log[a].told # log[a].acks[1].outcome => log[a].timed_out
  BY DEF OutcomeFaithful, SuccessIsAcknowledged, OnlyTimeoutLosesAck
<1>1. /\ log[a].told \in {"success", "failure", "none"}
      /\ log[a].told = "success" => ack[a] = "success"
      /\ log[a].told = "failure" => MayFail(a)
      /\ ack[a] \in {"success", "failure", "none"}
  BY DEF RInv, TypeOK, ToldJustified, Outcome
<1>2. CASE ack[a] = "none"
  <2>1. log[a].acks = <<>>
    BY <1>2 DEF RInv, AckLogged
  <2> QED BY <1>1, <1>2, <2>1
<1>3. CASE ack[a] # "none"
  <2>1. log[a].acks = <<[by |-> log[a].session, outcome |-> ack[a]]>>
    BY <1>3 DEF RInv, AckLogged
  <2>2. log[a].told = "failure" /\ ack[a] = "success" => log[a].timed_out
    BY <1>1 DEF MayFail, ChannelDropped
  <2> QED BY <1>1, <1>3, <2>1, <2>2
<1> QED BY <1>2, <1>3

\* The controller is told success only for a success the owning session
\* acknowledged, once; and route_activation withholds an accepted success only
\* when its recv_timeout had already given up.
THEOREM OutcomeCorrect == Spec => []OutcomeFaithful
BY RInvOutcome, RInvAlways, PTL
=============================================================================
