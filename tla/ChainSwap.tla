------------------------------ MODULE ChainSwap ------------------------------
(***************************************************************************)
(* The swap of the inner chain behind the anchor of a playing nmossink or   *)
(* nmossrc (inner.rs: rebuild_chain_with_opts).                             *)
(*                                                                          *)
(* A swapping thread holds the element's `ghost` mutex for the whole swap.  *)
(* It works against one streaming thread.  On a sink bin that thread is     *)
(* upstream's: it pushes through the anchor into the linked chain.  On a    *)
(* source bin it is the task of the chain itself: it waits in create() and  *)
(* pushes through the anchor.  Either may post an ERROR, which is handled   *)
(* on the posting thread under the same mutex and may ask for a swap back   *)
(* to a fake chain.                                                         *)
(*                                                                          *)
(* GStreamer is modelled by what the code relies on: a probe blocks pushes  *)
(* and fires when the pad is idle, set_state(Null) on a source waits for    *)
(* its task, flushing wakes a clock wait.  A time-out of the code is taken  *)
(* to be long: it fires only when the thread it waits for cannot move.      *)
(* Nothing is assumed of what is outside the bin: upstream need not push,   *)
(* the network need not bring data, downstream may keep a buffer.           *)
(***************************************************************************)
EXTENDS Naturals, FiniteSets

CONSTANTS
    MaxSwaps,     \* swaps that are asked for
    MaxFailures,  \* steps of a swap that fail
    MaxErrors     \* ERROR messages that are posted

ASSUME BoundsAssumption ==
    /\ MaxSwaps \in Nat \ {0}
    /\ MaxFailures \in Nat /\ MaxErrors \in Nat

\* The initial chain, and for every swap the new chain and its fallback.
Chains == 1 .. (2 * MaxSwaps + 1)
None == 0

VARIABLES
    dir,      \* "sink" (nmossink) or "src" (nmossrc)
    chain,    \* the chains
    linked,   \* the chain the anchor is linked to, or None
    probe,    \* the block probe on the anchor: "off" or "on"
    stream,   \* the streaming thread: where it is, and in which chain
    lock,     \* the ghost mutex: "free" or "swap"
    sw,       \* the swap that holds the mutex
    restore,  \* the call_async worker after an ERROR
    cut,      \* history: a swap ended without a working chain
    budget

vars == <<dir, chain, linked, probe, stream, lock, sw, restore, cut, budget>>

-----------------------------------------------------------------------------
(* Chains.                                                                  *)

\* build_fake_sink and build_fake_src have names that end in "-fake".
NoChain == [kind |-> "none", st |-> "null", child |-> FALSE,
            drop |-> FALSE, flushing |-> FALSE,
            stopping |-> FALSE, unlocked |-> FALSE, eos |-> FALSE]

build_fake_sink == [NoChain EXCEPT !.kind = "fake"]
build_fake_src == [NoChain EXCEPT !.kind = "fake"]
Build(kind) ==
    IF kind = "real" THEN [NoChain EXCEPT !.kind = "real"]
    ELSE IF dir = "sink" THEN build_fake_sink ELSE build_fake_src

current_chain_is_real == linked # None /\ chain[linked].kind = "real"
OldIsFake == linked # None /\ chain[linked].kind = "fake"

IdleSwap == [at |-> "idle", new |-> None, fallback |-> FALSE, drain |-> FALSE, ok |-> TRUE]

\* build_initial: a fake chain behind the anchor, here already playing.
Init ==
    /\ dir \in {"sink", "src"}
    /\ chain = [c \in Chains |->
                  IF c = 1 THEN [Build("fake") EXCEPT !.st = "up", !.child = TRUE] ELSE NoChain]
    /\ linked = 1
    /\ probe = "off"
    /\ stream = IF dir = "sink" THEN [at |-> "away", in |-> None]
                ELSE [at |-> "starting", in |-> 1]
    /\ lock = "free"
    /\ sw = IdleSwap
    /\ restore = [at |-> "none", of |-> None]
    /\ cut = FALSE
    /\ budget = [swaps |-> MaxSwaps, failures |-> MaxFailures, errors |-> MaxErrors]

-----------------------------------------------------------------------------
(* The swapping thread.                                                     *)

SwapAt(p) == sw.at = p
Goto(p) == sw' = [sw EXCEPT !.at = p]
Fails == budget.failures > 0 /\ budget' = [budget EXCEPT !.failures = @ - 1]
NewChain == CHOOSE c \in Chains : chain[c].kind = "none" /\ \A d \in 1 .. c - 1 : chain[d].kind # "none"
Posts == budget.errors > 0 /\ budget' = [budget EXCEPT !.errors = @ - 1]

\* swap_inner: nmossrc may drain downstream when it swaps while playing.
swap_inner(kind, fallback) ==
    /\ lock = "free" /\ budget.swaps > 0
    /\ lock' = "swap"
    /\ \E drain \in IF dir = "src" THEN BOOLEAN ELSE {FALSE} :
         sw' = [at |-> "flush", new |-> NewChain, fallback |-> fallback, drain |-> drain, ok |-> TRUE]
    /\ chain' = [chain EXCEPT ![NewChain] = Build(kind)]
    /\ budget' = [budget EXCEPT !.swaps = @ - 1]
    /\ UNCHANGED <<dir, linked, probe, stream, cut>>

\* Planned swaps of nmossink have a fallback; its fake hops, the swaps of
\* its state changes and those of nmossrc have none.
Activate ==
    /\ \E kind \in {"real", "fake"}, fallback \in {FALSE, dir = "sink"} :
         swap_inner(kind, fallback)
    /\ UNCHANGED restore

\* Flushing makes a push that waits downstream return.
flush_external_of_ghost ==
    /\ SwapAt("flush")
    /\ stream' = IF sw.drain /\ stream.at = "push" THEN [stream EXCEPT !.at = "paused"] ELSE stream
    /\ Goto(IF dir = "sink" THEN "drop" ELSE "eos")
    /\ UNCHANGED <<dir, chain, linked, probe, lock, restore, cut, budget>>

\* Mutant: the clock wait of the outgoing fake sink is left alone.
release_fake_sink_clock_wait_Skipped ==
    /\ SwapAt("drop")
    /\ Goto("block")
    /\ UNCHANGED <<dir, chain, linked, probe, stream, lock, restore, cut, budget>>

\* Mutant: the sink flushes while the valve is open.
release_fake_sink_clock_wait_NoDrop ==
    /\ SwapAt("drop")
    /\ Goto(IF OldIsFake THEN "wake" ELSE "block")
    /\ UNCHANGED <<dir, chain, linked, probe, stream, lock, restore, cut, budget>>

\* The valve drops before the sink flushes.
release_fake_sink_clock_wait ==
    /\ SwapAt("drop")
    /\ IF OldIsFake
       THEN chain' = [chain EXCEPT ![linked].drop = TRUE] /\ Goto("wake")
       ELSE Goto("block") /\ UNCHANGED chain
    /\ UNCHANGED <<dir, linked, probe, stream, lock, restore, cut, budget>>

FlushFakeSink ==
    /\ SwapAt("wake")
    /\ chain' = [chain EXCEPT ![linked].flushing = TRUE]
    /\ Goto("block")
    /\ UNCHANGED <<dir, linked, probe, stream, lock, restore, cut, budget>>

\* End-of-stream ends the create() of the outgoing fake source for good.
release_fake_src_create_wait ==
    /\ SwapAt("eos")
    /\ chain' = IF OldIsFake THEN [chain EXCEPT ![linked].eos = TRUE] ELSE chain
    /\ Goto(IF linked = None THEN "block" ELSE "unlock")
    /\ UNCHANGED <<dir, linked, probe, stream, lock, restore, cut, budget>>

\* stop_chain of a source: set_state(Null) unlocks create() and waits for
\* the task.
UnlockSource ==
    /\ SwapAt("unlock")
    /\ chain' = [chain EXCEPT ![linked].unlocked = TRUE, ![linked].stopping = TRUE]
    /\ Goto("join")
    /\ UNCHANGED <<dir, linked, probe, stream, lock, restore, cut, budget>>

TaskEnded == stream.at \in {"none", "paused"}

StopSource ==
    /\ SwapAt("join") /\ TaskEnded
    /\ \/ /\ chain' = [chain EXCEPT ![linked].st = "null"]
          /\ stream' = [at |-> "none", in |-> None]
          /\ Goto("block")
          /\ UNCHANGED budget
       \/ /\ Fails
          /\ sw' = [sw EXCEPT !.at = "return", !.ok = FALSE]
          /\ UNCHANGED <<chain, stream>>
    /\ UNCHANGED <<dir, linked, probe, lock, restore, cut>>

\* block_and_wait: the probe is installed, and fires when nothing is inside.
InstallProbe ==
    /\ SwapAt("block")
    /\ probe' = "on"
    /\ Goto("blocking")
    /\ UNCHANGED <<dir, chain, linked, stream, lock, restore, cut, budget>>

Inside == stream.at \in {"in", "clock", "post"} /\ dir = "sink"

ProbeFired ==
    /\ SwapAt("blocking") /\ ~Inside
    /\ Goto("unlink")
    /\ UNCHANGED <<dir, chain, linked, probe, stream, lock, restore, cut, budget>>

\* The thread inside cannot leave: it waits for the clock, for the mutex,
\* or in a transport that does not take the buffer.
ProbeTimeout ==
    /\ SwapAt("blocking") /\ Inside
    /\ ~chain[stream.in].flushing
    /\ \/ stream.at \in {"clock", "post"}
       \/ stream.at = "in" /\ chain[stream.in].kind = "real"
    /\ probe' = "off"
    /\ sw' = [sw EXCEPT !.at = "return", !.ok = FALSE]
    /\ UNCHANGED <<dir, chain, linked, stream, lock, restore, cut, budget>>

\* stop_chain and Bin::remove of the chain that was linked.
StopOld(c) == [chain[c] EXCEPT !.st = "null", !.child = FALSE]

\* swap_chain_inner: unlink, stop and remove the old chain, if there is one.
swap_chain_inner ==
    /\ SwapAt("unlink")
    /\ linked' = None
    /\ \/ linked = None /\ Goto("add") /\ UNCHANGED <<chain, budget>>
       \/ /\ linked # None
          /\ chain' = [chain EXCEPT ![linked] = StopOld(linked)]
          /\ Goto("add")
          /\ UNCHANGED budget
       \/ linked # None /\ Fails
          /\ sw' = [sw EXCEPT !.at = "unblock", !.ok = FALSE]
          /\ UNCHANGED chain
       \/ linked # None /\ Posts /\ Goto("selfpost") /\ UNCHANGED chain
    /\ UNCHANGED <<dir, probe, stream, lock, restore, cut>>

\* install_new_chain: add and link; after a failed link the chain is gone.
install_new_chain ==
    /\ SwapAt("add")
    /\ \/ /\ chain' = [chain EXCEPT ![sw.new].child = TRUE]
          /\ linked' = sw.new
          /\ Goto(IF dir = "src" THEN "ready" ELSE "advance")
          /\ UNCHANGED budget
       \/ Fails /\ Goto("fallback") /\ UNCHANGED <<chain, linked>>
    /\ UNCHANGED <<dir, probe, stream, lock, restore, cut>>

\* ready_chain: as far as a source may go under the probe.
ready_chain ==
    /\ SwapAt("ready")
    /\ \/ chain' = [chain EXCEPT ![sw.new].st = "ready"] /\ Goto("unblock") /\ UNCHANGED budget
       \/ Fails /\ Goto("fallback") /\ UNCHANGED chain
       \/ Posts /\ Goto("selfpost") /\ UNCHANGED chain
    /\ UNCHANGED <<dir, linked, probe, stream, lock, restore, cut>>

\* advance_chain_to_parent_target of a sink, under the probe.
AdvanceSink ==
    /\ SwapAt("advance") /\ dir = "sink"
    /\ \/ chain' = [chain EXCEPT ![sw.new].st = "up"] /\ Goto("unblock") /\ UNCHANGED budget
       \/ Fails /\ Goto("fallback") /\ UNCHANGED chain
       \/ Posts /\ Goto("selfpost") /\ UNCHANGED chain
    /\ UNCHANGED <<dir, linked, probe, stream, lock, restore, cut>>

\* The failed sink gives way to the fallback, unless that cannot be built; a
\* source stays as it failed.
link_fallback_sink ==
    /\ SwapAt("fallback")
    /\ IF dir = "sink" /\ sw.fallback
       THEN \/ /\ linked' = NewChain
               /\ chain' = [chain EXCEPT
                     ![sw.new] = StopOld(sw.new),
                     ![NewChain] = [build_fake_sink EXCEPT !.st = "up", !.child = TRUE]]
               /\ UNCHANGED <<cut, budget>>
            \/ /\ Fails
               /\ cut' = TRUE
               /\ \/ UNCHANGED <<linked, chain>>
                  \/ /\ linked' = None
                     /\ chain' = [chain EXCEPT ![sw.new] = StopOld(sw.new)]
       ELSE cut' = TRUE /\ UNCHANGED <<linked, chain, budget>>
    /\ sw' = [sw EXCEPT !.at = "unblock", !.ok = FALSE]
    /\ UNCHANGED <<dir, probe, stream, lock, restore>>

\* Mutant: the source advances to its target before the probe is removed.
RemoveProbe_SourceFirst ==
    /\ SwapAt("unblock")
    /\ IF dir = "src" /\ sw.ok THEN Goto("advance") /\ UNCHANGED <<probe, cut>>
       ELSE Goto("return") /\ probe' = "off" /\ cut' = (cut \/ (~sw.ok /\ linked = None))
    /\ UNCHANGED <<dir, chain, linked, stream, lock, restore, budget>>

\* The probe goes on every path; StateSync::AfterUnblock is a source's.
RemoveProbe ==
    /\ SwapAt("unblock")
    /\ probe' = "off"
    /\ cut' = (cut \/ (~sw.ok /\ linked = None))
    /\ Goto(IF dir = "src" /\ sw.ok THEN "advance" ELSE "return")
    /\ UNCHANGED <<dir, chain, linked, stream, lock, restore, budget>>

\* advance_chain_to_parent_target of a source: start() pushes CAPS through
\* the anchor on this thread, and the task begins.
AdvanceSource ==
    /\ SwapAt("advance") /\ dir = "src" /\ probe = "off"
    /\ \/ /\ chain' = [chain EXCEPT ![sw.new].st = "up"]
          /\ stream' = [at |-> "starting", in |-> sw.new]
          /\ Goto("return")
          /\ UNCHANGED <<budget, cut>>
       \/ /\ Fails
          /\ sw' = [sw EXCEPT !.at = "return", !.ok = FALSE]
          /\ cut' = TRUE
          /\ UNCHANGED <<chain, stream>>
       \/ Posts /\ Goto("selfpost") /\ UNCHANGED <<chain, stream, cut>>
    /\ UNCHANGED <<dir, linked, probe, lock, restore>>

ReleaseGhost ==
    /\ SwapAt("return")
    /\ lock' = "free"
    /\ sw' = [IdleSwap EXCEPT !.ok = sw.ok]
    /\ UNCHANGED <<dir, chain, linked, probe, stream, restore, cut, budget>>

-----------------------------------------------------------------------------
(* The streaming thread of a sink bin: upstream's.                          *)

Stream(p, c) == stream' = [at |-> p, in |-> c]
SinkFrame == UNCHANGED <<dir, chain, linked, probe, lock, sw, restore, cut>>

\* A buffer reaches the anchor: it waits in the probe, fails on a pad that
\* is unlinked or inactive, or enters the chain.
PushBuffer ==
    /\ dir = "sink" /\ stream.at = "away"
    /\ CASE probe = "on" -> Stream("probe", None)
         [] probe = "off" /\ linked = None -> Stream("broken", None)
         [] probe = "off" /\ linked # None ->
              IF chain[linked].st = "up" THEN Stream("in", linked) ELSE Stream("broken", None)
    /\ SinkFrame /\ UNCHANGED budget

ProbeLifted ==
    /\ stream.at = "probe" /\ probe = "off"
    /\ Stream(IF dir = "sink" THEN "away" ELSE "push", stream.in)
    /\ SinkFrame /\ UNCHANGED budget

\* The chain takes the buffer.  A fake sink drops it at the valve, waits
\* for its time, or meets a flushing pad.
Render ==
    /\ stream.at = "in"
    /\ LET c == chain[stream.in] IN
         CASE c.drop -> Stream("away", None)
           [] ~c.drop /\ c.flushing -> Stream("broken", None)
           [] OTHER -> Stream("away", None) \/ (c.kind = "fake" /\ Stream("clock", stream.in))
    /\ SinkFrame /\ UNCHANGED budget

\* The flush wakes the clock wait; the valve turns its result into OK.
Woken ==
    /\ stream.at = "clock" /\ chain[stream.in].flushing
    /\ Stream(IF chain[stream.in].drop THEN "away" ELSE "broken", None)
    /\ SinkFrame /\ UNCHANGED budget

ClockReached ==
    /\ stream.at = "clock" /\ ~chain[stream.in].flushing
    /\ Stream("away", None)
    /\ SinkFrame /\ UNCHANGED budget

-----------------------------------------------------------------------------
(* The streaming thread of a source bin: the task of the chain.             *)

\* BaseSrc runs the unlock_stop() it owes before its first create(), and
\* may so undo the unlock() of a stop that has just begun.
FirstCreate ==
    /\ stream.at = "starting"
    /\ chain' = [chain EXCEPT ![stream.in].unlocked = FALSE]
    /\ Stream("create", stream.in)
    /\ UNCHANGED <<dir, linked, probe, lock, sw, restore, cut, budget>>

\* create() returns because of the unlock, or of the end of the stream.
CreateEnds ==
    /\ stream.at = "create"
    /\ chain[stream.in].unlocked \/ chain[stream.in].eos
    /\ Stream("none", None)
    /\ SinkFrame /\ UNCHANGED budget

\* A real source produces a buffer; it waits in the probe or goes down.
Produce ==
    /\ stream.at = "create" /\ chain[stream.in].kind = "real"
    /\ ~chain[stream.in].unlocked
    /\ Stream(IF probe = "on" THEN "probe" ELSE "push", stream.in)
    /\ SinkFrame /\ UNCHANGED budget

\* The task ends between two buffers once it is to stop.
Pushed ==
    /\ stream.at = "push"
    /\ IF chain[stream.in].stopping THEN Stream("none", None) ELSE Stream("create", stream.in)
    /\ SinkFrame /\ UNCHANGED budget

-----------------------------------------------------------------------------
(* ERROR messages.                                                          *)

\* An element of a real chain posts an ERROR from the streaming thread.
PostError ==
    /\ stream.at \in {"in", "create"} /\ chain[stream.in].kind = "real"
    /\ Posts
    /\ Stream("post", stream.in)
    /\ SinkFrame

\* handle_message takes the ghost mutex on the posting thread.
handle_message ==
    /\ stream.at = "post" /\ lock = "free"
    /\ restore' = IF restore.at = "none" /\ linked = stream.in
                  THEN [at |-> "check", of |-> stream.in] ELSE restore
    /\ Stream(IF dir = "sink" THEN "away" ELSE "paused", None)
    /\ UNCHANGED <<dir, chain, linked, probe, lock, sw, cut, budget>>

\* The worker checks that the chain is still the current one, lets the
\* mutex go, and swaps.
source_is_in_current_chain ==
    /\ restore.at = "check" /\ lock = "free"
    /\ restore' = IF linked = restore.of THEN [restore EXCEPT !.at = "swap"]
                  ELSE [at |-> "none", of |-> None]
    /\ UNCHANGED <<dir, chain, linked, probe, stream, lock, sw, cut, budget>>

RestoreFake ==
    /\ restore.at = "swap"
    /\ swap_inner("fake", FALSE)
    /\ restore' = [at |-> "none", of |-> None]

-----------------------------------------------------------------------------
SwapThread ==
    \/ flush_external_of_ghost
    \/ release_fake_sink_clock_wait \/ FlushFakeSink
    \/ release_fake_src_create_wait \/ UnlockSource \/ StopSource
    \/ InstallProbe \/ ProbeFired \/ ProbeTimeout
    \/ swap_chain_inner \/ install_new_chain \/ ready_chain \/ AdvanceSink
    \/ link_fallback_sink \/ RemoveProbe \/ AdvanceSource \/ ReleaseGhost

StreamThread ==
    \/ ProbeLifted \/ Render \/ Woken
    \/ FirstCreate \/ CreateEnds \/ Produce \/ Pushed
    \/ handle_message

Next ==
    \/ Activate \/ SwapThread
    \/ PushBuffer \/ StreamThread \/ ClockReached
    \/ PostError \/ source_is_in_current_chain \/ RestoreFake

Spec == Init /\ [][Next]_vars

\* The streaming thread waits for something outside the bin: a transport that
\* takes the buffer, data from the network, or a downstream that returns from a
\* push (a swap of a playing nmossrc flushes that one).
Waits ==
    \/ stream.at = "in" /\ chain[stream.in].kind = "real"
    \/ stream.at = "create" /\ chain[stream.in].kind = "real" /\ ~chain[stream.in].unlocked
    \/ stream.at = "push" /\ ~sw.drain

\* Threads are scheduled.  What they wait for need not happen, and the clock
\* may be far away.
FairSpec == Spec /\ WF_vars(SwapThread) /\ WF_vars(StreamThread /\ ~Waits)

-----------------------------------------------------------------------------
(* Properties.                                                              *)

\* The bin is consistent: a linked chain is a child, the probe is only on
\* inside a swap, and only the swap holds the mutex.
TypeOK ==
    /\ linked \in Chains \cup {None}
    /\ linked # None => chain[linked].child
    /\ (sw.at = "idle") = (lock = "free")
    /\ probe = "on" => sw.at \notin {"idle", "return", "flush", "join"}
    /\ \A c \in Chains : chain[c].st \in {"null", "ready", "up"}

\* Two chains never run in the bin together (a transport would meet its own
\* predecessor on the same flow or port), unless a stop failed before: the
\* old chain is stopped before the new one starts.
OneRunningChain ==
    budget.failures = MaxFailures =>
        Cardinality({c \in Chains : chain[c].child /\ chain[c].st = "up"}) <= 1

\* Upstream of an nmossink never sees a flow error from a swap: not from
\* the interrupted clock wait, not from a half-started chain, and from a
\* failed swap only if it had no fallback to link or failed before it could.
FlowUnbroken == stream.at = "broken" => cut

\* A swap keeps the bin consistent, one chain running and upstream's flow whole.
SwapInv == TypeOK /\ OneRunningChain /\ FlowUnbroken

\* A fake chain never makes a swap wait out its time-out, whenever the
\* buffer came that waits for the clock in it (release_fake_sink_clock_wait).
FakeReleasesProbe ==
    [][ProbeTimeout => chain[stream.in].kind = "real"]_vars

\* A swap that cannot go on: an ERROR was posted by this thread, which holds
\* the mutex that handle_message takes, or by the source task it waits for; or
\* that task waits for the network, its first create() having undone the unlock of
\* the stop, or for a downstream that was not flushed.
Stuck ==
    \/ SwapAt("selfpost")
    \/ SwapAt("join") /\ (stream.at = "post" \/ Waits)

\* Every swap ends and frees the data path, or is stuck for good in one of the
\* ways that Stuck names: on no other order of source task, probe, stop and ERROR,
\* and on no sink that only waits, does the swap hang.  That a fake source is
\* never among them is what release_fake_src_create_wait is for.
SwapReturns == SwapAt("flush") ~> (SwapAt("idle") \/ []Stuck)
=============================================================================
