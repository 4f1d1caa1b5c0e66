-------------------------- MODULE ChainSwapProofs --------------------------
(***************************************************************************)
(* SwapInv and FakeReleasesProbe of ChainSwap for every number of swaps,    *)
(* failures and errors.                                                     *)
(*                                                                          *)
(* Neither is inductive.  CInv adds what the swap knows at each of its      *)
(* steps (Steps), which chains are still to be built (Supply), that a       *)
(* thread inside a sink chain is inside the linked one and that the linked  *)
(* chain is not touched meanwhile (InsideLinked), and what the anchor is    *)
(* linked to whenever the probe lets a buffer pass (Passable).              *)
(***************************************************************************)
EXTENDS ChainSwap, FiniteSetTheorems, TLAPS

-----------------------------------------------------------------------------
(* The inductive invariant. *)

SwapSteps == {"idle", "flush", "drop", "wake", "eos", "unlock", "join", "block",
              "blocking", "unlink", "add", "ready", "advance", "fallback", "unblock",
              "return", "selfpost"}
StreamSteps == {"away", "probe", "in", "clock", "post", "broken",
                "starting", "create", "push", "paused", "none"}

\* The steps before a fallback can have been built, those under the probe,
\* and those in which the anchor may be unlinked or about to be.
Unbuilt == {"flush", "drop", "wake", "eos", "unlock", "join", "block", "blocking",
            "unlink", "add", "ready", "fallback"}
UnderProbe == {"blocking", "unlink", "add", "ready", "fallback", "unblock"}
Cutting == {"unlink", "add", "ready", "advance", "fallback", "unblock", "selfpost"}

Chain == [kind : {"none", "real", "fake"}, st : {"null", "ready", "up"}, child : BOOLEAN,
          drop : BOOLEAN, flushing : BOOLEAN, stopping : BOOLEAN, unlocked : BOOLEAN,
          eos : BOOLEAN]

Swap == [at : SwapSteps, new : Chains \cup {None}, fallback : BOOLEAN, drain : BOOLEAN,
         ok : BOOLEAN]
Streaming == [at : StreamSteps, in : Chains \cup {None}]
Budget == [swaps : 0 .. MaxSwaps, failures : 0 .. MaxFailures, errors : 0 .. MaxErrors]

Typed ==
    /\ dir \in {"sink", "src"}
    /\ chain \in [Chains -> Chain]
    /\ linked \in Chains \cup {None}
    /\ probe \in {"on", "off"}
    /\ stream \in Streaming
    /\ lock \in {"free", "swap"}
    /\ sw \in Swap
    /\ cut \in BOOLEAN
    /\ budget \in Budget

\* Chains are built in order, and there is one for every swap to come and for
\* every fallback that may still be needed.
BuiltUpTo(n) == \A c \in Chains : chain[c].kind = "none" <=> c > n
MayFallBack == sw.at \in Unbuilt \/ (sw.at = "advance" /\ dir = "sink")
Needed == 2 * budget.swaps + (IF MayFallBack THEN 1 ELSE 0)
Supply == \E n \in Chains : BuiltUpTo(n) /\ n + Needed <= 2 * MaxSwaps + 1

\* What the swapping thread knows at its steps.
Steps ==
    /\ (sw.at = "idle") <=> (lock = "free")
    /\ probe = "on" => sw.at \in UnderProbe \cup {"advance", "selfpost"}
    /\ sw.at \in UnderProbe => probe = "on"
    /\ dir = "sink" /\ sw.at \in {"advance", "selfpost"} => probe = "on"
    /\ sw.at \in {"drop", "wake"} => dir = "sink"
    /\ sw.at \in {"eos", "unlock", "join", "ready"} => dir = "src"
    /\ sw.at \in Unbuilt \cup {"advance"} => sw.new \in Chains /\ chain[sw.new].kind # "none"
    /\ sw.at \in {"unlock", "join"} => linked # None
    /\ sw.at = "add" => linked = None
    /\ sw.at \in {"ready", "advance"} \/ (sw.at = "unblock" /\ sw.ok) =>
         linked = sw.new /\ linked # None

\* The fake sink that is swapped out drops before it flushes, and flushes
\* before the probe is waited for.
Released ==
    /\ \A c \in Chains : chain[c].flushing => chain[c].drop
    /\ sw.at = "wake" => linked # None /\ chain[linked].drop
    /\ dir = "sink" /\ sw.at \in {"block", "blocking"} /\ OldIsFake => chain[linked].flushing

\* A thread inside a sink chain is inside the linked one, which stays linked
\* while it is there; it waits for the clock in a fake chain only and posts
\* from a real one only.
InsideLinked ==
    /\ stream.at \in {"away", "in", "clock", "broken"} => dir = "sink"
    /\ stream.at \in {"starting", "create", "push", "paused", "none"} => dir = "src"
    /\ Inside => /\ stream.in = linked /\ linked # None
                 /\ sw.at \notin Cutting
                 /\ stream.at = "clock" => chain[linked].kind = "fake"
                 /\ stream.at = "post" => chain[linked].kind = "real"

\* Whatever the probe lets pass meets a chain that runs, unless the flow was
\* cut before.
Passable ==
    /\ linked = None => cut \/ probe = "on"
    /\ dir = "sink" /\ (probe = "off" \/ sw.at \in {"blocking", "unlink"}) /\ linked # None
         => cut \/ chain[linked].st = "up"
    /\ dir = "sink" /\ sw.at = "unblock" /\ linked # None => cut \/ chain[linked].st = "up"

\* As long as nothing failed, the linked chain is the only child of the bin.
OneChild ==
    budget.failures = MaxFailures =>
        /\ sw.at # "fallback"
        /\ \A c, d \in Chains : chain[c].child /\ chain[d].child => c = d
        /\ sw.at # "selfpost" => \A c \in Chains : chain[c].child => c = linked

LinkedIsChild == linked # None => chain[linked].child /\ chain[linked].kind # "none"

CInv ==
    /\ Typed /\ Supply /\ Steps /\ Released /\ InsideLinked /\ Passable
    /\ OneChild /\ LinkedIsChild /\ FlowUnbroken

-----------------------------------------------------------------------------
(* Chains and records. *)

LEMMA ChainsAre ==
    /\ 1 \in Chains /\ None \notin Chains
    /\ \A c \in Chains : c \in Nat /\ c >= 1 /\ c <= 2 * MaxSwaps + 1
    /\ \A n \in Nat : n >= 1 /\ n <= 2 * MaxSwaps + 1 => n \in Chains
BY BoundsAssumption DEF Chains, None

\* NewChain is the next one in order.
LEMMA NewChainIsNext ==
    ASSUME NEW n \in Chains, BuiltUpTo(n), n + 1 \in Chains
    PROVE  NewChain = n + 1
<1>1. \A d \in 1 .. n : d \in Chains
  BY ChainsAre, BoundsAssumption DEF Chains
<1>2. \A c \in Chains : (chain[c].kind = "none" /\ \A d \in 1 .. c - 1 : chain[d].kind # "none")
                        <=> c = n + 1
  <2> TAKE c \in Chains
  <2>1. CASE c <= n
    BY <2>1, ChainsAre DEF BuiltUpTo
  <2>2. CASE c = n + 1
    BY <2>2, <1>1, ChainsAre DEF BuiltUpTo
  <2>3. CASE c > n + 1
    <3>1. n + 1 \in 1 .. c - 1 /\ chain[n + 1].kind = "none"
      BY <2>3, ChainsAre DEF BuiltUpTo
    <3> QED BY <3>1, <2>3, ChainsAre
  <2> QED BY <2>1, <2>2, <2>3, ChainsAre
<1> QED BY <1>2 DEF NewChain

\* A fresh chain of either kind.
LEMMA BuildIs ==
    ASSUME NEW kind \in {"real", "fake"}
    PROVE  Build(kind) = [NoChain EXCEPT !.kind = kind]
BY DEF Build, build_fake_sink, build_fake_src

\* A step that sets flags of built chains changes nothing of the supply.
LEMMA SupplyKept ==
    ASSUME Supply, Typed,
           \A c \in Chains : chain'[c].kind = chain[c].kind,
           dir' = dir, budget'.swaps = budget.swaps, MayFallBack' => MayFallBack
    PROVE  Supply'
<1> PICK n \in Chains : BuiltUpTo(n) /\ n + Needed <= 2 * MaxSwaps + 1
  BY DEF Supply
<1>1. BuiltUpTo(n)'
  BY DEF BuiltUpTo
<1>2. n + Needed' <= 2 * MaxSwaps + 1
  BY ChainsAre, BoundsAssumption DEF Needed, Typed, Budget
<1> QED BY <1>1, <1>2, ChainsAre DEF Supply

\* What a step of the swapping thread keeps of its record.
LEMMA SwapGoes ==
    ASSUME NEW x \in Swap, NEW p \in SwapSteps, NEW y, y = [x EXCEPT !.at = p]
    PROVE  /\ y \in Swap /\ y.at = p
           /\ y.ok = x.ok /\ y.new = x.new /\ y.fallback = x.fallback
BY DEF Swap

\* One chain changes.
LEMMA ChainTyped ==
    ASSUME Typed, NEW k, NEW r \in Chain, chain' = [chain EXCEPT ![k] = r]
    PROVE  /\ chain' \in [Chains -> Chain]
           /\ \A c \in Chains : c # k => chain'[c] = chain[c]
           /\ k \in Chains => chain'[k] = r
BY DEF Typed

LEMMA ChainFields ==
    ASSUME NEW x \in Chain, NEW b \in BOOLEAN, NEW s \in {"null", "ready", "up"}
    PROVE  /\ [x EXCEPT !.child = b] \in Chain
           /\ [x EXCEPT !.drop = b] \in Chain
           /\ [x EXCEPT !.flushing = b] \in Chain
           /\ [x EXCEPT !.eos = b] \in Chain
           /\ [x EXCEPT !.unlocked = b] \in Chain
           /\ [x EXCEPT !.unlocked = b, !.stopping = b] \in Chain
           /\ [x EXCEPT !.st = s] \in Chain
           /\ [x EXCEPT !.st = s, !.child = b] \in Chain
BY DEF Chain

LEMMA BudgetTyped ==
    ASSUME NEW x \in Budget
    PROVE  /\ x.failures > 0 => /\ [x EXCEPT !.failures = @ - 1] \in Budget
                                /\ [x EXCEPT !.failures = @ - 1].failures < MaxFailures
                                /\ [x EXCEPT !.failures = @ - 1].swaps = x.swaps
           /\ x.errors > 0 => /\ [x EXCEPT !.errors = @ - 1] \in Budget
                              /\ [x EXCEPT !.errors = @ - 1].failures = x.failures
                              /\ [x EXCEPT !.errors = @ - 1].swaps = x.swaps
           /\ x.swaps > 0 => /\ [x EXCEPT !.swaps = @ - 1] \in Budget
                             /\ [x EXCEPT !.swaps = @ - 1].failures = x.failures
                             /\ [x EXCEPT !.swaps = @ - 1].swaps = x.swaps - 1
BY BoundsAssumption DEF Budget

-----------------------------------------------------------------------------
(* The swapping thread. *)

\* swap_inner: the flush of a source that drains.
LEMMA FlushExternalKeeps ==
    ASSUME CInv, flush_external_of_ghost
    PROVE  CInv'
<1> USE DEF SwapAt, Goto
<1>1. sw' \in Swap /\ sw'.at = (IF dir = "sink" THEN "drop" ELSE "eos")
      /\ sw'.ok = sw.ok /\ sw'.new = sw.new /\ sw'.fallback = sw.fallback
  BY SwapGoes DEF CInv, Typed, SwapSteps, flush_external_of_ghost
<1>2. Typed'
  BY <1>1, ChainsAre DEF CInv, Typed, Streaming, StreamSteps, flush_external_of_ghost
<1>3. Supply'
  BY <1>1, SupplyKept DEF CInv, MayFallBack, Unbuilt, Steps, flush_external_of_ghost
<1>4. Steps'
  BY <1>1, ChainsAre DEF CInv, Typed, Steps, Unbuilt, UnderProbe, LinkedIsChild,
      flush_external_of_ghost
<1>5. Released' /\ InsideLinked'
  BY <1>1 DEF CInv, Typed, Released, OldIsFake, Unbuilt, Steps, InsideLinked, Inside,
      Cutting, flush_external_of_ghost
<1>6. Passable'
  BY <1>1 DEF CInv, Typed, Passable, UnderProbe, Steps, flush_external_of_ghost
<1>7. OneChild' /\ LinkedIsChild' /\ FlowUnbroken'
  BY <1>1, BoundsAssumption DEF CInv, Typed, OneChild, LinkedIsChild, Steps,
      FlowUnbroken, flush_external_of_ghost
<1> QED
  BY <1>2, <1>3, <1>4, <1>5, <1>6, <1>7 DEF CInv

\* The valve of the outgoing fake sink drops.
LEMMA DropKeeps ==
    ASSUME CInv, release_fake_sink_clock_wait, OldIsFake
    PROVE  CInv'
<1> USE DEF SwapAt, Goto
<1>1. linked \in Chains /\ chain[linked] \in Chain
  BY ChainsAre DEF CInv, Typed, Steps, Released, LinkedIsChild, Unbuilt, OldIsFake,
      release_fake_sink_clock_wait
<1>2. [chain[linked] EXCEPT !.drop = TRUE] \in Chain
  BY <1>1, ChainFields
<1>3. chain' \in [Chains -> Chain] /\ (\A c \in Chains : c # linked => chain'[c] = chain[c])
        /\ chain'[linked] = [chain[linked] EXCEPT !.drop = TRUE]
  BY <1>1, <1>2, ChainTyped DEF CInv, release_fake_sink_clock_wait, OldIsFake
<1>4. chain'[linked].drop
        /\ chain'[linked].st = chain[linked].st
        /\ chain'[linked].child = chain[linked].child
        /\ chain'[linked].kind = chain[linked].kind
        /\ chain'[linked].flushing = chain[linked].flushing
  BY <1>1, <1>3 DEF Chain
<1>5. \A c \in Chains : chain'[c].kind = chain[c].kind
  BY <1>1, <1>3, <1>4 DEF Chain
<1>6. sw' \in Swap /\ sw'.at = "wake"
      /\ sw'.ok = sw.ok /\ sw'.new = sw.new /\ sw'.fallback = sw.fallback
  BY SwapGoes DEF CInv, Typed, SwapSteps, release_fake_sink_clock_wait, OldIsFake
<1>7. Typed'
  BY <1>1, <1>2, <1>3, <1>4, <1>5, <1>6, ChainsAre DEF CInv, Typed, Streaming,
      StreamSteps, release_fake_sink_clock_wait, OldIsFake
<1>8. Supply'
  BY <1>5, <1>6, SupplyKept DEF CInv, MayFallBack, Unbuilt, Steps,
      release_fake_sink_clock_wait, OldIsFake
<1>9. Steps'
  BY <1>1, <1>3, <1>4, <1>5, <1>6, ChainsAre DEF CInv, Typed, Steps, Unbuilt,
      UnderProbe, LinkedIsChild, release_fake_sink_clock_wait, OldIsFake
<1>10. Released' /\ InsideLinked'
  BY <1>1, <1>3, <1>4, <1>6 DEF CInv, Typed, Released, OldIsFake, Unbuilt, Steps,
      InsideLinked, Inside, Cutting, release_fake_sink_clock_wait
<1>11. Passable'
  BY <1>1, <1>3, <1>4, <1>6 DEF CInv, Typed, Passable, UnderProbe, Steps,
      release_fake_sink_clock_wait, OldIsFake
<1>12. OneChild' /\ LinkedIsChild' /\ FlowUnbroken'
  BY <1>1, <1>3, <1>4, <1>6, BoundsAssumption DEF CInv, Typed, OneChild,
      LinkedIsChild, Steps, FlowUnbroken, release_fake_sink_clock_wait, OldIsFake
<1> QED
  BY <1>7, <1>8, <1>9, <1>10, <1>11, <1>12 DEF CInv

\* There is no fake sink to release.
LEMMA NoDropKeeps ==
    ASSUME CInv, release_fake_sink_clock_wait, ~OldIsFake
    PROVE  CInv'
<1> USE DEF SwapAt, Goto
<1>1. sw' \in Swap /\ sw'.at = "block"
      /\ sw'.ok = sw.ok /\ sw'.new = sw.new /\ sw'.fallback = sw.fallback
  BY SwapGoes DEF CInv, Typed, SwapSteps, release_fake_sink_clock_wait, OldIsFake
<1>2. Typed'
  BY <1>1, ChainsAre DEF CInv, Typed, Streaming, StreamSteps,
      release_fake_sink_clock_wait, OldIsFake
<1>3. Supply'
  BY <1>1, SupplyKept DEF CInv, MayFallBack, Unbuilt, Steps,
      release_fake_sink_clock_wait, OldIsFake
<1>4. Steps'
  BY <1>1, ChainsAre DEF CInv, Typed, Steps, Unbuilt, UnderProbe, LinkedIsChild,
      release_fake_sink_clock_wait, OldIsFake
<1>5. Released' /\ InsideLinked'
  BY <1>1 DEF CInv, Typed, Released, OldIsFake, Unbuilt, Steps, InsideLinked, Inside,
      Cutting, release_fake_sink_clock_wait
<1>6. Passable'
  BY <1>1 DEF CInv, Typed, Passable, UnderProbe, Steps, release_fake_sink_clock_wait,
      OldIsFake
<1>7. OneChild' /\ LinkedIsChild' /\ FlowUnbroken'
  BY <1>1, BoundsAssumption DEF CInv, Typed, OneChild, LinkedIsChild, Steps,
      FlowUnbroken, release_fake_sink_clock_wait, OldIsFake
<1> QED
  BY <1>2, <1>3, <1>4, <1>5, <1>6, <1>7 DEF CInv

\* The outgoing fake sink flushes.
LEMMA FlushFakeSinkKeeps ==
    ASSUME CInv, FlushFakeSink
    PROVE  CInv'
<1> USE DEF SwapAt, Goto
<1>1. linked \in Chains /\ chain[linked] \in Chain
  BY ChainsAre DEF CInv, Typed, Steps, Released, LinkedIsChild, Unbuilt, OldIsFake,
      FlushFakeSink
<1>2. [chain[linked] EXCEPT !.flushing = TRUE] \in Chain
  BY <1>1, ChainFields
<1>3. chain' \in [Chains -> Chain] /\ (\A c \in Chains : c # linked => chain'[c] = chain[c])
        /\ chain'[linked] = [chain[linked] EXCEPT !.flushing = TRUE]
  BY <1>1, <1>2, ChainTyped DEF CInv, FlushFakeSink
<1>4. chain'[linked].flushing
        /\ chain'[linked].st = chain[linked].st
        /\ chain'[linked].child = chain[linked].child
        /\ chain'[linked].kind = chain[linked].kind
        /\ chain'[linked].drop = chain[linked].drop
  BY <1>1, <1>3 DEF Chain
<1>5. \A c \in Chains : chain'[c].kind = chain[c].kind
  BY <1>1, <1>3, <1>4 DEF Chain
<1>6. sw' \in Swap /\ sw'.at = "block"
      /\ sw'.ok = sw.ok /\ sw'.new = sw.new /\ sw'.fallback = sw.fallback
  BY SwapGoes DEF CInv, Typed, SwapSteps, FlushFakeSink
<1>7. Typed'
  BY <1>1, <1>2, <1>3, <1>4, <1>5, <1>6, ChainsAre DEF CInv, Typed, Streaming,
      StreamSteps, FlushFakeSink
<1>8. Supply'
  BY <1>5, <1>6, SupplyKept DEF CInv, MayFallBack, Unbuilt, Steps, FlushFakeSink
<1>9. Steps'
  BY <1>1, <1>3, <1>4, <1>5, <1>6, ChainsAre DEF CInv, Typed, Steps, Unbuilt,
      UnderProbe, LinkedIsChild, FlushFakeSink
<1>10. Released' /\ InsideLinked'
  BY <1>1, <1>3, <1>4, <1>6 DEF CInv, Typed, Released, OldIsFake, Unbuilt, Steps,
      InsideLinked, Inside, Cutting, FlushFakeSink
<1>11. Passable'
  BY <1>1, <1>3, <1>4, <1>6 DEF CInv, Typed, Passable, UnderProbe, Steps,
      FlushFakeSink
<1>12. OneChild' /\ LinkedIsChild' /\ FlowUnbroken'
  BY <1>1, <1>3, <1>4, <1>6, BoundsAssumption DEF CInv, Typed, OneChild,
      LinkedIsChild, Steps, FlowUnbroken, FlushFakeSink
<1> QED
  BY <1>7, <1>8, <1>9, <1>10, <1>11, <1>12 DEF CInv

\* The fake source ends.
LEMMA EosKeeps ==
    ASSUME CInv, release_fake_src_create_wait, OldIsFake
    PROVE  CInv'
<1> USE DEF SwapAt, Goto
<1>1. linked \in Chains /\ chain[linked] \in Chain
  BY ChainsAre DEF CInv, Typed, Steps, Released, LinkedIsChild, Unbuilt, OldIsFake,
      release_fake_src_create_wait
<1>2. [chain[linked] EXCEPT !.eos = TRUE] \in Chain
  BY <1>1, ChainFields
<1>3. chain' \in [Chains -> Chain] /\ (\A c \in Chains : c # linked => chain'[c] = chain[c])
        /\ chain'[linked] = [chain[linked] EXCEPT !.eos = TRUE]
  BY <1>1, <1>2, ChainTyped DEF CInv, release_fake_src_create_wait, OldIsFake
<1>4. chain'[linked].st = chain[linked].st
        /\ chain'[linked].child = chain[linked].child
        /\ chain'[linked].kind = chain[linked].kind
        /\ chain'[linked].drop = chain[linked].drop
        /\ chain'[linked].flushing = chain[linked].flushing
  BY <1>1, <1>3 DEF Chain
<1>5. \A c \in Chains : chain'[c].kind = chain[c].kind
  BY <1>1, <1>3, <1>4 DEF Chain
<1>6. sw' \in Swap /\ sw'.at = "unlock"
      /\ sw'.ok = sw.ok /\ sw'.new = sw.new /\ sw'.fallback = sw.fallback
  BY SwapGoes DEF CInv, Typed, SwapSteps, release_fake_src_create_wait, OldIsFake
<1>7. Typed'
  BY <1>1, <1>2, <1>3, <1>4, <1>5, <1>6, ChainsAre DEF CInv, Typed, Streaming,
      StreamSteps, release_fake_src_create_wait, OldIsFake
<1>8. Supply'
  BY <1>5, <1>6, SupplyKept DEF CInv, MayFallBack, Unbuilt, Steps,
      release_fake_src_create_wait, OldIsFake
<1>9. Steps'
  BY <1>1, <1>3, <1>4, <1>5, <1>6, ChainsAre DEF CInv, Typed, Steps, Unbuilt,
      UnderProbe, LinkedIsChild, release_fake_src_create_wait, OldIsFake
<1>10. Released' /\ InsideLinked'
  BY <1>1, <1>3, <1>4, <1>6 DEF CInv, Typed, Released, OldIsFake, Unbuilt, Steps,
      InsideLinked, Inside, Cutting, release_fake_src_create_wait
<1>11. Passable'
  BY <1>1, <1>3, <1>4, <1>6 DEF CInv, Typed, Passable, UnderProbe, Steps,
      release_fake_src_create_wait, OldIsFake
<1>12. OneChild' /\ LinkedIsChild' /\ FlowUnbroken'
  BY <1>1, <1>3, <1>4, <1>6, BoundsAssumption DEF CInv, Typed, OneChild,
      LinkedIsChild, Steps, FlowUnbroken, release_fake_src_create_wait, OldIsFake
<1> QED
  BY <1>7, <1>8, <1>9, <1>10, <1>11, <1>12 DEF CInv

\* There is no fake source to end.
LEMMA NoEosKeeps ==
    ASSUME CInv, release_fake_src_create_wait, ~OldIsFake
    PROVE  CInv'
<1> USE DEF SwapAt, Goto
<1>1. sw' \in Swap /\ sw'.at = (IF linked = None THEN "block" ELSE "unlock")
      /\ sw'.ok = sw.ok /\ sw'.new = sw.new /\ sw'.fallback = sw.fallback
  BY SwapGoes DEF CInv, Typed, SwapSteps, release_fake_src_create_wait, OldIsFake
<1>2. Typed'
  BY <1>1, ChainsAre DEF CInv, Typed, Streaming, StreamSteps,
      release_fake_src_create_wait, OldIsFake
<1>3. Supply'
  BY <1>1, SupplyKept DEF CInv, MayFallBack, Unbuilt, Steps,
      release_fake_src_create_wait, OldIsFake
<1>4. Steps'
  BY <1>1, ChainsAre DEF CInv, Typed, Steps, Unbuilt, UnderProbe, LinkedIsChild,
      release_fake_src_create_wait, OldIsFake
<1>5. Released' /\ InsideLinked'
  BY <1>1 DEF CInv, Typed, Released, OldIsFake, Unbuilt, Steps, InsideLinked, Inside,
      Cutting, release_fake_src_create_wait
<1>6. Passable'
  BY <1>1 DEF CInv, Typed, Passable, UnderProbe, Steps, release_fake_src_create_wait,
      OldIsFake
<1>7. OneChild' /\ LinkedIsChild' /\ FlowUnbroken'
  BY <1>1, BoundsAssumption DEF CInv, Typed, OneChild, LinkedIsChild, Steps,
      FlowUnbroken, release_fake_src_create_wait, OldIsFake
<1> QED
  BY <1>2, <1>3, <1>4, <1>5, <1>6, <1>7 DEF CInv

\* stop_chain unlocks the source.
LEMMA UnlockKeeps ==
    ASSUME CInv, UnlockSource
    PROVE  CInv'
<1> USE DEF SwapAt, Goto
<1>1. linked \in Chains /\ chain[linked] \in Chain
  BY ChainsAre DEF CInv, Typed, Steps, Released, LinkedIsChild, Unbuilt, OldIsFake,
      UnlockSource
<1>2. [chain[linked] EXCEPT !.unlocked = TRUE, !.stopping = TRUE] \in Chain
  BY <1>1, ChainFields
<1>3. chain' = [chain EXCEPT ![linked] = [chain[linked] EXCEPT !.unlocked = TRUE, !.stopping = TRUE]]
  BY <1>1 DEF CInv, Typed, UnlockSource
<1>4. chain' \in [Chains -> Chain] /\ (\A c \in Chains : c # linked => chain'[c] = chain[c])
        /\ chain'[linked] = [chain[linked] EXCEPT !.unlocked = TRUE, !.stopping = TRUE]
  BY <1>1, <1>2, <1>3, ChainTyped DEF CInv
<1>5. chain'[linked].st = chain[linked].st
        /\ chain'[linked].child = chain[linked].child
        /\ chain'[linked].kind = chain[linked].kind
        /\ chain'[linked].drop = chain[linked].drop
        /\ chain'[linked].flushing = chain[linked].flushing
  BY <1>1, <1>4 DEF Chain
<1>6. \A c \in Chains : chain'[c].kind = chain[c].kind
  BY <1>1, <1>4, <1>5 DEF Chain
<1>7. sw' \in Swap /\ sw'.at = "join"
      /\ sw'.ok = sw.ok /\ sw'.new = sw.new /\ sw'.fallback = sw.fallback
  BY SwapGoes DEF CInv, Typed, SwapSteps, UnlockSource
<1>8. Typed'
  BY <1>1, <1>2, <1>3, <1>4, <1>5, <1>6, <1>7, ChainsAre DEF CInv, Typed, Streaming,
      StreamSteps, UnlockSource
<1>9. Supply'
  BY <1>6, <1>7, SupplyKept DEF CInv, MayFallBack, Unbuilt, Steps, UnlockSource
<1>10. Steps'
  BY <1>1, <1>4, <1>5, <1>6, <1>7, ChainsAre DEF CInv, Typed, Steps, Unbuilt,
      UnderProbe, LinkedIsChild, UnlockSource
<1>11. Released' /\ InsideLinked'
  BY <1>1, <1>4, <1>5, <1>7 DEF CInv, Typed, Released, OldIsFake, Unbuilt, Steps,
      InsideLinked, Inside, Cutting, UnlockSource
<1>12. Passable'
  BY <1>1, <1>4, <1>5, <1>7 DEF CInv, Typed, Passable, UnderProbe, Steps,
      UnlockSource
<1>13. OneChild' /\ LinkedIsChild' /\ FlowUnbroken'
  BY <1>1, <1>4, <1>5, <1>7, BoundsAssumption DEF CInv, Typed, OneChild,
      LinkedIsChild, Steps, FlowUnbroken, UnlockSource
<1> QED
  BY <1>8, <1>9, <1>10, <1>11, <1>12, <1>13 DEF CInv

\* stop_chain joined the task of the source.
LEMMA StoppedKeeps ==
    ASSUME CInv, SwapAt("join"), TaskEnded,
           chain' = [chain EXCEPT ![linked].st = "null"], stream' = [at |-> "none", in |-> None],
           Goto("block"), UNCHANGED <<dir, linked, probe, lock, restore, cut, budget>>
    PROVE  CInv'
<1> USE DEF SwapAt, Goto
<1>1. linked \in Chains /\ chain[linked] \in Chain
  BY ChainsAre DEF CInv, Typed, Steps, Released, LinkedIsChild, Unbuilt, OldIsFake,
      TaskEnded
<1>2. [chain[linked] EXCEPT !.st = "null"] \in Chain
  BY <1>1, ChainFields
<1>3. chain' \in [Chains -> Chain] /\ (\A c \in Chains : c # linked => chain'[c] = chain[c])
        /\ chain'[linked] = [chain[linked] EXCEPT !.st = "null"]
  BY <1>1, <1>2, ChainTyped DEF CInv, TaskEnded
<1>4. chain'[linked].st = "null"
        /\ chain'[linked].child = chain[linked].child
        /\ chain'[linked].kind = chain[linked].kind
        /\ chain'[linked].drop = chain[linked].drop
        /\ chain'[linked].flushing = chain[linked].flushing
  BY <1>1, <1>3 DEF Chain
<1>5. \A c \in Chains : chain'[c].kind = chain[c].kind
  BY <1>1, <1>3, <1>4 DEF Chain
<1>6. sw' \in Swap /\ sw'.at = "block"
      /\ sw'.ok = sw.ok /\ sw'.new = sw.new /\ sw'.fallback = sw.fallback
  BY SwapGoes DEF CInv, Typed, SwapSteps, TaskEnded
<1>7. Typed'
  BY <1>1, <1>2, <1>3, <1>4, <1>5, <1>6, ChainsAre DEF CInv, Typed, Streaming,
      StreamSteps, TaskEnded
<1>8. Supply'
  BY <1>5, <1>6, SupplyKept DEF CInv, MayFallBack, Unbuilt, Steps, TaskEnded
<1>9. Steps'
  BY <1>1, <1>3, <1>4, <1>5, <1>6, ChainsAre DEF CInv, Typed, Steps, Unbuilt,
      UnderProbe, LinkedIsChild, TaskEnded
<1>10. Released' /\ InsideLinked'
  BY <1>1, <1>3, <1>4, <1>6 DEF CInv, Typed, Released, OldIsFake, Unbuilt, Steps,
      InsideLinked, Inside, Cutting, TaskEnded
<1>11. Passable'
  BY <1>1, <1>3, <1>4, <1>6 DEF CInv, Typed, Passable, UnderProbe, Steps, TaskEnded
<1>12. OneChild' /\ LinkedIsChild' /\ FlowUnbroken'
  BY <1>1, <1>3, <1>4, <1>6, BoundsAssumption DEF CInv, Typed, OneChild,
      LinkedIsChild, Steps, FlowUnbroken, TaskEnded
<1> QED
  BY <1>7, <1>8, <1>9, <1>10, <1>11, <1>12 DEF CInv

\* block_and_wait installs the probe.
LEMMA InstallProbeKeeps ==
    ASSUME CInv, InstallProbe
    PROVE  CInv'
<1> USE DEF SwapAt, Goto
<1>1. sw' \in Swap /\ sw'.at = "blocking"
      /\ sw'.ok = sw.ok /\ sw'.new = sw.new /\ sw'.fallback = sw.fallback
  BY SwapGoes DEF CInv, Typed, SwapSteps, InstallProbe
<1>2. Typed'
  BY <1>1, ChainsAre DEF CInv, Typed, Streaming, StreamSteps, InstallProbe
<1>3. Supply'
  BY <1>1, SupplyKept DEF CInv, MayFallBack, Unbuilt, Steps, InstallProbe
<1>4. Steps'
  BY <1>1, ChainsAre DEF CInv, Typed, Steps, Unbuilt, UnderProbe, LinkedIsChild,
      InstallProbe
<1>5. Released' /\ InsideLinked'
  BY <1>1 DEF CInv, Typed, Released, OldIsFake, Unbuilt, Steps, InsideLinked, Inside,
      Cutting, InstallProbe
<1>6. Passable'
  BY <1>1 DEF CInv, Typed, Passable, UnderProbe, Steps, InstallProbe
<1>7. OneChild' /\ LinkedIsChild' /\ FlowUnbroken'
  BY <1>1, BoundsAssumption DEF CInv, Typed, OneChild, LinkedIsChild, Steps,
      FlowUnbroken, InstallProbe
<1> QED
  BY <1>2, <1>3, <1>4, <1>5, <1>6, <1>7 DEF CInv

\* Nothing is inside: the probe fires.
LEMMA ProbeFiredKeeps ==
    ASSUME CInv, ProbeFired
    PROVE  CInv'
<1> USE DEF SwapAt, Goto
<1>1. sw' \in Swap /\ sw'.at = "unlink"
      /\ sw'.ok = sw.ok /\ sw'.new = sw.new /\ sw'.fallback = sw.fallback
  BY SwapGoes DEF CInv, Typed, SwapSteps, ProbeFired
<1>2. Typed'
  BY <1>1, ChainsAre DEF CInv, Typed, Streaming, StreamSteps, ProbeFired
<1>3. Supply'
  BY <1>1, SupplyKept DEF CInv, MayFallBack, Unbuilt, Steps, ProbeFired
<1>4. Steps'
  BY <1>1, ChainsAre DEF CInv, Typed, Steps, Unbuilt, UnderProbe, LinkedIsChild,
      ProbeFired
<1>5. Released' /\ InsideLinked'
  BY <1>1 DEF CInv, Typed, Released, OldIsFake, Unbuilt, Steps, InsideLinked, Inside,
      Cutting, ProbeFired
<1>6. Passable'
  BY <1>1 DEF CInv, Typed, Passable, UnderProbe, Steps, ProbeFired
<1>7. OneChild' /\ LinkedIsChild' /\ FlowUnbroken'
  BY <1>1, BoundsAssumption DEF CInv, Typed, OneChild, LinkedIsChild, Steps,
      FlowUnbroken, ProbeFired
<1> QED
  BY <1>2, <1>3, <1>4, <1>5, <1>6, <1>7 DEF CInv

\* block_and_wait gives up.
LEMMA ProbeTimeoutKeeps ==
    ASSUME CInv, ProbeTimeout
    PROVE  CInv'
<1> USE DEF SwapAt, Goto
<1>1. sw \in Swap /\ "return" \in SwapSteps /\ sw' = [sw EXCEPT !.at = "return", !.ok = FALSE]
  BY DEF CInv, Typed, SwapSteps, ProbeTimeout
<1>2. sw' \in Swap /\ sw'.at = "return"
      /\ ~sw'.ok /\ sw'.new = sw.new /\ sw'.fallback = sw.fallback
  BY <1>1 DEF Swap
<1>3. Typed'
  BY <1>2, ChainsAre DEF CInv, Typed, Streaming, StreamSteps, ProbeTimeout
<1>4. Supply'
  BY <1>2, SupplyKept DEF CInv, MayFallBack, Unbuilt, Steps, ProbeTimeout
<1>5. Steps'
  BY <1>2, ChainsAre DEF CInv, Typed, Steps, Unbuilt, UnderProbe, LinkedIsChild,
      ProbeTimeout
<1>6. Released' /\ InsideLinked'
  BY <1>2 DEF CInv, Typed, Released, OldIsFake, Unbuilt, Steps, InsideLinked, Inside,
      Cutting, ProbeTimeout
<1>7. Passable'
  BY <1>2, ChainsAre DEF CInv, Typed, Passable, UnderProbe, Steps, Released,
      InsideLinked, Inside, OneChild, LinkedIsChild, FlowUnbroken, OldIsFake,
      Unbuilt, Cutting, ProbeTimeout
<1>8. OneChild' /\ LinkedIsChild' /\ FlowUnbroken'
  BY <1>2, BoundsAssumption DEF CInv, Typed, OneChild, LinkedIsChild, Steps,
      FlowUnbroken, ProbeTimeout
<1> QED
  BY <1>3, <1>4, <1>5, <1>6, <1>7, <1>8 DEF CInv

\* A source whose stop or start failed gives up.
LEMMA ReturnsFailedKeeps ==
    ASSUME CInv, sw.at = "join" \/ (sw.at = "advance" /\ dir = "src" /\ probe = "off"), Fails,
           sw' = [sw EXCEPT !.at = "return", !.ok = FALSE], cut => cut', cut' \in BOOLEAN,
           UNCHANGED <<dir, chain, linked, probe, stream, lock>>
    PROVE  CInv'
<1> USE DEF SwapAt, Goto
<1>1. budget' \in Budget /\ budget'.failures < MaxFailures /\ budget'.swaps = budget.swaps
  BY BudgetTyped DEF CInv, Typed, Fails, Budget
<1>2. sw \in Swap /\ "return" \in SwapSteps /\ sw' = [sw EXCEPT !.at = "return", !.ok = FALSE]
  BY DEF CInv, Typed, SwapSteps
<1>3. sw' \in Swap /\ sw'.at = "return"
      /\ ~sw'.ok /\ sw'.new = sw.new /\ sw'.fallback = sw.fallback
  BY <1>2 DEF Swap
<1>4. Typed'
  BY <1>1, <1>3, ChainsAre DEF CInv, Typed, Streaming, StreamSteps
<1>5. Supply'
  BY <1>1, <1>3, SupplyKept DEF CInv, MayFallBack, Unbuilt, Steps
<1>6. Steps'
  BY <1>1, <1>3, ChainsAre DEF CInv, Typed, Steps, Unbuilt, UnderProbe, LinkedIsChild
<1>7. Released' /\ InsideLinked'
  BY <1>1, <1>3 DEF CInv, Typed, Released, OldIsFake, Unbuilt, Steps, InsideLinked,
      Inside, Cutting
<1>8. Passable'
  BY <1>1, <1>3 DEF CInv, Typed, Passable, UnderProbe, Steps
<1>9. OneChild' /\ LinkedIsChild' /\ FlowUnbroken'
  BY <1>1, <1>3, BoundsAssumption DEF CInv, Typed, OneChild, LinkedIsChild, Steps,
      FlowUnbroken
<1> QED
  BY <1>4, <1>5, <1>6, <1>7, <1>8, <1>9 DEF CInv

\* A step of the installation failed.
LEMMA ToFallbackKeeps ==
    ASSUME CInv, sw.at \in {"add", "ready"} \/ (sw.at = "advance" /\ dir = "sink"), Fails, Goto("fallback"),
           UNCHANGED <<dir, chain, linked, probe, stream, lock, cut>>
    PROVE  CInv'
<1> USE DEF SwapAt, Goto
<1>1. budget' \in Budget /\ budget'.failures < MaxFailures /\ budget'.swaps = budget.swaps
  BY BudgetTyped DEF CInv, Typed, Fails, Budget
<1>2. sw' \in Swap /\ sw'.at = "fallback"
      /\ sw'.ok = sw.ok /\ sw'.new = sw.new /\ sw'.fallback = sw.fallback
  BY SwapGoes DEF CInv, Typed, SwapSteps
<1>3. Typed'
  BY <1>1, <1>2, ChainsAre DEF CInv, Typed, Streaming, StreamSteps
<1>4. Supply'
  BY <1>1, <1>2, SupplyKept DEF CInv, MayFallBack, Unbuilt, Steps
<1>5. Steps'
  BY <1>1, <1>2, ChainsAre DEF CInv, Typed, Steps, Unbuilt, UnderProbe, LinkedIsChild
<1>6. Released' /\ InsideLinked'
  BY <1>1, <1>2 DEF CInv, Typed, Released, OldIsFake, Unbuilt, Steps, InsideLinked,
      Inside, Cutting
<1>7. Passable'
  BY <1>1, <1>2 DEF CInv, Typed, Passable, UnderProbe, Steps
<1>8. OneChild' /\ LinkedIsChild' /\ FlowUnbroken'
  BY <1>1, <1>2, BoundsAssumption DEF CInv, Typed, OneChild, LinkedIsChild, Steps,
      FlowUnbroken
<1> QED
  BY <1>3, <1>4, <1>5, <1>6, <1>7, <1>8 DEF CInv

\* The new chain posts an ERROR from the swapping thread.
LEMMA SelfPostKeeps ==
    ASSUME CInv, sw.at \in {"ready", "advance"}, Posts, Goto("selfpost"),
           UNCHANGED <<dir, chain, linked, probe, stream, lock, cut>>
    PROVE  CInv'
<1> USE DEF SwapAt, Goto
<1>1. budget' \in Budget /\ budget'.failures = budget.failures /\ budget'.swaps = budget.swaps
  BY BudgetTyped DEF CInv, Typed, Posts, Budget
<1>2. sw' \in Swap /\ sw'.at = "selfpost"
      /\ sw'.ok = sw.ok /\ sw'.new = sw.new /\ sw'.fallback = sw.fallback
  BY SwapGoes DEF CInv, Typed, SwapSteps
<1>3. Typed'
  BY <1>1, <1>2, ChainsAre DEF CInv, Typed, Streaming, StreamSteps
<1>4. Supply'
  BY <1>1, <1>2, SupplyKept DEF CInv, MayFallBack, Unbuilt, Steps
<1>5. Steps'
  BY <1>1, <1>2, ChainsAre DEF CInv, Typed, Steps, Unbuilt, UnderProbe, LinkedIsChild
<1>6. Released' /\ InsideLinked'
  BY <1>1, <1>2 DEF CInv, Typed, Released, OldIsFake, Unbuilt, Steps, InsideLinked,
      Inside, Cutting
<1>7. Passable'
  BY <1>1, <1>2 DEF CInv, Typed, Passable, UnderProbe, Steps
<1>8. OneChild' /\ LinkedIsChild' /\ FlowUnbroken'
  BY <1>1, <1>2, BoundsAssumption DEF CInv, Typed, OneChild, LinkedIsChild, Steps,
      FlowUnbroken
<1> QED
  BY <1>3, <1>4, <1>5, <1>6, <1>7, <1>8 DEF CInv

\* There is no chain to unlink.
LEMMA UnlinkNothingKeeps ==
    ASSUME CInv, SwapAt("unlink"), linked = None, linked' = None, Goto("add"),
           chain' = chain, budget' = budget, UNCHANGED <<dir, probe, stream, lock, cut>>
    PROVE  CInv'
<1> USE DEF SwapAt, Goto
<1>1. sw' \in Swap /\ sw'.at = "add"
      /\ sw'.ok = sw.ok /\ sw'.new = sw.new /\ sw'.fallback = sw.fallback
  BY SwapGoes DEF CInv, Typed, SwapSteps
<1>2. Typed'
  BY <1>1, ChainsAre DEF CInv, Typed, Streaming, StreamSteps
<1>3. Supply'
  BY <1>1, SupplyKept DEF CInv, MayFallBack, Unbuilt, Steps
<1>4. Steps'
  BY <1>1, ChainsAre DEF CInv, Typed, Steps, Unbuilt, UnderProbe, LinkedIsChild
<1>5. Released' /\ InsideLinked'
  BY <1>1 DEF CInv, Typed, Released, OldIsFake, Unbuilt, Steps, InsideLinked, Inside,
      Cutting
<1>6. Passable'
  BY <1>1 DEF CInv, Typed, Passable, UnderProbe, Steps
<1>7. OneChild' /\ LinkedIsChild' /\ FlowUnbroken'
  BY <1>1, BoundsAssumption DEF CInv, Typed, OneChild, LinkedIsChild, Steps,
      FlowUnbroken
<1> QED
  BY <1>2, <1>3, <1>4, <1>5, <1>6, <1>7 DEF CInv

\* The old chain is unlinked, stopped and removed.
LEMMA UnlinkKeeps ==
    ASSUME CInv, SwapAt("unlink"), linked # None, linked' = None, Goto("add"),
           chain' = [chain EXCEPT ![linked] = StopOld(linked)], budget' = budget,
           UNCHANGED <<dir, probe, stream, lock, cut>>
    PROVE  CInv'
<1> USE DEF SwapAt, Goto
<1>1. linked \in Chains /\ chain[linked] \in Chain
  BY ChainsAre DEF CInv, Typed, Steps, Released, LinkedIsChild, Unbuilt, OldIsFake,
      StopOld
<1>2. [chain[linked] EXCEPT !.st = "null", !.child = FALSE] \in Chain
  BY <1>1, ChainFields
<1>3. chain' \in [Chains -> Chain] /\ (\A c \in Chains : c # linked => chain'[c] = chain[c])
        /\ chain'[linked] = [chain[linked] EXCEPT !.st = "null", !.child = FALSE]
  BY <1>1, <1>2, ChainTyped DEF CInv, StopOld
<1>4. ~chain'[linked].child
        /\ chain'[linked].kind = chain[linked].kind
        /\ chain'[linked].drop = chain[linked].drop
        /\ chain'[linked].flushing = chain[linked].flushing
  BY <1>1, <1>3 DEF Chain
<1>5. \A c \in Chains : chain'[c].kind = chain[c].kind
  BY <1>1, <1>3, <1>4 DEF Chain
<1>6. sw' \in Swap /\ sw'.at = "add"
      /\ sw'.ok = sw.ok /\ sw'.new = sw.new /\ sw'.fallback = sw.fallback
  BY SwapGoes DEF CInv, Typed, SwapSteps, StopOld
<1>7. Typed'
  BY <1>1, <1>2, <1>3, <1>4, <1>5, <1>6, ChainsAre DEF CInv, Typed, Streaming,
      StreamSteps, StopOld
<1>8. Supply'
  BY <1>5, <1>6, SupplyKept DEF CInv, MayFallBack, Unbuilt, Steps, StopOld
<1>9. Steps'
  BY <1>1, <1>3, <1>4, <1>5, <1>6, ChainsAre DEF CInv, Typed, Steps, Unbuilt,
      UnderProbe, LinkedIsChild, StopOld
<1>10. Released' /\ InsideLinked'
  BY <1>1, <1>3, <1>4, <1>6 DEF CInv, Typed, Released, OldIsFake, Unbuilt, Steps,
      InsideLinked, Inside, Cutting, StopOld
<1>11. Passable'
  BY <1>1, <1>3, <1>4, <1>6 DEF CInv, Typed, Passable, UnderProbe, Steps, StopOld
<1>12. OneChild' /\ LinkedIsChild' /\ FlowUnbroken'
  BY <1>1, <1>3, <1>4, <1>6, BoundsAssumption DEF CInv, Typed, OneChild,
      LinkedIsChild, Steps, FlowUnbroken, StopOld
<1> QED
  BY <1>7, <1>8, <1>9, <1>10, <1>11, <1>12 DEF CInv

\* The old chain does not stop.
LEMMA UnlinkFailsKeeps ==
    ASSUME CInv, SwapAt("unlink"), linked # None, linked' = None, Fails,
           sw' = [sw EXCEPT !.at = "unblock", !.ok = FALSE], chain' = chain, UNCHANGED <<dir, probe, stream, lock, cut>>
    PROVE  CInv'
<1> USE DEF SwapAt, Goto
<1>1. budget' \in Budget /\ budget'.failures < MaxFailures /\ budget'.swaps = budget.swaps
  BY BudgetTyped DEF CInv, Typed, Fails, Budget
<1>2. sw \in Swap /\ "unblock" \in SwapSteps /\ sw' = [sw EXCEPT !.at = "unblock", !.ok = FALSE]
  BY DEF CInv, Typed, SwapSteps
<1>3. sw' \in Swap /\ sw'.at = "unblock"
      /\ ~sw'.ok /\ sw'.new = sw.new /\ sw'.fallback = sw.fallback
  BY <1>2 DEF Swap
<1>4. Typed'
  BY <1>1, <1>3, ChainsAre DEF CInv, Typed, Streaming, StreamSteps
<1>5. Supply'
  BY <1>1, <1>3, SupplyKept DEF CInv, MayFallBack, Unbuilt, Steps
<1>6. Steps'
  BY <1>1, <1>3, ChainsAre DEF CInv, Typed, Steps, Unbuilt, UnderProbe, LinkedIsChild
<1>7. Released' /\ InsideLinked'
  BY <1>1, <1>3 DEF CInv, Typed, Released, OldIsFake, Unbuilt, Steps, InsideLinked,
      Inside, Cutting
<1>8. Passable'
  BY <1>1, <1>3 DEF CInv, Typed, Passable, UnderProbe, Steps
<1>9. OneChild' /\ LinkedIsChild' /\ FlowUnbroken'
  BY <1>1, <1>3, BoundsAssumption DEF CInv, Typed, OneChild, LinkedIsChild, Steps,
      FlowUnbroken
<1> QED
  BY <1>4, <1>5, <1>6, <1>7, <1>8, <1>9 DEF CInv

\* The old chain posts an ERROR from the swapping thread.
LEMMA UnlinkPostsKeeps ==
    ASSUME CInv, SwapAt("unlink"), linked # None, linked' = None, Posts, Goto("selfpost"),
           chain' = chain, UNCHANGED <<dir, probe, stream, lock, cut>>
    PROVE  CInv'
<1> USE DEF SwapAt, Goto
<1>1. budget' \in Budget /\ budget'.failures = budget.failures /\ budget'.swaps = budget.swaps
  BY BudgetTyped DEF CInv, Typed, Posts, Budget
<1>2. sw' \in Swap /\ sw'.at = "selfpost"
      /\ sw'.ok = sw.ok /\ sw'.new = sw.new /\ sw'.fallback = sw.fallback
  BY SwapGoes DEF CInv, Typed, SwapSteps
<1>3. Typed'
  BY <1>1, <1>2, ChainsAre DEF CInv, Typed, Streaming, StreamSteps
<1>4. Supply'
  BY <1>1, <1>2, SupplyKept DEF CInv, MayFallBack, Unbuilt, Steps
<1>5. Steps'
  BY <1>1, <1>2, ChainsAre DEF CInv, Typed, Steps, Unbuilt, UnderProbe, LinkedIsChild
<1>6. Released' /\ InsideLinked'
  BY <1>1, <1>2 DEF CInv, Typed, Released, OldIsFake, Unbuilt, Steps, InsideLinked,
      Inside, Cutting
<1>7. Passable'
  BY <1>1, <1>2 DEF CInv, Typed, Passable, UnderProbe, Steps
<1>8. OneChild' /\ LinkedIsChild' /\ FlowUnbroken'
  BY <1>1, <1>2, BoundsAssumption DEF CInv, Typed, OneChild, LinkedIsChild, Steps,
      FlowUnbroken
<1> QED
  BY <1>3, <1>4, <1>5, <1>6, <1>7, <1>8 DEF CInv

\* The new chain is added and linked.
LEMMA InstallKeeps ==
    ASSUME CInv, SwapAt("add"), chain' = [chain EXCEPT ![sw.new].child = TRUE], linked' = sw.new,
           Goto(IF dir = "src" THEN "ready" ELSE "advance"), budget' = budget,
           UNCHANGED <<dir, probe, stream, lock, cut>>
    PROVE  CInv'
<1> USE DEF SwapAt, Goto
<1>1. sw.new \in Chains /\ chain[sw.new] \in Chain
  BY ChainsAre DEF CInv, Typed, Steps, Released, LinkedIsChild, Unbuilt, OldIsFake
<1>2. [chain[sw.new] EXCEPT !.child = TRUE] \in Chain
  BY <1>1, ChainFields
<1>3. chain' \in [Chains -> Chain] /\ (\A c \in Chains : c # sw.new => chain'[c] = chain[c])
        /\ chain'[sw.new] = [chain[sw.new] EXCEPT !.child = TRUE]
  BY <1>1, <1>2, ChainTyped DEF CInv
<1>4. chain'[sw.new].child
        /\ chain'[sw.new].kind = chain[sw.new].kind
        /\ chain'[sw.new].st = chain[sw.new].st
        /\ chain'[sw.new].drop = chain[sw.new].drop
        /\ chain'[sw.new].flushing = chain[sw.new].flushing
  BY <1>1, <1>3 DEF Chain
<1>5. \A c \in Chains : chain'[c].kind = chain[c].kind
  BY <1>1, <1>3, <1>4 DEF Chain
<1>6. sw' \in Swap /\ sw'.at = (IF dir = "src" THEN "ready" ELSE "advance")
      /\ sw'.ok = sw.ok /\ sw'.new = sw.new /\ sw'.fallback = sw.fallback
  BY SwapGoes DEF CInv, Typed, SwapSteps
<1>7. Typed'
  BY <1>1, <1>2, <1>3, <1>4, <1>5, <1>6, ChainsAre DEF CInv, Typed, Streaming,
      StreamSteps
<1>8. Supply'
  BY <1>5, <1>6, SupplyKept DEF CInv, MayFallBack, Unbuilt, Steps
<1>9. Steps'
  BY <1>1, <1>3, <1>4, <1>5, <1>6, ChainsAre DEF CInv, Typed, Steps, Unbuilt,
      UnderProbe, LinkedIsChild
<1>10. Released' /\ InsideLinked'
  BY <1>1, <1>3, <1>4, <1>6 DEF CInv, Typed, Released, OldIsFake, Unbuilt, Steps,
      InsideLinked, Inside, Cutting
<1>11. Passable'
  BY <1>1, <1>3, <1>4, <1>6 DEF CInv, Typed, Passable, UnderProbe, Steps
<1>12. OneChild'
  BY <1>1, <1>3, <1>4, <1>6, BoundsAssumption, ChainsAre DEF CInv, Typed, OneChild,
      Steps, Released, InsideLinked, Inside, Passable, LinkedIsChild, FlowUnbroken,
      OldIsFake, Unbuilt, UnderProbe, Cutting
<1>13. LinkedIsChild'
  BY <1>1, <1>3, <1>4, <1>6, BoundsAssumption, ChainsAre DEF CInv, Typed,
      LinkedIsChild, Steps, Released, InsideLinked, Inside, Passable, OneChild,
      FlowUnbroken, OldIsFake, Unbuilt, UnderProbe, Cutting
<1>14. FlowUnbroken'
  BY <1>1, <1>3, <1>4, <1>6, BoundsAssumption DEF CInv, Typed, FlowUnbroken
<1> QED
  BY <1>7, <1>8, <1>9, <1>10, <1>11, <1>12, <1>13, <1>14 DEF CInv

\* The new source is in READY.
LEMMA ReadyKeeps ==
    ASSUME CInv, SwapAt("ready"), chain' = [chain EXCEPT ![sw.new].st = "ready"], Goto("unblock"),
           linked' = linked, budget' = budget, UNCHANGED <<dir, probe, stream, lock, cut>>
    PROVE  CInv'
<1> USE DEF SwapAt, Goto
<1>1. sw.new \in Chains /\ chain[sw.new] \in Chain
  BY ChainsAre DEF CInv, Typed, Steps, Released, LinkedIsChild, Unbuilt, OldIsFake
<1>2. [chain[sw.new] EXCEPT !.st = "ready"] \in Chain
  BY <1>1, ChainFields
<1>3. chain' \in [Chains -> Chain] /\ (\A c \in Chains : c # sw.new => chain'[c] = chain[c])
        /\ chain'[sw.new] = [chain[sw.new] EXCEPT !.st = "ready"]
  BY <1>1, <1>2, ChainTyped DEF CInv
<1>4. chain'[sw.new].kind = chain[sw.new].kind
        /\ chain'[sw.new].child = chain[sw.new].child
        /\ chain'[sw.new].drop = chain[sw.new].drop
        /\ chain'[sw.new].flushing = chain[sw.new].flushing
  BY <1>1, <1>3 DEF Chain
<1>5. \A c \in Chains : chain'[c].kind = chain[c].kind
  BY <1>1, <1>3, <1>4 DEF Chain
<1>6. sw' \in Swap /\ sw'.at = "unblock"
      /\ sw'.ok = sw.ok /\ sw'.new = sw.new /\ sw'.fallback = sw.fallback
  BY SwapGoes DEF CInv, Typed, SwapSteps
<1>7. Typed'
  BY <1>1, <1>2, <1>3, <1>4, <1>5, <1>6, ChainsAre DEF CInv, Typed, Streaming,
      StreamSteps
<1>8. Supply'
  BY <1>5, <1>6, SupplyKept DEF CInv, MayFallBack, Unbuilt, Steps
<1>9. Steps'
  BY <1>1, <1>3, <1>4, <1>5, <1>6, ChainsAre DEF CInv, Typed, Steps, Unbuilt,
      UnderProbe, LinkedIsChild
<1>10. Released' /\ InsideLinked'
  BY <1>1, <1>3, <1>4, <1>6 DEF CInv, Typed, Released, OldIsFake, Unbuilt, Steps,
      InsideLinked, Inside, Cutting
<1>11. Passable'
  BY <1>1, <1>3, <1>4, <1>6 DEF CInv, Typed, Passable, UnderProbe, Steps
<1>12. OneChild' /\ LinkedIsChild' /\ FlowUnbroken'
  BY <1>1, <1>3, <1>4, <1>6, BoundsAssumption DEF CInv, Typed, OneChild,
      LinkedIsChild, Steps, FlowUnbroken
<1> QED
  BY <1>7, <1>8, <1>9, <1>10, <1>11, <1>12 DEF CInv

\* The new sink runs.
LEMMA SinkUpKeeps ==
    ASSUME CInv, SwapAt("advance"), dir = "sink", chain' = [chain EXCEPT ![sw.new].st = "up"],
           Goto("unblock"), linked' = linked, budget' = budget, UNCHANGED <<dir, probe, stream, lock, cut>>
    PROVE  CInv'
<1> USE DEF SwapAt, Goto
<1>1. sw.new \in Chains /\ chain[sw.new] \in Chain
  BY ChainsAre DEF CInv, Typed, Steps, Released, LinkedIsChild, Unbuilt, OldIsFake
<1>2. [chain[sw.new] EXCEPT !.st = "up"] \in Chain
  BY <1>1, ChainFields
<1>3. chain' \in [Chains -> Chain] /\ (\A c \in Chains : c # sw.new => chain'[c] = chain[c])
        /\ chain'[sw.new] = [chain[sw.new] EXCEPT !.st = "up"]
  BY <1>1, <1>2, ChainTyped DEF CInv
<1>4. chain'[sw.new].st = "up"
        /\ chain'[sw.new].kind = chain[sw.new].kind
        /\ chain'[sw.new].child = chain[sw.new].child
        /\ chain'[sw.new].drop = chain[sw.new].drop
        /\ chain'[sw.new].flushing = chain[sw.new].flushing
  BY <1>1, <1>3 DEF Chain
<1>5. \A c \in Chains : chain'[c].kind = chain[c].kind
  BY <1>1, <1>3, <1>4 DEF Chain
<1>6. sw' \in Swap /\ sw'.at = "unblock"
      /\ sw'.ok = sw.ok /\ sw'.new = sw.new /\ sw'.fallback = sw.fallback
  BY SwapGoes DEF CInv, Typed, SwapSteps
<1>7. Typed'
  BY <1>1, <1>2, <1>3, <1>4, <1>5, <1>6, ChainsAre DEF CInv, Typed, Streaming,
      StreamSteps
<1>8. Supply'
  BY <1>5, <1>6, SupplyKept DEF CInv, MayFallBack, Unbuilt, Steps
<1>9. Steps'
  BY <1>1, <1>3, <1>4, <1>5, <1>6, ChainsAre DEF CInv, Typed, Steps, Unbuilt,
      UnderProbe, LinkedIsChild
<1>10. Released' /\ InsideLinked'
  BY <1>1, <1>3, <1>4, <1>6 DEF CInv, Typed, Released, OldIsFake, Unbuilt, Steps,
      InsideLinked, Inside, Cutting
<1>11. Passable'
  BY <1>1, <1>3, <1>4, <1>6 DEF CInv, Typed, Passable, UnderProbe, Steps
<1>12. OneChild' /\ LinkedIsChild' /\ FlowUnbroken'
  BY <1>1, <1>3, <1>4, <1>6, BoundsAssumption DEF CInv, Typed, OneChild,
      LinkedIsChild, Steps, FlowUnbroken
<1> QED
  BY <1>7, <1>8, <1>9, <1>10, <1>11, <1>12 DEF CInv

\* The new source runs, and its task begins.
LEMMA SourceUpKeeps ==
    ASSUME CInv, SwapAt("advance"), dir = "src", probe = "off",
           chain' = [chain EXCEPT ![sw.new].st = "up"],
           stream' = [at |-> "starting", in |-> sw.new], Goto("return"),
           UNCHANGED <<dir, linked, probe, lock, cut, budget>>
    PROVE  CInv'
<1> USE DEF SwapAt, Goto
<1>1. sw.new \in Chains /\ chain[sw.new] \in Chain
  BY ChainsAre DEF CInv, Typed, Steps, Released, LinkedIsChild, Unbuilt, OldIsFake
<1>2. [chain[sw.new] EXCEPT !.st = "up"] \in Chain
  BY <1>1, ChainFields
<1>3. chain' \in [Chains -> Chain] /\ (\A c \in Chains : c # sw.new => chain'[c] = chain[c])
        /\ chain'[sw.new] = [chain[sw.new] EXCEPT !.st = "up"]
  BY <1>1, <1>2, ChainTyped DEF CInv
<1>4. chain'[sw.new].st = "up"
        /\ chain'[sw.new].kind = chain[sw.new].kind
        /\ chain'[sw.new].child = chain[sw.new].child
        /\ chain'[sw.new].drop = chain[sw.new].drop
        /\ chain'[sw.new].flushing = chain[sw.new].flushing
  BY <1>1, <1>3 DEF Chain
<1>5. \A c \in Chains : chain'[c].kind = chain[c].kind
  BY <1>1, <1>3, <1>4 DEF Chain
<1>6. sw' \in Swap /\ sw'.at = "return"
      /\ sw'.ok = sw.ok /\ sw'.new = sw.new /\ sw'.fallback = sw.fallback
  BY SwapGoes DEF CInv, Typed, SwapSteps
<1>7. Typed'
  BY <1>1, <1>2, <1>3, <1>4, <1>5, <1>6, ChainsAre DEF CInv, Typed, Streaming,
      StreamSteps
<1>8. Supply'
  BY <1>5, <1>6, SupplyKept DEF CInv, MayFallBack, Unbuilt, Steps
<1>9. Steps'
  BY <1>1, <1>3, <1>4, <1>5, <1>6, ChainsAre DEF CInv, Typed, Steps, Unbuilt,
      UnderProbe, LinkedIsChild
<1>10. Released' /\ InsideLinked'
  BY <1>1, <1>3, <1>4, <1>6 DEF CInv, Typed, Released, OldIsFake, Unbuilt, Steps,
      InsideLinked, Inside, Cutting
<1>11. Passable'
  BY <1>1, <1>3, <1>4, <1>6 DEF CInv, Typed, Passable, UnderProbe, Steps
<1>12. OneChild' /\ LinkedIsChild' /\ FlowUnbroken'
  BY <1>1, <1>3, <1>4, <1>6, BoundsAssumption DEF CInv, Typed, OneChild,
      LinkedIsChild, Steps, FlowUnbroken
<1> QED
  BY <1>7, <1>8, <1>9, <1>10, <1>11, <1>12 DEF CInv

\* The probe is removed.
LEMMA RemoveProbeKeeps ==
    ASSUME CInv, RemoveProbe
    PROVE  CInv'
<1> USE DEF SwapAt, Goto
<1>1. sw' \in Swap /\ sw'.at = (IF dir = "src" /\ sw.ok THEN "advance" ELSE "return")
      /\ sw'.ok = sw.ok /\ sw'.new = sw.new /\ sw'.fallback = sw.fallback
  BY SwapGoes DEF CInv, Typed, SwapSteps, RemoveProbe
<1>2. Typed'
  BY <1>1, ChainsAre DEF CInv, Typed, Streaming, StreamSteps, RemoveProbe
<1>3. Supply'
  BY <1>1, SupplyKept DEF CInv, MayFallBack, Unbuilt, Steps, RemoveProbe
<1>4. Steps'
  BY <1>1, ChainsAre DEF CInv, Typed, Steps, Unbuilt, UnderProbe, LinkedIsChild,
      RemoveProbe
<1>5. Released' /\ InsideLinked'
  BY <1>1 DEF CInv, Typed, Released, OldIsFake, Unbuilt, Steps, InsideLinked, Inside,
      Cutting, RemoveProbe
<1>6. Passable'
  BY <1>1 DEF CInv, Typed, Passable, UnderProbe, Steps, RemoveProbe
<1>7. OneChild' /\ LinkedIsChild' /\ FlowUnbroken'
  BY <1>1, BoundsAssumption DEF CInv, Typed, OneChild, LinkedIsChild, Steps,
      FlowUnbroken, RemoveProbe
<1> QED
  BY <1>2, <1>3, <1>4, <1>5, <1>6, <1>7 DEF CInv

\* The mutex is released.
LEMMA ReleaseGhostKeeps ==
    ASSUME CInv, ReleaseGhost
    PROVE  CInv'
<1> USE DEF SwapAt, Goto
<1>1. sw' \in Swap /\ sw'.at = "idle"
  BY DEF Swap, None, CInv, Typed, SwapSteps, ReleaseGhost, IdleSwap
<1>2. Typed'
  BY <1>1, ChainsAre DEF CInv, Typed, Streaming, StreamSteps, ReleaseGhost, IdleSwap
<1>3. Supply'
  BY <1>1, SupplyKept DEF CInv, MayFallBack, Unbuilt, Steps, ReleaseGhost, IdleSwap
<1>4. Steps'
  BY <1>1, ChainsAre DEF CInv, Typed, Steps, Unbuilt, UnderProbe, LinkedIsChild,
      ReleaseGhost, IdleSwap
<1>5. Released' /\ InsideLinked'
  BY <1>1 DEF CInv, Typed, Released, OldIsFake, Unbuilt, Steps, InsideLinked, Inside,
      Cutting, ReleaseGhost, IdleSwap
<1>6. Passable'
  BY <1>1 DEF CInv, Typed, Passable, UnderProbe, Steps, ReleaseGhost, IdleSwap
<1>7. OneChild' /\ LinkedIsChild' /\ FlowUnbroken'
  BY <1>1, BoundsAssumption DEF CInv, Typed, OneChild, LinkedIsChild, Steps,
      FlowUnbroken, ReleaseGhost, IdleSwap
<1> QED
  BY <1>2, <1>3, <1>4, <1>5, <1>6, <1>7 DEF CInv

\* The failed sink gives way to its fallback.
LEMMA FallbackKeeps ==
    ASSUME CInv, link_fallback_sink
    PROVE  CInv'
<1> USE DEF SwapAt
<1>1. /\ sw.new \in Chains /\ chain[sw.new].kind # "none" /\ chain[sw.new] \in Chain
      /\ sw \in Swap /\ "unblock" \in SwapSteps /\ budget \in Budget
      /\ linked \in Chains \cup {None} /\ probe = "on" /\ budget.failures # MaxFailures
      /\ dir \in {"sink", "src"}
  BY DEF CInv, Typed, Steps, Unbuilt, UnderProbe, OneChild, SwapSteps, link_fallback_sink
<1>2. sw' \in Swap /\ sw'.at = "unblock" /\ ~sw'.ok /\ sw'.new = sw.new /\ sw'.fallback = sw.fallback
  <2>1. sw' = [sw EXCEPT !.at = "unblock", !.ok = FALSE]
    BY DEF link_fallback_sink
  <2> QED BY <1>1, <2>1 DEF Swap
<1>3. /\ budget' \in Budget /\ budget'.failures # MaxFailures /\ budget'.swaps = budget.swaps
      /\ cut' \in BOOLEAN /\ cut => cut'
  BY <1>1, BudgetTyped, BoundsAssumption DEF link_fallback_sink, Fails, CInv, Typed, Budget
<1> DEFINE old == StopOld(sw.new)
           fake == [build_fake_sink EXCEPT !.st = "up", !.child = TRUE]
<1>4. /\ old \in Chain /\ ~old.child /\ old.kind = chain[sw.new].kind
      /\ old.drop = chain[sw.new].drop /\ old.flushing = chain[sw.new].flushing
  BY <1>1 DEF StopOld, Chain
<1>5. /\ fake \in Chain /\ fake.child /\ fake.kind = "fake" /\ fake.st = "up"
      /\ ~fake.flushing
  BY DEF build_fake_sink, NoChain, Chain
<1> HIDE DEF old, fake
<1>6. PICK n \in Chains : BuiltUpTo(n) /\ n + Needed <= 2 * MaxSwaps + 1
  BY DEF CInv, Supply
<1>7. /\ n + 1 \in Chains /\ n + Needed' <= 2 * MaxSwaps
  BY <1>1, <1>2, <1>3, <1>6, ChainsAre, BoundsAssumption
     DEF link_fallback_sink, Needed, MayFallBack, Unbuilt, Budget
<1>8. NewChain = n + 1 /\ n + 1 # sw.new /\ chain[n + 1].kind = "none"
  BY <1>1, <1>6, <1>7, NewChainIsNext, ChainsAre DEF BuiltUpTo
<1>9. CASE linked' = n + 1 /\ chain' = [chain EXCEPT ![sw.new] = old, ![n + 1] = fake]
  <2>1. /\ chain' \in [Chains -> Chain] /\ chain'[sw.new] = old /\ chain'[n + 1] = fake
        /\ \A c \in Chains : c # sw.new /\ c # n + 1 => chain'[c] = chain[c]
    BY <1>9, <1>1, <1>4, <1>5, <1>7, <1>8 DEF CInv, Typed
  <2>2. Typed'
    BY <1>9, <2>1, <1>2, <1>3, <1>7 DEF CInv, Typed, link_fallback_sink
  <2>3. BuiltUpTo(n + 1)'
    BY <2>1, <1>1, <1>4, <1>5, <1>6, <1>7, <1>8, ChainsAre DEF BuiltUpTo
  <2>4. Supply'
    <3>1. Needed' \in Nat
      BY <1>3, BoundsAssumption DEF Needed, Budget
    <3> QED BY <2>3, <3>1, <1>7, ChainsAre, BoundsAssumption DEF Supply
  <2>5. Steps'
    BY <1>9, <1>1, <1>2, <1>7, ChainsAre
       DEF CInv, Steps, Unbuilt, UnderProbe, link_fallback_sink
  <2>6. Released'
    BY <1>2, <2>1, <1>4, <1>5, <1>1 DEF CInv, Released, link_fallback_sink
  <2>7. InsideLinked'
    BY <1>2 DEF CInv, InsideLinked, Inside, Cutting, link_fallback_sink
  <2>8. Passable'
    BY <1>9, <1>1, <1>2, <1>3, <1>5, <1>7, <2>1, ChainsAre
       DEF CInv, Passable, link_fallback_sink
  <2>9. OneChild' /\ LinkedIsChild' /\ FlowUnbroken'
    BY <1>9, <1>3, <1>5, <2>1
       DEF CInv, OneChild, LinkedIsChild, FlowUnbroken, link_fallback_sink
  <2> QED BY <2>2, <2>4, <2>5, <2>6, <2>7, <2>8, <2>9 DEF CInv
<1>10. CASE linked' = None /\ chain' = [chain EXCEPT ![sw.new] = old] /\ cut'
  <2>1. /\ chain' \in [Chains -> Chain] /\ chain'[sw.new] = old
        /\ \A c \in Chains : c # sw.new => chain'[c] = chain[c]
    BY <1>10, <1>1, <1>4 DEF CInv, Typed
  <2>2. \A c \in Chains : chain'[c].kind = chain[c].kind
    BY <2>1, <1>4
  <2>3. Typed'
    BY <1>10, <2>1, <1>2, <1>3 DEF CInv, Typed, link_fallback_sink
  <2>4. Supply'
    BY <2>2, <1>2, <1>3, SupplyKept DEF CInv, MayFallBack, Unbuilt, link_fallback_sink
  <2>5. Steps'
    BY <1>10, <1>1, <1>2 DEF CInv, Steps, Unbuilt, UnderProbe, link_fallback_sink
  <2>6. Released'
    BY <1>2, <2>1, <1>4, <1>1 DEF CInv, Released, link_fallback_sink
  <2>7. InsideLinked'
    BY <1>2 DEF CInv, InsideLinked, Inside, Cutting, link_fallback_sink
  <2>8. Passable' /\ OneChild' /\ LinkedIsChild' /\ FlowUnbroken'
    BY <1>10, <1>3 DEF Passable, OneChild, LinkedIsChild, FlowUnbroken
  <2> QED BY <2>3, <2>4, <2>5, <2>6, <2>7, <2>8 DEF CInv
<1>11. CASE linked' = linked /\ chain' = chain /\ cut'
  <2>1. Typed'
    BY <1>11, <1>2, <1>3 DEF CInv, Typed, link_fallback_sink
  <2>2. Supply'
    BY <1>11, <1>2, <1>3, SupplyKept DEF CInv, MayFallBack, Unbuilt, link_fallback_sink
  <2>3. Steps' /\ Released'
    BY <1>11, <1>1, <1>2
       DEF CInv, Steps, Released, OldIsFake, Unbuilt, UnderProbe, link_fallback_sink
  <2>4. InsideLinked'
    BY <1>2 DEF CInv, InsideLinked, Inside, Cutting, link_fallback_sink
  <2>5. Passable' /\ OneChild' /\ LinkedIsChild' /\ FlowUnbroken'
    BY <1>11, <1>3 DEF CInv, Passable, OneChild, LinkedIsChild, FlowUnbroken
  <2> QED BY <2>1, <2>2, <2>3, <2>4, <2>5 DEF CInv
<1> QED
  BY <1>8, <1>9, <1>10, <1>11 DEF link_fallback_sink, old, fake

\* A swap begins: the next chain is built.
LEMMA SwapInnerKeeps ==
    ASSUME CInv, NEW kind \in {"real", "fake"}, NEW fallback \in BOOLEAN,
           swap_inner(kind, fallback)
    PROVE  CInv'
<1> DEFINE new == [NoChain EXCEPT !.kind = kind]
<1>1. new \in Chain /\ new.kind = kind /\ ~new.child /\ ~new.flushing
  BY DEF NoChain, Chain
<1> HIDE DEF new
<1>2. /\ sw.at = "idle" /\ probe = "off" /\ lock = "free" /\ budget \in Budget
      /\ budget' \in Budget /\ budget'.swaps = budget.swaps - 1
      /\ budget'.failures = budget.failures
  BY BudgetTyped DEF CInv, Typed, Steps, swap_inner, UnderProbe
<1>3. PICK n \in Chains : BuiltUpTo(n) /\ n + Needed <= 2 * MaxSwaps + 1
  BY DEF CInv, Supply
<1>4. n + 1 \in Chains /\ n + 1 + 2 * budget'.swaps + 1 <= 2 * MaxSwaps + 1
  BY <1>2, <1>3, ChainsAre, BoundsAssumption
     DEF swap_inner, Needed, MayFallBack, Unbuilt, Budget
<1>5. NewChain = n + 1 /\ chain[n + 1].kind = "none"
  BY <1>3, <1>4, NewChainIsNext, ChainsAre DEF BuiltUpTo
<1>6. /\ chain' \in [Chains -> Chain] /\ chain'[n + 1] = new
      /\ \A c \in Chains : c # n + 1 => chain'[c] = chain[c]
  BY <1>1, <1>4, <1>5, BuildIs DEF CInv, Typed, swap_inner, new
<1>7. PICK drain \in BOOLEAN :
        sw' = [at |-> "flush", new |-> n + 1, fallback |-> fallback, drain |-> drain, ok |-> TRUE]
  BY <1>5 DEF swap_inner
<1>8. sw' \in Swap /\ sw'.at = "flush" /\ sw'.new = n + 1
  BY <1>4, <1>7 DEF Swap, SwapSteps
<1>9. linked # n + 1
  BY <1>4, <1>5, ChainsAre DEF CInv, LinkedIsChild
<1>10. Typed'
  BY <1>2, <1>6, <1>8 DEF CInv, Typed, swap_inner
<1>11. Supply'
  <2>1. BuiltUpTo(n + 1)'
    BY <1>1, <1>3, <1>4, <1>6, ChainsAre DEF BuiltUpTo
  <2>2. n + 1 + Needed' <= 2 * MaxSwaps + 1
    BY <1>2, <1>4, <1>8, ChainsAre, BoundsAssumption DEF Needed, MayFallBack, Unbuilt, Budget
  <2> QED BY <2>1, <2>2, <1>4 DEF Supply
<1>12. Steps'
  BY <1>1, <1>2, <1>4, <1>6, <1>8 DEF CInv, Steps, UnderProbe, swap_inner
<1>13. Released'
  BY <1>1, <1>6, <1>8 DEF CInv, Released
<1>14. InsideLinked'
  BY <1>6, <1>8, <1>9 DEF CInv, Typed, InsideLinked, Inside, Cutting, swap_inner
<1>15. Passable'
  BY <1>2, <1>6, <1>8, <1>9 DEF CInv, Typed, Passable, swap_inner
<1>16. OneChild'
  BY <1>1, <1>2, <1>6, <1>8 DEF CInv, OneChild, swap_inner
<1>17. LinkedIsChild' /\ FlowUnbroken'
  BY <1>6, <1>9 DEF CInv, Typed, LinkedIsChild, FlowUnbroken, swap_inner
<1> QED
  BY <1>10, <1>11, <1>12, <1>13, <1>14, <1>15, <1>16, <1>17 DEF CInv

-----------------------------------------------------------------------------
(* The streaming thread. *)

\* A step of the streaming thread that leaves the bin alone.
LEMMA StreamKeeps ==
    ASSUME CInv, UNCHANGED <<dir, chain, linked, probe, lock, sw, cut>>,
           budget' = budget \/ Posts, stream' \in Streaming, InsideLinked', FlowUnbroken'
    PROVE  CInv'
<1>1. /\ budget' \in Budget /\ budget'.swaps = budget.swaps
      /\ budget'.failures = budget.failures
  BY BudgetTyped DEF CInv, Typed, Posts
<1>2. Typed'
  BY <1>1 DEF CInv, Typed
<1>3. Supply'
  BY <1>1, SupplyKept DEF CInv, MayFallBack
<1>4. Steps' /\ Released'
  BY DEF CInv, Steps, Released, OldIsFake
<1>5. Passable' /\ OneChild' /\ LinkedIsChild'
  BY <1>1 DEF CInv, Passable, OneChild, LinkedIsChild
<1> QED BY <1>2, <1>3, <1>4, <1>5 DEF CInv

\* A buffer enters the linked chain, waits in the probe or fails.
LEMMA PushBufferKeeps ==
    ASSUME CInv, PushBuffer
    PROVE  CInv'
<1>1. \/ probe = "on" /\ Stream("probe", None)
      \/ probe = "off" /\ linked = None /\ Stream("broken", None)
      \/ probe = "off" /\ linked # None /\ chain[linked].st # "up" /\ Stream("broken", None)
      \/ probe = "off" /\ linked # None /\ Stream("in", linked)
  BY DEF CInv, Typed, PushBuffer
<1>2. stream' \in Streaming
  BY <1>1 DEF CInv, Typed, Stream, Streaming, StreamSteps
<1>3. InsideLinked'
  BY <1>1 DEF CInv, Typed, Steps, InsideLinked, Inside, Stream, PushBuffer, SinkFrame, Cutting,
              UnderProbe
<1>4. FlowUnbroken'
  BY <1>1 DEF CInv, Passable, FlowUnbroken, Stream, PushBuffer, SinkFrame
<1> QED BY <1>2, <1>3, <1>4, StreamKeeps DEF PushBuffer, SinkFrame

\* The other steps of both streaming threads: none enters a chain, and a
\* flushing chain drops.
LEMMA StreamingKeeps ==
    ASSUME CInv,
           ProbeLifted \/ Render \/ Woken \/ ClockReached \/ CreateEnds \/ Produce \/ Pushed
             \/ PostError \/ handle_message
    PROVE  CInv'
<1> USE DEF Stream, SinkFrame
<1>1. stream \in Streaming /\ dir \in {"sink", "src"}
  BY DEF CInv, Typed
<1>2. CASE ProbeLifted
  <2>1. stream' \in Streaming
    BY <1>1, <1>2 DEF ProbeLifted, Streaming, StreamSteps
  <2>2. InsideLinked' /\ FlowUnbroken'
    BY <1>2, <1>1 DEF ProbeLifted, InsideLinked, Inside, FlowUnbroken
  <2> QED BY <1>2, <2>1, <2>2, StreamKeeps DEF ProbeLifted
<1>3. CASE Render
  <2>1. /\ dir = "sink" /\ stream.in = linked /\ linked \in Chains /\ sw.at \notin Cutting
        /\ chain[linked].flushing => chain[linked].drop
    BY <1>3 DEF Render, CInv, Typed, InsideLinked, Inside, Released
  <2>2. \/ Stream("away", None)
        \/ chain[linked].kind = "fake" /\ Stream("clock", linked)
    BY <1>3, <2>1 DEF Render
  <2>3. stream' \in Streaming
    BY <2>1, <2>2 DEF Streaming, StreamSteps
  <2>4. InsideLinked' /\ FlowUnbroken'
    BY <2>1, <2>2, <1>3, ChainsAre DEF Render, InsideLinked, Inside, FlowUnbroken
  <2> QED BY <1>3, <2>3, <2>4, StreamKeeps DEF Render
<1>4. CASE Woken \/ ClockReached
  <2>1. /\ dir = "sink" /\ stream.in = linked /\ linked \in Chains
        /\ chain[linked].flushing => chain[linked].drop
    BY <1>4 DEF Woken, ClockReached, CInv, Typed, InsideLinked, Inside, Released
  <2>2. Stream("away", None)
    BY <1>4, <2>1 DEF Woken, ClockReached
  <2>3. stream' \in Streaming /\ InsideLinked' /\ FlowUnbroken'
    BY <1>4, <2>1, <2>2
       DEF Woken, ClockReached, Streaming, StreamSteps, InsideLinked, Inside, FlowUnbroken
  <2> QED BY <1>4, <2>3, StreamKeeps DEF Woken, ClockReached
<1>5. CASE CreateEnds \/ Produce \/ Pushed
  <2>1. stream' \in Streaming
    BY <1>1, <1>5 DEF CreateEnds, Produce, Pushed, Streaming, StreamSteps
  <2>2. InsideLinked' /\ FlowUnbroken'
    BY <1>1, <1>5 DEF CInv, CreateEnds, Produce, Pushed, InsideLinked, Inside, FlowUnbroken
  <2> QED BY <1>5, <2>1, <2>2, StreamKeeps DEF CreateEnds, Produce, Pushed
<1>6. CASE PostError
  <2>1. stream' = [at |-> "post", in |-> stream.in]
    BY <1>6 DEF PostError
  <2>2. stream' \in Streaming /\ FlowUnbroken'
    BY <1>1, <2>1 DEF Streaming, StreamSteps, FlowUnbroken
  <2>3. ASSUME dir = "sink", stream.at = "create"
        PROVE  FALSE
    BY <2>3 DEF CInv, InsideLinked
  <2>4. InsideLinked'
    BY <1>1, <1>6, <2>1, <2>3 DEF PostError, CInv, InsideLinked, Inside
  <2> QED BY <1>6, <2>2, <2>4, StreamKeeps DEF PostError
<1>7. CASE handle_message
  <2>1. stream' \in Streaming /\ InsideLinked' /\ FlowUnbroken'
    BY <1>1, <1>7
       DEF handle_message, Streaming, StreamSteps, InsideLinked, Inside, FlowUnbroken
  <2> QED BY <1>7, <2>1, StreamKeeps DEF handle_message
<1> QED BY <1>2, <1>3, <1>4, <1>5, <1>6, <1>7

\* The first create() undoes an unlock.
LEMMA FirstCreateKeeps ==
    ASSUME CInv, FirstCreate
    PROVE  CInv'
<1>1. /\ chain \in [Chains -> Chain] /\ stream \in Streaming
      /\ chain' = [chain EXCEPT ![stream.in].unlocked = FALSE]
      /\ stream' = [at |-> "create", in |-> stream.in]
  BY DEF CInv, Typed, FirstCreate, Stream
<1>2. chain' \in [Chains -> Chain]
  BY <1>1 DEF Chain
<1>3. \A c \in Chains :
        /\ chain'[c].kind = chain[c].kind /\ chain'[c].st = chain[c].st
        /\ chain'[c].child = chain[c].child /\ chain'[c].drop = chain[c].drop
        /\ chain'[c].flushing = chain[c].flushing
  BY <1>1 DEF Chain
<1>4. Typed'
  BY <1>1, <1>2 DEF CInv, Typed, FirstCreate, Streaming, StreamSteps
<1>5. Supply'
  BY <1>3, SupplyKept DEF CInv, MayFallBack, FirstCreate
<1>6. Steps'
  BY <1>3 DEF CInv, Typed, Swap, Steps, Unbuilt, FirstCreate
<1>7. Released'
  BY <1>3 DEF CInv, Typed, Released, OldIsFake, FirstCreate
<1>8. InsideLinked' /\ FlowUnbroken'
  BY <1>1 DEF CInv, FirstCreate, InsideLinked, Inside, FlowUnbroken
<1>9. Passable' /\ OneChild' /\ LinkedIsChild'
  BY <1>3 DEF CInv, Typed, Passable, OneChild, LinkedIsChild, FirstCreate
<1> QED BY <1>4, <1>5, <1>6, <1>7, <1>8, <1>9 DEF CInv

-----------------------------------------------------------------------------
(* The theorems. *)

LEMMA CInvInit == Init => CInv
<1> SUFFICES ASSUME Init PROVE CInv
  OBVIOUS
<1> DEFINE first == [Build("fake") EXCEPT !.st = "up", !.child = TRUE]
<1>1. /\ first \in Chain /\ first.st = "up" /\ first.child /\ first.kind = "fake"
      /\ ~first.flushing
  BY BuildIs DEF NoChain, Chain
<1>2. NoChain \in Chain /\ NoChain.kind = "none" /\ ~NoChain.child /\ ~NoChain.flushing
  BY DEF NoChain, Chain
<1> HIDE DEF first
<1>3. /\ chain \in [Chains -> Chain] /\ chain[1] = first
      /\ \A c \in Chains : c # 1 => chain[c] = NoChain
  BY <1>1, <1>2, ChainsAre DEF Init, first
<1>4. Typed
  <2>1. stream \in Streaming
    BY ChainsAre DEF Init, Streaming, StreamSteps
  <2>2. sw \in Swap
    BY DEF Init, Swap, SwapSteps, IdleSwap
  <2>3. budget \in Budget
    BY BoundsAssumption DEF Init, Budget
  <2> QED BY <1>3, <2>1, <2>2, <2>3, ChainsAre DEF Init, Typed
<1>5. Supply
  <2>1. BuiltUpTo(1)
    BY <1>1, <1>2, <1>3, ChainsAre DEF BuiltUpTo
  <2>2. 1 + Needed <= 2 * MaxSwaps + 1
    BY BoundsAssumption DEF Init, IdleSwap, Needed, MayFallBack, Unbuilt
  <2> QED BY <2>1, <2>2, ChainsAre DEF Supply
<1>6. Steps
  BY DEF Init, IdleSwap, Steps, UnderProbe, Unbuilt
<1>7. Released
  BY <1>1, <1>2, <1>3 DEF Init, IdleSwap, Released
<1>8. InsideLinked /\ FlowUnbroken
  BY DEF Init, InsideLinked, Inside, FlowUnbroken
<1>9. Passable /\ LinkedIsChild
  <2>1. linked = 1 /\ linked # None
    BY DEF Init, None
  <2> QED BY <2>1, <1>1, <1>3 DEF Passable, LinkedIsChild
<1>10. OneChild
  BY <1>2, <1>3 DEF Init, IdleSwap, OneChild
<1> QED BY <1>4, <1>5, <1>6, <1>7, <1>8, <1>9, <1>10 DEF CInv

LEMMA SwapThreadKeeps ==
    ASSUME CInv, SwapThread
    PROVE  CInv'
<1>1. CASE flush_external_of_ghost \/ FlushFakeSink \/ UnlockSource
  BY <1>1, FlushExternalKeeps, FlushFakeSinkKeeps, UnlockKeeps
<1>2. CASE release_fake_sink_clock_wait \/ release_fake_src_create_wait
  BY <1>2, DropKeeps, NoDropKeeps, EosKeeps, NoEosKeeps
<1>3. CASE StopSource
  BY <1>3, StoppedKeeps, ReturnsFailedKeeps DEF StopSource, SwapAt, CInv, Typed
<1>4. CASE InstallProbe \/ ProbeFired \/ ProbeTimeout
  BY <1>4, InstallProbeKeeps, ProbeFiredKeeps, ProbeTimeoutKeeps
<1>5. CASE swap_chain_inner
  BY <1>5, UnlinkNothingKeeps, UnlinkKeeps, UnlinkFailsKeeps, UnlinkPostsKeeps
     DEF swap_chain_inner
<1>6. CASE install_new_chain
  BY <1>6, InstallKeeps, ToFallbackKeeps DEF install_new_chain, SwapAt
<1>7. CASE ready_chain
  BY <1>7, ReadyKeeps, ToFallbackKeeps, SelfPostKeeps DEF ready_chain, SwapAt
<1>8. CASE AdvanceSink
  BY <1>8, SinkUpKeeps, ToFallbackKeeps, SelfPostKeeps DEF AdvanceSink, SwapAt
<1>9. CASE AdvanceSource
  BY <1>9, SourceUpKeeps, ReturnsFailedKeeps, SelfPostKeeps DEF AdvanceSource, SwapAt
<1>10. CASE link_fallback_sink \/ RemoveProbe \/ ReleaseGhost
  BY <1>10, FallbackKeeps, RemoveProbeKeeps, ReleaseGhostKeeps
<1> QED
  BY <1>1, <1>2, <1>3, <1>4, <1>5, <1>6, <1>7, <1>8, <1>9, <1>10 DEF SwapThread

LEMMA CInvStep == CInv /\ [Next]_vars => CInv'
<1> SUFFICES ASSUME CInv, [Next]_vars PROVE CInv'
  OBVIOUS
<1>1. CASE Activate
  <2> PICK kind \in {"real", "fake"}, fallback \in {FALSE, dir = "sink"} :
        swap_inner(kind, fallback)
    BY <1>1 DEF Activate
  <2> QED BY SwapInnerKeeps
<1>2. CASE RestoreFake
  BY <1>2, SwapInnerKeeps DEF RestoreFake
<1>3. CASE SwapThread
  BY <1>3, SwapThreadKeeps
<1>4. CASE StreamThread \/ ClockReached \/ PostError
  BY <1>4, StreamingKeeps, FirstCreateKeeps DEF StreamThread
<1>5. CASE PushBuffer
  BY <1>5, PushBufferKeeps
<1>6. CASE source_is_in_current_chain \/ UNCHANGED vars
  <2>1. UNCHANGED <<dir, chain, linked, probe, stream, lock, sw, cut, budget>>
    BY <1>6 DEF source_is_in_current_chain, vars
  <2>2. stream' \in Streaming /\ InsideLinked' /\ FlowUnbroken'
    BY <2>1 DEF CInv, Typed, InsideLinked, Inside, FlowUnbroken
  <2> QED BY <2>1, <2>2, StreamKeeps
<1> QED BY <1>1, <1>2, <1>3, <1>4, <1>5, <1>6 DEF Next

\* CInv holds in every reachable state of the bin.
THEOREM SwapInvariant == Spec => []CInv
BY CInvInit, CInvStep, PTL DEF Spec

\* At most one chain of the bin runs while no step of a swap has failed.
LEMMA OneChildRuns ==
    ASSUME CInv
    PROVE  OneRunningChain
<1> SUFFICES ASSUME budget.failures = MaxFailures
             PROVE  Cardinality({c \in Chains : chain[c].child /\ chain[c].st = "up"}) <= 1
  BY DEF OneRunningChain
<1> DEFINE R == {c \in Chains : chain[c].child /\ chain[c].st = "up"}
<1>1. \A c, d \in R : c = d
  BY DEF CInv, OneChild
<1>2. CASE R = {}
  BY <1>2, FS_EmptySet
<1>3. CASE R # {}
  <2> PICK c \in R : R = {c}
    BY <1>1, <1>3
  <2> QED BY FS_Singleton
<1> QED BY <1>2, <1>3

\* swap_inner keeps the bin consistent: a linked chain is a child, the probe
\* and the mutex go with the swap, at most one chain runs as long as nothing
\* failed, and upstream meets an error only after a swap without a way out.
THEOREM SwapCorrect == Spec => []SwapInv
<1>1. CInv => SwapInv
  <2> SUFFICES ASSUME CInv PROVE SwapInv
    OBVIOUS
  <2>1. TypeOK
    BY DEF CInv, Typed, Chain, Steps, UnderProbe, LinkedIsChild, TypeOK
  <2> QED BY <2>1, OneChildRuns DEF CInv, SwapInv
<1> QED BY <1>1, SwapInvariant, PTL

\* block_and_wait never waits out its time-out for a fake chain
\* (release_fake_sink_clock_wait).
THEOREM FakeNeverBlocks == Spec => FakeReleasesProbe
<1>1. CInv /\ [Next]_vars => [ProbeTimeout => chain[stream.in].kind = "real"]_vars
  <2> SUFFICES ASSUME CInv, ProbeTimeout PROVE chain[stream.in].kind = "real"
    OBVIOUS
  <2>1. stream.in = linked /\ linked # None /\ dir = "sink" /\ sw.at = "blocking"
    BY DEF CInv, InsideLinked, ProbeTimeout, Inside, SwapAt
  <2>2. chain[linked].kind # "fake"
      \/ chain[linked].flushing
    BY <2>1 DEF CInv, Released, OldIsFake
  <2> QED BY <2>1, <2>2 DEF CInv, InsideLinked, Inside, ProbeTimeout
<1> QED BY <1>1, SwapInvariant, PTL DEF Spec, FakeReleasesProbe

=============================================================================
