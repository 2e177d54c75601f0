------------------------------ MODULE Governor ------------------------------
(***************************************************************************)
(* The process-wide resource governor, src/src/local/governor.rs: a global *)
(* ceiling on concurrent engine runs (a fair semaphore) with a background  *)
(* sub-ceiling kept in an atomic gauge beside it.                          *)
(*                                                                         *)
(* A caller is one task that asks for admission, holds the permit for the  *)
(* length of a run and drops it.  An interactive caller queues on the      *)
(* semaphore.  A background caller never waits, but its admission is not   *)
(* one atomic step: it takes the global slot first and compares the gauge  *)
(* afterwards, and its permit's two fields are dropped one after the       *)
(* other, so every load and every compare-exchange is a step of its own.   *)
(***************************************************************************)
EXTENDS Integers, Sequences, FiniteSets, SequencesExt

CONSTANTS
    Interactive,        \* callers on Lane::Interactive
    Background,         \* callers on Lane::Background
    MaxConcurrentRuns,  \* the configured global ceiling, not yet sanitized
    MaxBackgroundRuns,  \* the configured background sub-ceiling, not yet sanitized
    WatermarkEnabled    \* rss_soft_watermark_bytes # 0

ASSUME GovernorAssumption ==
    /\ MaxConcurrentRuns \in Nat
    /\ MaxBackgroundRuns \in Nat
    /\ WatermarkEnabled \in BOOLEAN
    /\ IsFiniteSet(Interactive)
    /\ IsFiniteSet(Background)
    /\ Interactive \cap Background = {}

Callers == Interactive \cup Background

\* GovernorConfig::sanitized: at least one global slot, 1 <= background <= global.
GlobalCeiling == IF MaxConcurrentRuns < 1 THEN 1 ELSE MaxConcurrentRuns
BackgroundCeiling_Global == GlobalCeiling  \* a fault: the sub-ceiling is not enforced
BackgroundCeiling ==
    IF MaxBackgroundRuns < 1 THEN 1
    ELSE IF MaxBackgroundRuns > GlobalCeiling THEN GlobalCeiling
    ELSE MaxBackgroundRuns

VARIABLES
    pc,         \* where each caller is
    free,       \* available permits of the global semaphore
    waiters,    \* interactive callers queued on it, oldest first
    gauge,      \* background_inflight
    cur,        \* the gauge value a background caller loaded last
    overLimit,  \* the process is over the soft RSS watermark right now
    sample      \* rss_cache: "none" (never taken or past its TTL), "under" or "over"

vars == <<pc, free, waiters, gauge, cur, overLimit, sample>>

(***************************************************************************)
(* pc of an interactive caller: idle, waiting, running.                    *)
(* pc of a background caller: idle; reserve (not shed, about to take a     *)
(* global slot); load and cas (holding the slot, in the gauge loop);       *)
(* running; unload and sub (global slot returned, guard being dropped).    *)
(***************************************************************************)
InteractivePC == {"idle", "waiting", "running"}
BackgroundPC == {"idle", "reserve", "load", "cas", "running", "unload", "sub"}

HasSlot == {c \in Callers : pc[c] \in {"load", "cas", "running"}}
Counted == {b \in Background : pc[b] \in {"running", "unload", "sub"}}
Running == {c \in Callers : pc[c] = "running"}

TypeOK ==
    /\ pc \in [Callers -> InteractivePC \cup BackgroundPC]
    /\ \A i \in Interactive : pc[i] \in InteractivePC
    /\ \A b \in Background : pc[b] \in BackgroundPC
    /\ free \in 0..GlobalCeiling
    /\ waiters \in Seq(Interactive)
    /\ gauge \in Nat
    /\ cur \in [Background -> Nat]
    /\ overLimit \in BOOLEAN
    /\ sample \in {"none", "under", "over"}

Init ==
    /\ pc = [c \in Callers |-> "idle"]
    /\ free = GlobalCeiling
    /\ waiters = <<>>
    /\ gauge = 0
    /\ cur = [b \in Background |-> 0]
    /\ overLimit = FALSE
    /\ sample = "none"

-----------------------------------------------------------------------------
(* The global semaphore (tokio): a released permit goes to the oldest      *)
(* waiter and only becomes available when nobody waits.                    *)

\* The pc change of the releasing caller, with the oldest waiter granted.
ReleaseSlot(c, next) ==
    IF waiters = <<>>
    THEN /\ pc' = [pc EXCEPT ![c] = next]
         /\ free' = free + 1
         /\ UNCHANGED waiters
    ELSE /\ pc' = [pc EXCEPT ![c] = next, ![Head(waiters)] = "running"]
         /\ waiters' = Tail(waiters)
         /\ UNCHANGED free

-----------------------------------------------------------------------------
(* The memory watermark.                                                   *)

\* current_rss_bytes + should_shed_background: a fresh sample is reused, a
\* stale one is taken again.  `shed` is the verdict.
ShouldShed(shed) ==
    IF ~WatermarkEnabled
    THEN shed = FALSE /\ UNCHANGED sample
    ELSE /\ sample' = IF sample # "none" THEN sample
                      ELSE IF overLimit THEN "over" ELSE "under"
         /\ shed = (sample' = "over")

\* RSS_SAMPLE_TTL passes.
SampleExpires ==
    /\ sample # "none"
    /\ sample' = "none"
    /\ UNCHANGED <<pc, free, waiters, gauge, cur, overLimit>>

\* The process's footprint crosses the watermark, either way.
MemoryMoves ==
    /\ WatermarkEnabled
    /\ overLimit' = ~overLimit
    /\ UNCHANGED <<pc, free, waiters, gauge, cur, sample>>

-----------------------------------------------------------------------------
(* Faults the checks must notice: each is a changed form of the action     *)
(* whose name it starts with, used only to show that a property can fail.  *)

\* The rejection path forgets to return the global slot.
LoadGauge_KeepsSlot(b) ==
    /\ pc[b] = "load"
    /\ cur' = [cur EXCEPT ![b] = gauge]
    /\ pc' = [pc EXCEPT ![b] = IF gauge >= BackgroundCeiling THEN "idle" ELSE "cas"]
    /\ UNCHANGED <<free, waiters, gauge, overLimit, sample>>

\* A plain store instead of the compare-exchange.
CompareExchange_Store(b) ==
    /\ pc[b] = "cas"
    /\ gauge' = cur[b] + 1
    /\ pc' = [pc EXCEPT ![b] = "running"]
    /\ UNCHANGED <<free, waiters, cur, overLimit, sample>>

\* fetch_add: the check and the increment come apart.
CompareExchange_FetchAdd(b) ==
    /\ pc[b] = "cas"
    /\ gauge' = gauge + 1
    /\ pc' = [pc EXCEPT ![b] = "running"]
    /\ UNCHANGED <<free, waiters, cur, overLimit, sample>>

\* A lost race returns the slot and retries as if it still held it.
CompareExchange_DropsSlot(b) ==
    /\ pc[b] = "cas"
    /\ IF gauge = cur[b]
       THEN gauge' = cur[b] + 1 /\ pc' = [pc EXCEPT ![b] = "running"] /\ UNCHANGED <<free, waiters>>
       ELSE ReleaseSlot(b, "load") /\ UNCHANGED gauge
    /\ UNCHANGED <<cur, overLimit, sample>>

-----------------------------------------------------------------------------
(* admit(Lane::Interactive): acquire_owned().await                         *)

AdmitInteractive(i) ==
    /\ pc[i] = "idle"
    /\ \/ /\ free > 0
          /\ pc' = [pc EXCEPT ![i] = "running"]
          /\ free' = free - 1
          /\ UNCHANGED waiters
       \/ /\ free = 0
          /\ pc' = [pc EXCEPT ![i] = "waiting"]
          /\ waiters' = Append(waiters, i)
          /\ UNCHANGED free
    /\ UNCHANGED <<gauge, cur, overLimit, sample>>

\* The awaiting future is dropped (the API client went away): it leaves the queue.
AbandonWait(i) ==
    /\ pc[i] = "waiting"
    /\ pc' = [pc EXCEPT ![i] = "idle"]
    /\ \E n \in 1..Len(waiters) : waiters[n] = i /\ waiters' = RemoveAt(waiters, n)
    /\ UNCHANGED <<free, gauge, cur, overLimit, sample>>

\* An interactive run ends and its RunPermit drops.
DropInteractive(i) ==
    /\ pc[i] = "running"
    /\ ReleaseSlot(i, "idle")
    /\ UNCHANGED <<gauge, cur, overLimit, sample>>

-----------------------------------------------------------------------------
(* admit_background, step by step.                                         *)

\* 1) Memory shed.
ShedOrReserve(b) ==
    /\ pc[b] = "idle"
    /\ \E shed \in BOOLEAN :
         /\ ShouldShed(shed)
         /\ pc' = [pc EXCEPT ![b] = IF shed THEN "idle" ELSE "reserve"]
    /\ UNCHANGED <<free, waiters, gauge, cur, overLimit>>

\* 2) try_acquire_owned: no free slot rejects.
TryAcquire(b) ==
    /\ pc[b] = "reserve"
    /\ \/ free > 0 /\ free' = free - 1 /\ pc' = [pc EXCEPT ![b] = "load"]
       \/ free = 0 /\ pc' = [pc EXCEPT ![b] = "idle"] /\ UNCHANGED free
    /\ UNCHANGED <<waiters, gauge, cur, overLimit, sample>>

\* 3a) Load the gauge; at the sub-ceiling drop the slot and reject.
LoadGauge(b) ==
    /\ pc[b] = "load"
    /\ cur' = [cur EXCEPT ![b] = gauge]
    /\ IF gauge >= BackgroundCeiling
       THEN ReleaseSlot(b, "idle")
       ELSE pc' = [pc EXCEPT ![b] = "cas"] /\ UNCHANGED <<free, waiters>>
    /\ UNCHANGED <<gauge, overLimit, sample>>

\* 3b) compare_exchange(cur, cur + 1); a lost race loads again.
CompareExchange(b) ==
    /\ pc[b] = "cas"
    /\ IF gauge = cur[b]
       THEN gauge' = cur[b] + 1 /\ pc' = [pc EXCEPT ![b] = "running"]
       ELSE pc' = [pc EXCEPT ![b] = "load"] /\ UNCHANGED gauge
    /\ UNCHANGED <<free, waiters, cur, overLimit, sample>>

\* A background RunPermit drops: fields drop in declaration order, _global first.
DropGlobal(b) ==
    /\ pc[b] = "running"
    /\ ReleaseSlot(b, "unload")
    /\ UNCHANGED <<gauge, cur, overLimit, sample>>

\* ... then BackgroundGuard::drop loads the gauge,
DropLoad(b) ==
    /\ pc[b] = "unload"
    /\ pc' = [pc EXCEPT ![b] = IF gauge > 0 THEN "sub" ELSE "idle"]
    /\ UNCHANGED <<free, waiters, gauge, cur, overLimit, sample>>

\* ... and subtracts one (fetch_sub).
DropSub(b) ==
    /\ pc[b] = "sub"
    /\ pc' = [pc EXCEPT ![b] = "idle"]
    /\ gauge' = gauge - 1
    /\ UNCHANGED <<free, waiters, cur, overLimit, sample>>

-----------------------------------------------------------------------------
AdmissionStep(b) ==
    TryAcquire(b) \/ LoadGauge(b) \/ CompareExchange(b) \/ DropLoad(b) \/ DropSub(b)

Next ==
    \/ \E i \in Interactive : AdmitInteractive(i) \/ AbandonWait(i) \/ DropInteractive(i)
    \/ \E b \in Background : ShedOrReserve(b) \/ DropGlobal(b) \/ AdmissionStep(b)
    \/ SampleExpires
    \/ MemoryMoves

(***************************************************************************)
(* Fairness.  Background admission and the drop of a permit are straight   *)
(* line code with no await: once started they run to their end.  Interac-  *)
(* tive runs end (the whole-run budget of engine/real.rs).  Nothing is     *)
(* assumed about background runs: they may hold their slots forever.       *)
(***************************************************************************)
Fairness ==
    /\ \A b \in Background : WF_vars(AdmissionStep(b))
    /\ \A i \in Interactive : WF_vars(DropInteractive(i))

Spec == Init /\ [][Next]_vars /\ Fairness

-----------------------------------------------------------------------------
(* Properties.                                                             *)

\* The gauge counts exactly the background permits that are alive or being
\* dropped: no admission, rejection, lost CAS race or drop ever leaks a unit
\* (admit_background, BackgroundGuard::drop).
GaugeExact == gauge = Cardinality(Counted)

\* No slot is lost or minted by a rejection, a hand-over to a waiter or an
\* abandoned wait; nobody waits while a slot is available, and the queue holds
\* each waiting caller exactly once (admit, RunPermit).
SlotsConserved ==
    /\ free + Cardinality(HasSlot) = GlobalCeiling
    /\ waiters # <<>> => free = 0
    /\ \A n \in 1..Len(waiters) : pc[waiters[n]] = "waiting"
    /\ \A m, n \in 1..Len(waiters) : waiters[m] = waiters[n] => m = n
    /\ \A i \in Interactive :
         pc[i] = "waiting" => \E n \in 1..Len(waiters) : waiters[n] = i

\* However the loads and compare-exchanges of concurrent background admissions
\* interleave, the runs in flight stay within both ceilings: the governor
\* implements an atomic pool of slots.
Pool == INSTANCE SlotPool WITH
    Ceiling <- GlobalCeiling, BackgroundLimit <- BackgroundCeiling, running <- Running
ImplementsPool == Pool!PoolSpec

\* Interactive headroom (GovernorConfig::max_background_runs): a waiting
\* interactive caller is served, or gives up, even if no background run ever
\* returns its slot.
InteractiveServed == \A i \in Interactive : pc[i] = "waiting" ~> pc[i] # "waiting"
=============================================================================
