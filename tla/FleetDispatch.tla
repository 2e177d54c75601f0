--------------------------- MODULE FleetDispatch ----------------------------
(***************************************************************************)
(* Coordinator-dispatched tasks on a fleet worker,                         *)
(* src/src/bridge/fleet_bridge.rs: the at-least-once dispatch, the         *)
(* idempotency ledger, the spawned handlers with their RAII claims, the    *)
(* task_id -> run_id map behind cancel_task, and the outgoing channel that *)
(* carries results across reconnects.                                      *)
(*                                                                         *)
(* A task is dispatched by id (run_local_workflow, admitted inside the     *)
(* engine) or as a whole definition (execute_workflow, admitted by the     *)
(* read loop).  The coordinator may send any task again at any time.       *)
(***************************************************************************)
EXTENDS Integers, Sequences, FiniteSets, SequencesExt

CONSTANTS
    ById, Wire,     \* the tasks, by kind of dispatch
    Limit,          \* background admissions the governor grants at once
    LedgerCap,      \* TASK_LEDGER_CAP
    MaxQueue,       \* bound: frames in the outgoing channel
    MaxFaults,      \* bound: connections that die with a frame in hand, handlers that panic
    MaxCrashes      \* bound: process restarts

Tasks == ById \cup Wire

ASSUME FleetDispatchAssumption ==
    /\ IsFiniteSet(ById) /\ IsFiniteSet(Wire) /\ ById \cap Wire = {}
    /\ Limit \in Nat \ {0} /\ LedgerCap \in Nat
    /\ MaxQueue \in Nat \ {0} /\ MaxFaults \in Nat /\ MaxCrashes \in Nat

Handlers == {1, 2}   \* spawned tasks that can serve the same task id at once

VARIABLES
    slot,     \* the ledger: "none", "running" or the cached terminal result
    done,     \* tasks with a cached result, oldest first
    pc,       \* where each handler of each task is
    runs,     \* dispatched_runs: which handler's run cancel_task would reach
    cancel,   \* runs whose cancel token is set
    out,      \* the stable outgoing channel
    told,     \* tasks the coordinator has received a task_result for
    ran,      \* executions of the task that the ledger still vouches for, up to 2
    early,    \* tasks whose entry was evicted while a handler still had to do with it
    faults, crashes

vars == <<slot, done, pc, runs, cancel, out, told, ran, early, faults, crashes>>

\* A task_result: how the run or its validation ended, or a full worker's refusal.
Results == {"final", "busy"}

(***************************************************************************)
(* pc of a handler: none; gate (by id: loading, preflight, not admitted);  *)
(* admitted (by id: permit held, row not yet published); run; returned     *)
(* (run over, frame in hand); dropping (settled, guards not yet dropped).  *)
(***************************************************************************)
PC == {"none", "gate", "admitted", "run", "returned", "dropping"}
Working == {"gate", "admitted", "run", "returned"}

TypeOK ==
    /\ slot \in [Tasks -> Results \cup {"none", "running"}]
    /\ done \in Seq(Tasks) /\ IsInjective(done)
    /\ ToSet(done) = {t \in Tasks : slot[t] \in Results}
    /\ pc \in [Tasks -> [Handlers -> PC]]
    /\ runs \in [Tasks -> Handlers \cup {0}]
    /\ cancel \subseteq Tasks \X Handlers
    /\ out \in Seq(Tasks \X (Results \cup {"ack"})) /\ Len(out) <= MaxQueue
    /\ told \subseteq Tasks
    /\ ran \in [Tasks -> 0..2]
    /\ early \subseteq Tasks
    /\ faults \in 0..MaxFaults
    /\ crashes \in 0..MaxCrashes

Init ==
    /\ slot = [t \in Tasks |-> "none"]
    /\ done = <<>>
    /\ pc = [t \in Tasks |-> [h \in Handlers |-> "none"]]
    /\ runs = [t \in Tasks |-> 0]
    /\ cancel = {}
    /\ out = <<>>
    /\ told = {}
    /\ ran = [t \in Tasks |-> 0]
    /\ early = {}
    /\ faults = 0 /\ crashes = 0

-----------------------------------------------------------------------------
(* The ledger.                                                             *)

\* Background permits in use: the engine's run holds one for a task by id, the
\* handler itself (until its guards drop) for a whole definition.
Holding(t) == IF t \in ById THEN {"admitted", "run"} ELSE {"run", "returned", "dropping"}
InUse == Cardinality({x \in Tasks \X Handlers : pc[x[1]][x[2]] \in Holding(x[1])})

Move(t, h, next) == pc' = [pc EXCEPT ![t][h] = next]

CanSend == Len(out) < MaxQueue
Send(t, what) == out' = Append(out, <<t, what>>)

\* evict: past the cap, the oldest terminal results go; running slots stay.
Size == Cardinality({t \in Tasks : slot[t] # "none"})
Over ==
    IF Size <= LedgerCap THEN 0
    ELSE IF Size - LedgerCap < Len(done) THEN Size - LedgerCap ELSE Len(done)

\* Fault: the size cap evicts in-flight slots too.
Evicted_Any == IF Size <= LedgerCap THEN {} ELSE {t \in Tasks : slot[t] # "none"}

Evicted == {done[i] : i \in 1..Over}
Kept == SubSeq(done, Over + 1, Len(done))

\* The ledger without the tasks in gone.  What it forgets it no longer vouches for.
Forget(gone) == [t \in Tasks |-> IF t \in gone THEN "none" ELSE slot[t]]
Unvouched(gone) == [t \in Tasks |-> IF t \in gone THEN 0 ELSE ran[t]]
Overtaken(gone) == early \cup {t \in gone : \E h \in Handlers : pc[t][h] = "dropping"}
Again(n) == IF n < 2 THEN n + 1 ELSE n

\* The results in order of age, without that of t.
Without(t) ==
    IF t \in ToSet(done) THEN RemoveAt(done, CHOOSE i \in DOMAIN done : done[i] = t) ELSE done

\* TaskLedger::complete.
Complete(t, res) ==
    /\ slot' = [slot EXCEPT ![t] = res]
    /\ done' = Append(Without(t), t)

\* Fault: a handler that dies keeps its claim.
AbandonRunning_Never(t) == UNCHANGED slot

\* TaskLedger::abandon_running.
AbandonRunning(t) == slot' = [slot EXCEPT ![t] = IF @ = "running" THEN "none" ELSE @]

-----------------------------------------------------------------------------
(* The read loop: a dispatch arrives.                                      *)

\* accept_task on a task the ledger still knows: answered inline.
AnswerDuplicate(t) ==
    /\ CanSend
    /\ LET gone == Evicted IN
       /\ Forget(gone)[t] # "none"
       /\ slot' = Forget(gone)
       /\ done' = Kept
       /\ ran' = Unvouched(gone)
       /\ early' = Overtaken(gone)
       /\ Send(t, IF slot[t] = "running" THEN "ack" ELSE slot[t])
    /\ UNCHANGED <<pc, runs, cancel, told, faults, crashes>>

\* accept_task on an unknown task: claim it and hand it to handler h.
Claim(t, h, next) ==
    /\ pc[t][h] = "none"
    /\ LET gone == Evicted IN
       /\ Forget(gone)[t] = "none"
       /\ slot' = [Forget(gone) EXCEPT ![t] = "running"]
       /\ done' = Kept
       /\ ran' = [Unvouched(gone) EXCEPT ![t] = IF next = "run" THEN Again(@) ELSE @]
       /\ early' = Overtaken(gone)
    /\ Move(t, h, next)

\* run_local_workflow: claimed, then spawned.
DispatchById(t, h) ==
    /\ t \in ById
    /\ Claim(t, h, "gate")
    /\ UNCHANGED <<runs, cancel, out, told, faults, crashes>>

\* execute_workflow: claimed, admitted in the loop, then spawned.
DispatchWire(t, h) ==
    /\ t \in Wire /\ InUse < Limit
    /\ Claim(t, h, "run")
    /\ UNCHANGED <<runs, cancel, out, told, faults, crashes>>

\* execute_workflow at capacity: refuse_at_capacity, and the claim is dropped
\* so that the refusal is not recorded.
RefuseWire(t) ==
    /\ t \in Wire /\ CanSend
    /\ InUse >= Limit
    /\ LET gone == Evicted IN
       /\ Forget(gone)[t] = "none"
       /\ slot' = Forget(gone)
       /\ done' = Kept
       /\ ran' = Unvouched(gone)
       /\ early' = Overtaken(gone)
    /\ Send(t, "busy")
    /\ UNCHANGED <<pc, runs, cancel, told, faults, crashes>>

\* cancel_task: look the run up, flip its token, acknowledge (the reply only
\* says whether a live run was found, and is not queued here).
CancelTask(t) ==
    /\ cancel' = IF runs[t] # 0 THEN cancel \cup {<<t, runs[t]>>} ELSE cancel
    /\ UNCHANGED <<slot, done, pc, runs, out, told, ran, early, faults, crashes>>

-----------------------------------------------------------------------------
(* The spawned handlers.                                                   *)

\* Fault: the result is sent but not cached.
Settle_Unrecorded(t, h, res) ==
    /\ CanSend
    /\ UNCHANGED <<slot, done>>
    /\ Send(t, res)
    /\ Move(t, h, "dropping")

\* TaskClaim::settle: record the result, then send it.
Settle(t, h, res) ==
    /\ CanSend
    /\ Complete(t, res)
    /\ Send(t, res)
    /\ Move(t, h, "dropping")

\* run_local_workflow answers before it reaches the engine: an unknown or
\* unexposed workflow, or a preflight rejection.
RejectById(t, h) ==
    /\ pc[t][h] = "gate"
    /\ Settle(t, h, "final")
    /\ UNCHANGED <<runs, cancel, told, ran, early, faults, crashes>>

\* The engine returns an error before it has a run: no background permit, or
\* the workflow cannot be loaded or its row inserted.  The tracking guard of
\* this call drops, whoever's entry is in the map.
EngineRefuses(t, h) ==
    /\ \/ pc[t][h] = "gate" /\ InUse >= Limit /\ Settle(t, h, "busy")
       \/ pc[t][h] = "admitted" /\ Settle(t, h, "final")
    /\ runs' = [runs EXCEPT ![t] = 0]
    /\ UNCHANGED <<cancel, told, ran, early, faults, crashes>>

\* The engine admits the run; it still loads the workflow and opens the row.
AdmitById(t, h) ==
    /\ pc[t][h] = "gate" /\ InUse < Limit
    /\ Move(t, h, "admitted")
    /\ UNCHANGED <<slot, done, runs, cancel, out, told, ran, early, faults, crashes>>

\* The row is inserted, on_start publishes the run id, the registry takes it
\* and the body starts.
StartById(t, h) ==
    /\ pc[t][h] = "admitted"
    /\ Move(t, h, "run")
    /\ runs' = [runs EXCEPT ![t] = h]
    /\ ran' = [ran EXCEPT ![t] = Again(@)]
    /\ UNCHANGED <<slot, done, cancel, out, told, early, faults, crashes>>

\* Fault: DispatchedRunGuard does not remove its entry.
Return_KeepsRun(t, h) ==
    /\ pc[t][h] = "run"
    /\ Move(t, h, "returned")
    /\ cancel' = cancel \ {<<t, h>>}
    /\ UNCHANGED <<slot, done, runs, out, told, ran, early, faults, crashes>>

\* The run ends: its map entry goes before the frame is settled.
Return(t, h) ==
    /\ pc[t][h] = "run"
    /\ Move(t, h, "returned")
    /\ runs' = [runs EXCEPT ![t] = 0]
    /\ cancel' = cancel \ {<<t, h>>}
    /\ UNCHANGED <<slot, done, out, told, ran, early, faults, crashes>>

SettleRun(t, h) ==
    /\ pc[t][h] = "returned"
    /\ Settle(t, h, "final")
    /\ UNCHANGED <<runs, cancel, told, ran, early, faults, crashes>>

\* TaskClaim::drop after a settled result.
DropClaim(t, h) ==
    /\ pc[t][h] = "dropping"
    /\ AbandonRunning(t)
    /\ Move(t, h, "none")
    /\ UNCHANGED <<done, runs, cancel, out, told, ran, early, faults, crashes>>

\* The handler panics before it has a result: its guards drop, nothing is
\* sent, and the task may legitimately run again.
HandlerDies(t, h) ==
    /\ pc[t][h] \in Working /\ faults < MaxFaults
    /\ faults' = faults + 1
    /\ AbandonRunning(t)
    /\ Move(t, h, "none")
    /\ runs' = [runs EXCEPT ![t] = 0]
    /\ cancel' = cancel \ {<<t, h>>}
    /\ ran' = [ran EXCEPT ![t] = 0]
    /\ UNCHANGED <<done, out, told, early, crashes>>

-----------------------------------------------------------------------------
(* Time, the link and the process.                                         *)

\* TASK_RESULT_TTL passes: a later dispatch of this id is a new task.  The
\* handler that recorded the result has dropped its guards long since.
ResultExpires(t) ==
    /\ slot[t] \in Results
    /\ \A h \in Handlers : pc[t][h] # "dropping"
    /\ slot' = Forget({t})
    /\ done' = Without(t)
    /\ ran' = Unvouched({t})
    /\ UNCHANGED <<pc, runs, cancel, out, told, early, faults, crashes>>

\* A handler of t is where no time limit ends it.
Unbounded(t) == \E h \in Handlers : pc[t][h] = IF t \in ById THEN "admitted" ELSE "run"

\* TASK_RUNNING_TTL passes: the slot is taken for that of a vanished handler.
RunningExpires(t) ==
    /\ slot[t] = "running" /\ Unbounded(t)
    /\ slot' = Forget({t})
    /\ ran' = Unvouched({t})
    /\ early' = early \cup {t}
    /\ UNCHANGED <<done, pc, runs, cancel, out, told, faults, crashes>>

\* The writer task puts the oldest frame on the wire and it arrives.
Transmit ==
    /\ out # <<>>
    /\ out' = Tail(out)
    /\ told' = IF Head(out)[2] \in Results THEN told \cup {Head(out)[1]} ELSE told
    /\ UNCHANGED <<slot, done, pc, runs, cancel, ran, early, faults, crashes>>

\* The connection dies with the popped frame; the rest of the channel is
\* handed to the next connection, and the handlers never notice.
LinkDrops ==
    /\ faults < MaxFaults
    /\ faults' = faults + 1
    /\ out' = IF out = <<>> THEN out ELSE Tail(out)
    /\ UNCHANGED <<slot, done, pc, runs, cancel, told, ran, early, crashes>>

\* The worker restarts: ledger, handlers and channel lived in memory.
Restart ==
    /\ crashes < MaxCrashes
    /\ crashes' = crashes + 1
    /\ slot' = [t \in Tasks |-> "none"]
    /\ done' = <<>>
    /\ pc' = [t \in Tasks |-> [h \in Handlers |-> "none"]]
    /\ runs' = [t \in Tasks |-> 0]
    /\ cancel' = {}
    /\ out' = <<>>
    /\ ran' = Unvouched(Tasks)
    /\ early' = {}
    /\ UNCHANGED <<told, faults>>

-----------------------------------------------------------------------------
Dispatch(t) ==
    \/ AnswerDuplicate(t) \/ RefuseWire(t)
    \/ \E h \in Handlers : DispatchById(t, h) \/ DispatchWire(t, h)

HandlerStep(t, h) ==
    \/ RejectById(t, h) \/ EngineRefuses(t, h) \/ AdmitById(t, h) \/ StartById(t, h)
    \/ Return(t, h) \/ SettleRun(t, h) \/ DropClaim(t, h)

Next ==
    \/ \E t \in Tasks : Dispatch(t) \/ CancelTask(t) \/ ResultExpires(t) \/ RunningExpires(t)
    \/ \E t \in Tasks, h \in Handlers : HandlerStep(t, h) \/ HandlerDies(t, h)
    \/ Transmit \/ LinkDrops \/ Restart

Spec == Init /\ [][Next]_vars

(***************************************************************************)
(* Fairness.  Handlers are polled, and a run by id that has started is     *)
(* bounded by the engine's budget.  Nothing bounds an admitted run by id   *)
(* before it starts (it may wait at the engine's entry barrier), nor the   *)
(* run of a whole definition, whose steps have time limits but whose       *)
(* driver may stop answering.  The writer drains the channel while         *)
(* connections last; the coordinator sends a task again until it is told a *)
(* result, and a dispatch waits in the socket while the channel is full.   *)
(***************************************************************************)
BoundedStep(t, h) ==
    \/ RejectById(t, h) \/ AdmitById(t, h) \/ SettleRun(t, h) \/ DropClaim(t, h)
    \/ pc[t][h] = "gate" /\ EngineRefuses(t, h)
    \/ t \in ById /\ Return(t, h)

Fairness ==
    /\ \A t \in Tasks : SF_vars(\E h \in Handlers : BoundedStep(t, h))
    /\ \A t \in Tasks : SF_vars(t \notin told /\ Dispatch(t))
    /\ WF_vars(Transmit)

FairSpec == Spec /\ Fairness

-----------------------------------------------------------------------------
(* Properties.                                                             *)

\* "Dropping [an in-flight slot] would re-open the double-run window": a task
\* is claimed in the ledger exactly while one handler works on it, so however
\* dispatches, settlements, panics, evictions and expiries interleave, two
\* handlers never work on the same task.  The exceptions are a task whose
\* result the size cap took between TaskClaim::settle and TaskClaim::drop (that
\* drop gives up the claim of a later handler), and a run that outlives the age
\* limit of its slot.
ClaimMatchesHandler ==
    \A t \in Tasks \ early :
        /\ Cardinality({h \in Handlers : pc[t][h] \in Working}) <= 1
        /\ slot[t] = "running" <=> \E h \in Handlers : pc[t][h] \in Working

\* "A duplicate dispatch must be answered, never re-executed" (TaskLedger): a
\* task is not executed again unless its handler died without a result or the
\* ledger forgot the result, by age, by size or with the process; with the same
\* exceptions.
ExecutedOnce == \A t \in Tasks \ early : ran[t] <= 1

\* The cancel map holds only live runs, "so a recycled task id can never
\* cancel an unrelated run" (run_local_workflow).
CancelReachesOwnRun ==
    /\ \A t \in Tasks : runs[t] # 0 => pc[t][runs[t]] = "run"
    /\ \A x \in cancel : pc[x[1]][x[2]] = "run"

\* A dispatched task is eventually answered, unless its run stays where nothing
\* bounds it: a lost result, a dead handler or a full worker, also one filled
\* by a run that never ends, costs a redispatch and never the answer.
TasksAnswered ==
    \A t \in Tasks : slot[t] = "running" ~> (t \in told \/ []Unbounded(t))
=============================================================================
