----------------------------- MODULE RunEngine ------------------------------
(***************************************************************************)
(* The life of an engine run, src/src/local/engine/real.rs: admission, the *)
(* `runs` row, the live-run registry, the spawned step task, the whole-run *)
(* budget, cancellation, finalization and the workflow rollup, with the    *)
(* ways a run is interrupted: its caller drops the future, the step task   *)
(* panics or outlives its budget, the process dies and boots again.        *)
(*                                                                         *)
(* A call is one engine.run / run_tracked / run_recipe (its body runs in   *)
(* the caller's future) or one engine.run_async (its body is spawned).     *)
(* Every step below ends at an await of the code.  Admission is the atomic *)
(* slot pool that Governor_proofs shows the governor implements.  The      *)
(* calls that are neither Metered nor Ephemeral run one and the same       *)
(* workflow, so they share its repair lock; what a repair does to the      *)
(* recipe is in RecipeRepair.                                              *)
(***************************************************************************)
EXTENDS Integers, FiniteSets

CONSTANTS
    Interactive, Background,   \* the calls, by lane
    Ceiling, BackgroundLimit,  \* the governor's two ceilings
    Droppable,   \* calls whose caller may drop the future (a client disconnects)
    Spawned,     \* calls made with run_async
    Metered,     \* calls of a paid marketplace proxy
    Ephemeral,   \* calls of an in-memory recipe: no workflow row to roll up
    AiRepair,    \* the workflow opted into AI repair on a linked agent
    MaxCrashes   \* bound: process deaths in a behaviour

Calls == Interactive \cup Background

ASSUME RunEngineAssumption ==
    /\ IsFiniteSet(Interactive) /\ IsFiniteSet(Background)
    /\ Interactive \cap Background = {}
    /\ Ceiling \in Nat \ {0} /\ BackgroundLimit \in 1..Ceiling
    /\ Droppable \subseteq Calls /\ Spawned \subseteq Calls
    /\ Metered \subseteq Calls /\ Ephemeral \subseteq Interactive \ (Spawned \cup Metered)
    /\ AiRepair \in BOOLEAN
    /\ MaxCrashes \in Nat

VARIABLES
    pc,        \* where each call's run_inner / run_body is
    slots,     \* calls holding a RunPermit
    row,       \* status column of the call's `runs` row
    live,      \* calls registered in the RunRegistry
    cancel,    \* calls whose CancelToken is set
    exec,      \* where each call's spawned step task is
    outcome,   \* what the step task returned, or the failure run_body chose
    write,     \* a status write the step task has handed to the database
    restarts,  \* repair_restarts_left
    fixing,    \* calls whose step task holds the workflow's RepairGuard
    streak,    \* calls whose rollup counts in consecutive_failures
    meter,     \* the call's metered charge
    up,        \* the process is running
    crashes

vars == <<pc, slots, row, live, cancel, exec, outcome, write, restarts, fixing,
          streak, meter, up, crashes>>

task == <<exec, outcome, write, restarts, fixing>>
registry == <<live, cancel>>
books == <<row, streak, meter>>
process == <<up, crashes>>

Record == INSTANCE RunRecord
Pool == INSTANCE SlotPool WITH running <- slots

InFlight == Record!InFlight
Terminal == Record!Terminal

(***************************************************************************)
(* pc: idle; load, barrier (waiting for a repair of its workflow),         *)
(* authorize, insert (the permit is held, no row yet); register (row       *)
(* inserted); body (awaiting the step task); finalize, rollup, finish      *)
(* (run_body after its join); settle (the charge); done, refused, dropped, *)
(* lost (the process died under it).                                       *)
(***************************************************************************)
Preparing == {"load", "barrier", "authorize", "insert", "register"}
InBody == {"body", "finalize", "rollup", "finish"}
PC == {"idle", "settle", "done", "refused", "dropped", "lost"} \cup Preparing \cup InBody

(***************************************************************************)
(* exec: none; entry, resolve, open; between (loop head), drive (in a      *)
(* step); noting (its "repairing" write is in flight), repair (at the      *)
(* gateway), clearing and restarting (its "running" write is in flight,    *)
(* after which it goes on or starts over); waiting (for another run's      *)
(* repair); ended; gone (aborted, or the process died).                    *)
(***************************************************************************)
Driving == {"entry", "resolve", "open", "between", "drive", "noting", "repair",
            "clearing", "restarting", "waiting"}
Exec == {"none", "ended", "gone"} \cup Driving

\* RunFailure, with the step failures told apart by what they say of the recipe.
Outcome == {"ok", "captcha", "twofa", "cancelled", "timeout", "step", "credit", "panic"}

TypeOK ==
    /\ pc \in [Calls -> PC]
    /\ slots \subseteq Calls
    /\ row \in [Calls -> Record!Status]
    /\ live \subseteq Calls
    /\ cancel \subseteq Calls
    /\ exec \in [Calls -> Exec]
    /\ outcome \in [Calls -> Outcome \cup {"none"}]
    /\ write \in [Calls -> InFlight \cup {"none"}]
    /\ restarts \in [Calls -> 0..1]
    /\ fixing \subseteq Calls
    /\ streak \subseteq Calls
    /\ meter \in [Calls -> {"none", "held", "charged", "waived"}]
    /\ up \in BOOLEAN
    /\ crashes \in 0..MaxCrashes

Init ==
    /\ pc = [c \in Calls |-> "idle"]
    /\ slots = {}
    /\ row = [c \in Calls |-> "none"]
    /\ live = {}
    /\ cancel = {}
    /\ exec = [c \in Calls |-> "none"]
    /\ outcome = [c \in Calls |-> "none"]
    /\ write = [c \in Calls |-> "none"]
    /\ restarts = [c \in Calls |-> 1]
    /\ fixing = {}
    /\ streak = {}
    /\ meter = [c \in Calls |-> "none"]
    /\ up = TRUE
    /\ crashes = 0

\* The status finalize persists for an outcome.
StatusOf(o) ==
    CASE o = "ok" -> "success"
      [] o = "captcha" -> "captcha_required"
      [] o = "twofa" -> "twofa_required"
      [] o = "timeout" -> "timeout"
      [] o = "cancelled" -> "cancelled"
      [] o \in {"step", "credit", "panic"} -> "failed"

-----------------------------------------------------------------------------
(* Faults: changed forms of the actions below, to show the properties fail. *)

\* The budget flips the token but leaves the wedged task alone.
Timeout_KeepsTask(c) ==
    /\ up /\ pc[c] = "body" /\ exec[c] \in Driving
    /\ cancel' = cancel \cup {c}
    /\ outcome' = [outcome EXCEPT ![c] = "timeout"]
    /\ pc' = [pc EXCEPT ![c] = "finalize"]
    /\ UNCHANGED <<slots, live, exec, write, restarts, fixing, books, process>>

\* The guard is not removed from the registry when the future is dropped.
Drop_StaysLive(c) ==
    /\ up /\ c \in Droppable
    /\ pc[c] \in Preparing \cup (IF c \in Spawned THEN {} ELSE InBody \cup {"settle"})
    /\ pc' = [pc EXCEPT ![c] = "dropped"]
    /\ slots' = slots \ {c}
    /\ UNCHANGED <<task, registry, books, process>>

\* The failure path of the preparation forgets the permit.
PrepareFails_KeepsPermit(c) ==
    /\ up /\ pc[c] \in {"load", "authorize"}
    /\ pc' = [pc EXCEPT ![c] = "refused"]
    /\ UNCHANGED <<slots, task, registry, books, process>>

\* Boot reconciliation looks for 'repairing' rows only.
Boot_MissesRunning ==
    /\ ~up
    /\ up' = TRUE
    /\ row' = [c \in Calls |-> IF row[c] = "repairing" THEN "interrupted" ELSE row[c]]
    /\ UNCHANGED <<pc, slots, streak, meter, crashes, task, registry>>

\* The charge is finalized as a success whatever the run returned.
Settle_AlwaysCharges(c) ==
    /\ up /\ pc[c] = "settle"
    /\ meter' = [meter EXCEPT ![c] = IF c \in Metered THEN "charged" ELSE @]
    /\ pc' = [pc EXCEPT ![c] = "done"]
    /\ UNCHANGED <<slots, row, streak, task, registry, process>>

\* Boot reconciliation closes every row, the finished ones too.
Boot_ClosesAll ==
    /\ ~up
    /\ up' = TRUE
    /\ row' = [c \in Calls |-> IF row[c] # "none" THEN "interrupted" ELSE "none"]
    /\ UNCHANGED <<pc, slots, streak, meter, crashes, task, registry>>

-----------------------------------------------------------------------------
(* run_inner and run_async up to the body.                                 *)

\* governor.admit: an interactive call waits (it stays idle) until it fits.
Admit(c) ==
    /\ up /\ pc[c] = "idle"
    /\ Pool!Grant(c)
    /\ pc' = [pc EXCEPT ![c] = IF c \in Ephemeral THEN "insert" ELSE "load"]
    /\ UNCHANGED <<task, registry, books, process>>

\* A background call over a ceiling, or over the memory watermark, fails fast.
Reject(c) ==
    /\ up /\ pc[c] = "idle" /\ c \in Background
    /\ pc' = [pc EXCEPT ![c] = "refused"]
    /\ UNCHANGED <<slots, task, registry, books, process>>

\* load_workflow, then is_repairing: a repair in flight holds the call back.
LoadWorkflow(c) ==
    /\ up /\ pc[c] = "load"
    /\ pc' = [pc EXCEPT ![c] =
                IF c \notin Metered /\ fixing # {} THEN "barrier" ELSE "authorize"]
    /\ UNCHANGED <<slots, task, registry, books, process>>

\* wait_if_repairing, with the permit in hand and before any budget runs: it
\* returns once the guard is dropped, and the workflow is loaded again.
PassBarrier(c) ==
    /\ up /\ pc[c] = "barrier" /\ fixing = {}
    /\ pc' = [pc EXCEPT ![c] = "authorize"]
    /\ UNCHANGED <<slots, task, registry, books, process>>

\* prepare_marketplace_exec: a paid proxy authorizes its charge before any row exists.
Authorize(c) ==
    /\ up /\ pc[c] = "authorize"
    /\ meter' = [meter EXCEPT ![c] = IF c \in Metered THEN "held" ELSE @]
    /\ pc' = [pc EXCEPT ![c] = "insert"]
    /\ UNCHANGED <<slots, row, streak, task, registry, process>>

\* No such workflow, a refused authorization, or a recipe that does not
\* unseal after the charge was authorized: an error, and the permit drops.
PrepareFails(c) ==
    /\ up /\ pc[c] \in {"load", "authorize"}
    /\ pc' = [pc EXCEPT ![c] = "refused"]
    /\ slots' = slots \ {c}
    /\ \/ UNCHANGED meter
       \/ c \in Metered /\ pc[c] = "authorize" /\ meter' = [meter EXCEPT ![c] = "held"]
    /\ UNCHANGED <<row, streak, task, registry, process>>

\* insert_run_row.
InsertRow(c) ==
    /\ up /\ pc[c] = "insert"
    /\ Record!Open(c)
    /\ pc' = [pc EXCEPT ![c] = "register"]
    /\ UNCHANGED <<slots, streak, meter, task, registry, process>>

\* registry.register, then run_body up to the join: the step task is spawned.
Register(c) ==
    /\ up /\ pc[c] = "register"
    /\ live' = live \cup {c}
    /\ exec' = [exec EXCEPT ![c] = "entry"]
    /\ pc' = [pc EXCEPT ![c] = "body"]
    /\ UNCHANGED <<slots, cancel, outcome, write, restarts, fixing, books, process>>

-----------------------------------------------------------------------------
(* The step task, RealEngine::execute.                                     *)

\* The task returns o: its browser context is closed, its repair guard drops.
Returns(c, o) ==
    /\ exec' = [exec EXCEPT ![c] = "ended"]
    /\ outcome' = [outcome EXCEPT ![c] = o]
    /\ fixing' = fixing \ {c}

\* The task goes on to e.
GoesTo(c, e) == exec' = [exec EXCEPT ![c] = e] /\ UNCHANGED <<outcome, fixing>>

\* "A cancel requested before we even resolve: short-circuit."
Enter(c) ==
    /\ up /\ exec[c] = "entry"
    /\ IF c \in cancel
       THEN Returns(c, "cancelled")
       ELSE GoesTo(c, "resolve")
    /\ UNCHANGED <<pc, slots, write, restarts, registry, books, process>>

\* References, persona, 2FA preflight and files resolve, then the second
\* cancel check.
Resolve(c) ==
    /\ up /\ exec[c] = "resolve"
    /\ \/ \E o \in {"step", "twofa"} : Returns(c, o)
       \/ c \in cancel /\ Returns(c, "cancelled")
       \/ c \notin cancel /\ GoesTo(c, "open")
    /\ UNCHANGED <<pc, slots, write, restarts, registry, books, process>>

\* The browserless lane, which may finish, park, fail or cancel the run, then
\* the browser context and its entry navigation.
OpenPage(c) ==
    /\ up /\ exec[c] = "open"
    /\ \/ \E o \in {"ok", "step", "twofa"} : Returns(c, o)
       \/ c \in cancel /\ Returns(c, "cancelled")
       \/ GoesTo(c, "between")
    /\ UNCHANGED <<pc, slots, write, restarts, registry, books, process>>

\* The loop head: the cancel check between steps, then the next step begins,
\* unless the ones that are left are disabled or unsupported and skipped.
BeginStep(c) ==
    /\ up /\ exec[c] = "between"
    /\ IF c \in cancel
       THEN Returns(c, "cancelled")
       ELSE \/ GoesTo(c, "drive")
            \/ Returns(c, "ok")
    /\ UNCHANGED <<pc, slots, write, restarts, registry, books, process>>

\* The step passes: there is another one, or it was the last.
StepPasses(c) ==
    /\ up /\ exec[c] = "drive"
    /\ \/ GoesTo(c, "between")
       \/ Returns(c, "ok")
    /\ UNCHANGED <<pc, slots, write, restarts, registry, books, process>>

\* The workflow opted into AI repair; a recipe in memory never does.
Repairable(c) == AiRepair /\ c \notin Metered \cup Ephemeral

\* Somebody else has the lock: a repair, or the passing probe of a call at
\* the barrier.
LockTaken(c) ==
    \/ fixing \ {c} # {}
    \/ \E d \in Calls \ (Metered \cup {c}) : pc[d] \in {"load", "barrier"}

\* The step fails: a gate the run cannot pass, a failure that is not repaired,
\* or try_begin.  The winner sets the row to "repairing" first; the loser waits.
StepFails(c) ==
    /\ up /\ exec[c] = "drive"
    /\ \/ /\ \E o \in {"captcha", "twofa", "step"} : Returns(c, o)
          /\ UNCHANGED write
       \/ /\ Repairable(c) /\ c \notin fixing /\ LockTaken(c)
          /\ GoesTo(c, "waiting")
          /\ UNCHANGED write
       \/ /\ Repairable(c) /\ fixing \subseteq {c}
          /\ fixing' = {c}
          /\ exec' = [exec EXCEPT ![c] = "noting"]
          /\ write' = [write EXCEPT ![c] = "repairing"]
          /\ UNCHANGED outcome
    /\ UNCHANGED <<pc, slots, restarts, registry, books, process>>

\* The loser's wait_if_repairing returns: it starts over, once, or gives up.
WaitOut(c) ==
    /\ up /\ exec[c] = "waiting" /\ fixing = {}
    /\ \/ /\ restarts[c] > 0
          /\ GoesTo(c, "entry")
          /\ restarts' = [restarts EXCEPT ![c] = @ - 1]
       \/ Returns(c, "step") /\ UNCHANGED restarts
    /\ UNCHANGED <<pc, slots, write, registry, books, process>>

\* The repair answers: the retried step passes; a new recipe restarts the run
\* (once) or is only saved; the account is out of credit; nothing worked.  The
\* guard is kept until the run returns.
Repair(c) ==
    /\ up /\ exec[c] = "repair"
    /\ \/ /\ GoesTo(c, "clearing")
          /\ write' = [write EXCEPT ![c] = "running"]
          /\ UNCHANGED restarts
       \/ /\ restarts[c] > 0
          /\ GoesTo(c, "restarting")
          /\ restarts' = [restarts EXCEPT ![c] = @ - 1]
          /\ write' = [write EXCEPT ![c] = "running"]
       \/ /\ \E o \in {"step", "credit"} : Returns(c, o)
          /\ UNCHANGED <<write, restarts>>
    /\ UNCHANGED <<pc, slots, registry, books, process>>

\* runs::set_status reaches the table.  It is unconditional, and it happens
\* even if the task that asked for it is gone.
WriteLands(c) ==
    /\ up /\ write[c] # "none"
    /\ row' = [row EXCEPT ![c] = write[c]]
    /\ write' = [write EXCEPT ![c] = "none"]
    /\ exec' = [exec EXCEPT ![c] =
                  CASE @ = "noting" -> "repair"
                    [] @ = "clearing" -> "between"
                    [] @ = "restarting" -> "entry"
                    [] OTHER -> @]
    /\ UNCHANGED <<pc, slots, outcome, restarts, fixing, streak, meter, registry, process>>

\* A panic inside the task surfaces at the join.
Panic(c) ==
    /\ up /\ exec[c] \in {"resolve", "open", "drive", "repair"}
    /\ Returns(c, "panic")
    /\ UNCHANGED <<pc, slots, write, restarts, registry, books, process>>

-----------------------------------------------------------------------------
(* run_body after the spawn, finalize, and settlement.                     *)

Join(c) ==
    /\ up /\ pc[c] = "body" /\ exec[c] = "ended"
    /\ pc' = [pc EXCEPT ![c] = "finalize"]
    /\ UNCHANGED <<slots, task, registry, books, process>>

\* The whole-run budget is spent: flip the token, abort the task (its guard
\* drops with it), finalize.
Timeout(c) ==
    /\ up /\ pc[c] = "body" /\ exec[c] \in Driving
    /\ cancel' = cancel \cup {c}
    /\ exec' = [exec EXCEPT ![c] = "gone"]
    /\ fixing' = fixing \ {c}
    /\ outcome' = [outcome EXCEPT ![c] = "timeout"]
    /\ pc' = [pc EXCEPT ![c] = "finalize"]
    /\ UNCHANGED <<slots, live, write, restarts, books, process>>

\* runs::complete or runs::fail.
FinalizeRow(c) ==
    /\ up /\ pc[c] = "finalize"
    /\ row' = [row EXCEPT ![c] = StatusOf(outcome[c])]
    /\ pc' = [pc EXCEPT ![c] = "rollup"]
    /\ UNCHANGED <<slots, streak, meter, task, registry, process>>

\* record_rollup: a step failure joins the streak, every other end resets it.
RollUp(c) ==
    /\ up /\ pc[c] = "rollup"
    /\ streak' = CASE c \in Ephemeral -> streak
                   [] StatusOf(outcome[c]) = "failed" -> streak \cup {c}
                   [] OTHER -> {}
    /\ pc' = [pc EXCEPT ![c] = "finish"]
    /\ UNCHANGED <<slots, row, meter, task, registry, process>>

\* guard.finish and the end of run_body, where the permit drops.
Finish(c) ==
    /\ up /\ pc[c] = "finish"
    /\ live' = live \ {c}
    /\ Pool!GiveBack(c)
    /\ pc' = [pc EXCEPT ![c] = "settle"]
    /\ UNCHANGED <<cancel, task, books, process>>

\* settle_marketplace_run.
Settle(c) ==
    /\ up /\ pc[c] = "settle"
    /\ meter' = [meter EXCEPT ![c] =
                   IF c \notin Metered THEN @
                   ELSE IF outcome[c] = "ok" THEN "charged" ELSE "waived"]
    /\ pc' = [pc EXCEPT ![c] = "done"]
    /\ UNCHANGED <<slots, row, streak, task, registry, process>>

-----------------------------------------------------------------------------
(* Other actors.                                                           *)

\* RunRegistry::cancel reaches a registered run.
Cancel(c) ==
    /\ up /\ c \in live \ cancel
    /\ cancel' = cancel \cup {c}
    /\ UNCHANGED <<pc, slots, live, task, books, process>>

\* The caller's future is dropped at an await: the permit returns and the
\* EmitGuard leaves the registry, but a spawned step task is only detached,
\* with the repair guard it may hold.
Drop(c) ==
    /\ up /\ c \in Droppable
    /\ pc[c] \in Preparing \cup (IF c \in Spawned THEN {} ELSE InBody \cup {"settle"})
    /\ pc' = [pc EXCEPT ![c] = "dropped"]
    /\ slots' = slots \ {c}
    /\ live' = live \ {c}
    /\ UNCHANGED <<cancel, task, books, process>>

\* The process dies: everything but the database is gone.
Crash ==
    /\ up /\ crashes < MaxCrashes
    /\ up' = FALSE
    /\ crashes' = crashes + 1
    /\ pc' = [c \in Calls |-> IF pc[c] \in Preparing \cup InBody \cup {"settle"} THEN "lost" ELSE pc[c]]
    /\ exec' = [c \in Calls |-> IF exec[c] \in Driving THEN "gone" ELSE exec[c]]
    /\ write' = [c \in Calls |-> "none"]
    /\ slots' = {} /\ live' = {} /\ cancel' = {} /\ fixing' = {}
    /\ UNCHANGED <<outcome, restarts, books>>

\* The daemon starts: reconcile_orphaned_runs before anything is served.
Boot ==
    /\ ~up
    /\ up' = TRUE
    /\ Record!Reconcile
    /\ UNCHANGED <<pc, slots, streak, meter, crashes, task, registry>>

-----------------------------------------------------------------------------
TaskStep(c) ==
    \/ Enter(c) \/ Resolve(c) \/ OpenPage(c) \/ BeginStep(c) \/ StepPasses(c) \/ StepFails(c)
    \/ WaitOut(c) \/ Repair(c) \/ Panic(c)

BodyStep(c) ==
    \/ LoadWorkflow(c) \/ PassBarrier(c) \/ Authorize(c) \/ InsertRow(c) \/ Register(c)
    \/ Join(c) \/ FinalizeRow(c) \/ RollUp(c) \/ Finish(c) \/ Settle(c)

Next ==
    \/ \E c \in Calls :
        \/ Admit(c) \/ Reject(c) \/ PrepareFails(c) \/ BodyStep(c) \/ TaskStep(c)
        \/ WriteLands(c) \/ Timeout(c) \/ Cancel(c) \/ Drop(c)
    \/ Crash \/ Boot

Spec == Init /\ [][Next]_vars

(***************************************************************************)
(* Fairness.  The futures of run_inner and run_body are polled as long as  *)
(* the process lives, the database answers, the budget's timer fires, and  *)
(* a dead daemon is started again.  Nothing is assumed of the step task: a *)
(* page may never settle.                                                  *)
(***************************************************************************)
Fairness ==
    /\ \A c \in Calls : WF_vars(BodyStep(c)) /\ WF_vars(Timeout(c)) /\ WF_vars(WriteLands(c))
    /\ WF_vars(Boot)

FairSpec == Spec /\ Fairness

-----------------------------------------------------------------------------
(* Properties.                                                             *)

\* "The `runs` row is the authoritative liveness record" (store/runs.rs):
\* whenever the daemon is serving, a row reads in-flight exactly while its run
\* is between insert_run_row and finalize, whatever was cancelled, timed out,
\* panicked or died before.
RowMatchesRun ==
    up => \A c \in Calls : row[c] \in InFlight <=> pc[c] \in {"register", "body", "finalize"}

\* The ceiling bounds the work, not just the permits: no more step tasks drive
\* a browser than the governor has slots (run_body holds the permit "for the
\* ENTIRE run body so the slot stays reserved until the run finalizes").
TasksWithinCeiling ==
    /\ Cardinality({c \in Calls : exec[c] \in Driving}) <= Ceiling
    /\ Cardinality({c \in Background : exec[c] \in Driving}) <= BackgroundLimit

\* A permit is held by exactly the calls between admission and the end of
\* run_body, and a registry entry by exactly those inside it: no early return,
\* timeout, panic or dropped future leaks either one.
NothingLeaks ==
    /\ slots = {c \in Calls : pc[c] \in Preparing \cup InBody}
    /\ live = {c \in Calls : pc[c] \in InBody}

\* A buyer is charged only for a run that really ended in success.
ChargedForSuccess ==
    \A c \in Calls : meter[c] = "charged" => row[c] = "success" /\ outcome[c] = "ok"

\* Each row is opened once, closed once and then final, across timeouts,
\* cancellations, panics and restarts of the daemon.
ImplementsRecord == Record!RecordSpec

\* The whole-run budget "guarantees the permit is eventually freed" (run_body):
\* whatever the pages and the drivers do, an admitted call returns its slot.
\* The entry barrier is outside the budget, and this does not hold.
PermitsReturn == \A c \in Calls : c \in slots ~> c \notin slots

\* Call c waits at the entry barrier for a repair whose caller is gone, so that
\* no budget is left to end it.
HeldAtBarrier(c) ==
    pc[c] = "barrier" /\ \E d \in fixing : pc[d] = "dropped"

\* What the budget does guarantee: an admitted call returns its slot whatever
\* the pages, the drivers and the callers do, unless it stays at the entry
\* barrier behind a repair that lost its caller and never ends.
PermitsReturnOrBarred ==
    \A c \in Calls : c \in slots ~> (c \notin slots \/ []HeldAtBarrier(c))

\* Every row that is opened is closed, by finalize or by the next boot.
RowsSettle == \A c \in Calls : row[c] \in InFlight ~> row[c] \in Terminal
=============================================================================
