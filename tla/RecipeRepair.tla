---------------------------- MODULE RecipeRepair ----------------------------
(***************************************************************************)
(* AI auto-repair of one workflow by the runs that execute it at the same  *)
(* time: the per-workflow lock of src/src/local/engine/repair_gate.rs, the *)
(* entry barrier and the repair branch of the step loop in real.rs, the    *)
(* self-heal restart and the writeback of repaired selectors.              *)
(*                                                                         *)
(* The site changes under the recipe: a step breaks when its recorded      *)
(* selector stops matching.  A recipe is the set of steps whose fix it     *)
(* contains; a run works on the copy it loaded.                            *)
(***************************************************************************)
EXTENDS Integers, FiniteSets

CONSTANTS
    Runs,   \* concurrent runs of the workflow
    Steps,  \* its number of steps
    NoRun   \* nobody holds the lock

ASSUME RecipeRepairAssumption ==
    IsFiniteSet(Runs) /\ Steps \in Nat \ {0} /\ NoRun \notin Runs

VARIABLES
    pc,        \* where each run is
    at,        \* the step it is on
    mine,      \* the recipe it loaded (wf, raw_steps)
    repaired,  \* `repairs`: selectors it fixed in this pass
    restarts,  \* repair_restarts_left
    lock,      \* who holds the workflow's async mutex
    recipe,    \* the `steps` column of the workflow row
    broken     \* steps whose original selector no longer matches the site

vars == <<pc, at, mine, repaired, restarts, lock, recipe, broken>>

(***************************************************************************)
(* pc: idle; probe (workflow loaded); probing, through, waited (holding    *)
(* the mutex for an instant); barrier, wait (queued on it); steps; broken  *)
(* (the step failed); repair (at the gateway); heal (has a new recipe);    *)
(* wrap (after the loop); done.                                            *)
(***************************************************************************)
PC == {"idle", "probe", "probing", "barrier", "through", "steps", "broken",
       "wait", "waited", "repair", "heal", "wrap", "done"}
InExecute == {"steps", "broken", "wait", "waited", "repair", "heal", "wrap"}

TypeOK ==
    /\ pc \in [Runs -> PC]
    /\ at \in [Runs -> 1..Steps]
    /\ mine \in [Runs -> SUBSET (1..Steps)]
    /\ repaired \in [Runs -> SUBSET (1..Steps)]
    /\ restarts \in [Runs -> 0..1]
    /\ lock \in Runs \cup {NoRun}
    /\ recipe \subseteq 1..Steps
    /\ broken \subseteq 1..Steps

Init ==
    /\ pc = [r \in Runs |-> "idle"]
    /\ at = [r \in Runs |-> 1]
    /\ mine = [r \in Runs |-> {}]
    /\ repaired = [r \in Runs |-> {}]
    /\ restarts = [r \in Runs |-> 1]
    /\ lock = NoRun
    /\ recipe = {}
    /\ broken = {}

Goto(r, next) == pc' = [pc EXCEPT ![r] = next]

\* The RepairGuard of r drops, if it holds one.
Release(r) == lock' = IF lock = r THEN NoRun ELSE lock

\* execute, from the top, on the recipe given.
StartOver(r, steps) ==
    /\ Goto(r, "steps")
    /\ at' = [at EXCEPT ![r] = 1]
    /\ mine' = [mine EXCEPT ![r] = steps]
    /\ repaired' = [repaired EXCEPT ![r] = {}]

-----------------------------------------------------------------------------
(* Faults.                                                                 *)

\* try_begin is called again by a run that already holds its guard.
TryBegin_Always(r) ==
    /\ pc[r] = "broken"
    /\ IF lock = NoRun
       THEN lock' = r /\ Goto(r, "repair")
       ELSE UNCHANGED lock /\ Goto(r, "wait")
    /\ UNCHANGED <<at, mine, repaired, restarts, recipe, broken>>

\* The failed try_begin is taken for a success.
TryBegin_Ignored(r) ==
    /\ pc[r] = "broken"
    /\ Goto(r, "repair")
    /\ lock' = IF lock = NoRun THEN r ELSE lock
    /\ UNCHANGED <<at, mine, repaired, restarts, recipe, broken>>

\* The guard is dropped before the restart instead of moved into it.
Heal_DropsGuard(r) ==
    /\ pc[r] = "heal"
    /\ recipe' = mine[r] \cup {at[r]}
    /\ Release(r)
    /\ IF restarts[r] > 0
       THEN restarts' = [restarts EXCEPT ![r] = @ - 1] /\ StartOver(r, recipe')
       ELSE Goto(r, "done") /\ UNCHANGED <<at, mine, repaired, restarts>>
    /\ UNCHANGED broken

-----------------------------------------------------------------------------
(* The entry of a run: load the workflow, then the repair barrier.         *)

Load(r) ==
    /\ pc[r] = "idle"
    /\ mine' = [mine EXCEPT ![r] = recipe]
    /\ Goto(r, "probe")
    /\ UNCHANGED <<at, repaired, restarts, lock, recipe, broken>>

\* is_repairing: try_lock, which holds the mutex until the guard drops.
Probe(r) ==
    /\ pc[r] = "probe"
    /\ IF lock = NoRun
       THEN lock' = r /\ Goto(r, "probing")
       ELSE UNCHANGED lock /\ Goto(r, "barrier")
    /\ UNCHANGED <<at, mine, repaired, restarts, recipe, broken>>

EndProbe(r) ==
    /\ pc[r] = "probing"
    /\ Release(r)
    /\ Goto(r, "steps")
    /\ UNCHANGED <<at, mine, repaired, restarts, recipe, broken>>

\* wait_if_repairing takes the mutex and lets it go again.
PassBarrier(r) ==
    /\ pc[r] = "barrier" /\ lock = NoRun
    /\ lock' = r
    /\ Goto(r, "through")
    /\ UNCHANGED <<at, mine, repaired, restarts, recipe, broken>>

Reload(r) ==
    /\ pc[r] = "through"
    /\ Release(r)
    /\ StartOver(r, recipe)
    /\ UNCHANGED <<restarts, recipe, broken>>

-----------------------------------------------------------------------------
(* The step loop.                                                          *)

Works(r) == at[r] \notin broken \/ at[r] \in mine[r]

\* The step after the current one, or the end of the loop.
Advance(r) ==
    IF at[r] < Steps
    THEN at' = [at EXCEPT ![r] = @ + 1] /\ Goto(r, "steps")
    ELSE UNCHANGED at /\ Goto(r, "wrap")

StepPasses(r) ==
    /\ pc[r] = "steps" /\ Works(r)
    /\ Advance(r)
    /\ UNCHANGED <<mine, repaired, restarts, lock, recipe, broken>>

StepFails(r) ==
    /\ pc[r] = "steps" /\ ~Works(r)
    /\ Goto(r, "broken")
    /\ UNCHANGED <<at, mine, repaired, restarts, lock, recipe, broken>>

\* `if repair_guard.is_none() { try_begin }`: hold the guard, or wait.
TryBegin(r) ==
    /\ pc[r] = "broken"
    /\ IF lock \in {r, NoRun}
       THEN lock' = r /\ Goto(r, "repair")
       ELSE UNCHANGED lock /\ Goto(r, "wait")
    /\ UNCHANGED <<at, mine, repaired, restarts, recipe, broken>>

AwaitRepair(r) ==
    /\ pc[r] = "wait" /\ lock = NoRun
    /\ lock' = r
    /\ Goto(r, "waited")
    /\ UNCHANGED <<at, mine, repaired, restarts, recipe, broken>>

\* restart_from_concurrent_repair: start over on the saved recipe, or give up.
RestartAfterWait(r) ==
    /\ pc[r] = "waited"
    /\ Release(r)
    /\ IF restarts[r] > 0
       THEN restarts' = [restarts EXCEPT ![r] = @ - 1] /\ StartOver(r, recipe)
       ELSE Goto(r, "done") /\ UNCHANGED <<at, mine, repaired, restarts>>
    /\ UNCHANGED <<recipe, broken>>

\* repair_step_selector finds a selector and the retried step passes.
FixSelector(r) ==
    /\ pc[r] = "repair"
    /\ repaired' = [repaired EXCEPT ![r] = @ \cup {at[r]}]
    /\ Advance(r)
    /\ UNCHANGED <<mine, restarts, lock, recipe, broken>>

\* The retry fails, the account is out of credit, or every tier gave up.
GiveUp(r) ==
    /\ pc[r] = "repair"
    /\ Goto(r, "wrap")
    /\ UNCHANGED <<at, mine, repaired, restarts, lock, recipe, broken>>

\* repair_or_rerecord produced a whole new recipe.
NewRecipe(r) ==
    /\ pc[r] = "repair"
    /\ Goto(r, "heal")
    /\ UNCHANGED <<at, mine, repaired, restarts, lock, recipe, broken>>

-----------------------------------------------------------------------------
(* After the loop.                                                         *)

\* persist_repaired_recipe over the steps this run loaded, then the one
\* self-heal restart, with the guard moved into it.
Heal(r) ==
    /\ pc[r] = "heal"
    /\ recipe' = mine[r] \cup {at[r]}
    /\ IF restarts[r] > 0
       THEN /\ restarts' = [restarts EXCEPT ![r] = @ - 1]
            /\ StartOver(r, recipe')
            /\ UNCHANGED lock
       ELSE /\ Goto(r, "done")
            /\ Release(r)
            /\ UNCHANGED <<at, mine, repaired, restarts>>
    /\ UNCHANGED broken

\* The selector writeback (the steps this run loaded, with its own fixes),
\* on success and on failure alike; then execute returns and the guard drops.
WrapUp(r) ==
    /\ pc[r] = "wrap"
    /\ recipe' = IF repaired[r] # {} THEN mine[r] \cup repaired[r] ELSE recipe
    /\ Release(r)
    /\ Goto(r, "done")
    /\ UNCHANGED <<at, mine, repaired, restarts, broken>>

\* A cancel between steps, a panic or the whole-run timeout ends the task at
\* any await; its guard drops with it.
Abort(r) ==
    /\ pc[r] \in InExecute
    /\ Goto(r, "done")
    /\ Release(r)
    /\ UNCHANGED <<at, mine, repaired, restarts, recipe, broken>>

\* The site is redesigned under step s.
SiteChanges(s) ==
    /\ s \notin broken
    /\ broken' = broken \cup {s}
    /\ UNCHANGED <<pc, at, mine, repaired, restarts, lock, recipe>>

-----------------------------------------------------------------------------
RunStep(r) ==
    \/ Load(r) \/ Probe(r) \/ EndProbe(r) \/ PassBarrier(r) \/ Reload(r)
    \/ StepPasses(r) \/ StepFails(r) \/ TryBegin(r) \/ AwaitRepair(r) \/ RestartAfterWait(r)
    \/ FixSelector(r) \/ GiveUp(r) \/ NewRecipe(r) \/ Heal(r) \/ WrapUp(r)

Next ==
    \/ \E r \in Runs : RunStep(r) \/ Abort(r)
    \/ \E s \in 1..Steps : SiteChanges(s)

Spec == Init /\ [][Next]_vars

(***************************************************************************)
(* Fairness.  Steps time out and the gateway call is bounded, so a run is  *)
(* never stuck on its own; the mutex is fair, so a run that queues for it  *)
(* again and again finds it free gets it (strong fairness).                *)
(***************************************************************************)
Fairness ==
    \A r \in Runs : /\ WF_vars(RunStep(r))
                    /\ SF_vars(PassBarrier(r)) /\ SF_vars(AwaitRepair(r))

FairSpec == Spec /\ Fairness

-----------------------------------------------------------------------------
(* Properties.                                                             *)

\* "The in-loop try_begin is the actual guarantee against duplicate concurrent
\* repairs" (real.rs): from its first repair to its end, restart included, a
\* repairing run holds the lock, so two runs never work on the recipe at once.
OneRepairer ==
    \A r \in Runs :
        (pc[r] \in {"repair", "heal"} \/ (repaired[r] # {} /\ pc[r] \in InExecute)) => lock = r

\* A run that has begun to repair keeps its guard until it ends: the guard is
\* "moved through the self-heal restart so the whole repair-restart-settle
\* sequence holds the lock as one unit".  The instants for which a run holds
\* the mutex only to look at it are not repairs.
GuardHeldToEnd ==
    [][\A r \in Runs :
        (lock = r /\ pc[r] \notin {"probing", "through", "waited"} /\ lock' # r) => pc'[r] = "done"]_vars

\* No run waits for itself and the waiters drain: every run of the workflow
\* ends, whichever of them repair, give up, restart or abort.
RunsEnd == \A r \in Runs : pc[r] = "probe" ~> pc[r] = "done"
=============================================================================
