------------------------ MODULE RecipeRepair_proofs -------------------------
(***************************************************************************)
(* Proofs about RecipeRepair, for any number of runs and of steps.         *)
(***************************************************************************)
EXTENDS RecipeRepair, TLAPS

\* The steps at which a run holds the mutex only for an instant.
Instants == {"probing", "through", "waited"}

\* Whoever is about to let the mutex go again holds it.
InstantsHold == \A r \in Runs : pc[r] \in Instants => lock = r

\* A run outside execute has fixed nothing, and only a run that executes, or
\* looks at the mutex on its way in, holds it.
OutsideExecute ==
    \A r \in Runs :
        /\ pc[r] \in {"idle", "probe", "probing", "barrier", "through"} => repaired[r] = {}
        /\ pc[r] \in {"idle", "probe", "barrier", "wait", "done"} => lock # r

\* The inductive invariant.
IInv == TypeOK /\ OneRepairer /\ InstantsHold /\ OutsideExecute

\* A run never queues for a mutex it holds, and never ends with it: no repair
\* is waited for that its own run would have to finish, and none is left behind.
NoSelfWait == \A r \in Runs : pc[r] \in {"barrier", "wait", "done"} => lock # r

-----------------------------------------------------------------------------
\* Every run starts outside execute, with the mutex free.
LEMMA InitIInv == Init => IInv
BY RecipeRepairAssumption
   DEF Init, IInv, TypeOK, OneRepairer, InstantsHold, OutsideExecute, PC, InExecute, Instants

\* Every step of a run keeps the types: the position stays within the recipe
\* and the one restart is not taken twice.
LEMMA StepTypeOK == TypeOK /\ [Next]_vars => TypeOK'
<1> SUFFICES ASSUME TypeOK, [Next]_vars PROVE TypeOK'
    OBVIOUS
<1> USE RecipeRepairAssumption DEF TypeOK, PC
<1>1. ASSUME NEW r \in Runs, RunStep(r) PROVE TypeOK'
  <2>1. CASE Load(r)
    BY <2>1 DEF Load, Goto
  <2>2. CASE Probe(r)
    BY <2>2 DEF Probe, Goto
  <2>3. CASE EndProbe(r)
    BY <2>3 DEF EndProbe, Goto, Release
  <2>4. CASE PassBarrier(r)
    BY <2>4 DEF PassBarrier, Goto
  <2>5. CASE Reload(r)
    BY <2>5 DEF Reload, Goto, Release, StartOver
  <2>6. CASE StepPasses(r)
    BY <2>6 DEF StepPasses, Advance, Goto
  <2>7. CASE StepFails(r)
    BY <2>7 DEF StepFails, Goto
  <2>8. CASE TryBegin(r)
    BY <2>8 DEF TryBegin, Goto
  <2>9. CASE AwaitRepair(r)
    BY <2>9 DEF AwaitRepair, Goto
  <2>10. CASE RestartAfterWait(r)
    <3>1. CASE restarts[r] > 0
      <4>1. restarts[r] - 1 \in 0..1
        BY <3>1
      <4>2. restarts' \in [Runs -> 0..1]
        BY <2>10, <3>1, <4>1 DEF RestartAfterWait
      <4>3. at' \in [Runs -> 1..Steps] /\ pc' \in [Runs -> PC]
        BY <2>10, <3>1 DEF RestartAfterWait, Goto, StartOver
      <4>4. mine' = [mine EXCEPT ![r] = recipe] /\ repaired' = [repaired EXCEPT ![r] = {}]
        BY <2>10, <3>1 DEF RestartAfterWait, StartOver
      <4>5. lock' \in Runs \cup {NoRun} /\ recipe' \subseteq 1..Steps /\ broken' \subseteq 1..Steps
        BY <2>10 DEF RestartAfterWait, Release
      <4>6. mine' \in [Runs -> SUBSET (1..Steps)]
        BY <4>4
      <4>7. repaired' \in [Runs -> SUBSET (1..Steps)]
        BY <4>4
      <4> QED BY <4>2, <4>3, <4>5, <4>6, <4>7
    <3>2. CASE ~(restarts[r] > 0)
      BY <2>10, <3>2 DEF RestartAfterWait, Goto, Release
    <3> QED BY <3>1, <3>2
  <2>11. CASE FixSelector(r)
    BY <2>11 DEF FixSelector, Advance, Goto
  <2>12. CASE GiveUp(r)
    BY <2>12 DEF GiveUp, Goto
  <2>13. CASE NewRecipe(r)
    BY <2>13 DEF NewRecipe, Goto
  <2>14. CASE Heal(r)
    BY <2>14 DEF Heal, Goto, Release, StartOver
  <2>15. CASE WrapUp(r)
    BY <2>15 DEF WrapUp, Goto, Release
  <2> QED BY <1>1, <2>1, <2>2, <2>3, <2>4, <2>5, <2>6, <2>7, <2>8, <2>9, <2>10,
             <2>11, <2>12, <2>13, <2>14, <2>15 DEF RunStep
<1>2. ASSUME NEW r \in Runs, Abort(r) PROVE TypeOK'
  BY <1>2 DEF Abort, Goto, Release
<1>3. ASSUME NEW s \in 1..Steps, SiteChanges(s) PROVE TypeOK'
  BY <1>3 DEF SiteChanges
<1>4. CASE UNCHANGED vars
  BY <1>4 DEF vars
<1> QED BY <1>1, <1>2, <1>3, <1>4 DEF Next

\* Every step preserves who holds the mutex and why.
LEMMA StepIInv == IInv /\ [Next]_vars => IInv'
<1> SUFFICES ASSUME IInv, [Next]_vars PROVE IInv'
    OBVIOUS
<1> USE RecipeRepairAssumption
    DEF IInv, TypeOK, PC, OneRepairer, InstantsHold, OutsideExecute, InExecute, Instants
<1>0. TypeOK'
  BY StepTypeOK
<1>1. ASSUME NEW r \in Runs, RunStep(r) PROVE IInv'
  <2>1. CASE Load(r)
    BY <1>0, <2>1 DEF Load, Goto
  <2>2. CASE Probe(r)
    BY <1>0, <2>2 DEF Probe, Goto
  <2>3. CASE EndProbe(r)
    BY <1>0, <2>3 DEF EndProbe, Goto, Release
  <2>4. CASE PassBarrier(r)
    BY <1>0, <2>4 DEF PassBarrier, Goto
  <2>5. CASE Reload(r)
    BY <1>0, <2>5 DEF Reload, Goto, Release, StartOver
  <2>6. CASE StepPasses(r)
    BY <1>0, <2>6 DEF StepPasses, Advance, Goto
  <2>7. CASE StepFails(r)
    BY <1>0, <2>7 DEF StepFails, Goto
  <2>8. CASE TryBegin(r)
    BY <1>0, <2>8 DEF TryBegin, Goto
  <2>9. CASE AwaitRepair(r)
    BY <1>0, <2>9 DEF AwaitRepair, Goto
  <2>10. CASE RestartAfterWait(r)
    BY <1>0, <2>10 DEF RestartAfterWait, Goto, Release, StartOver
  <2>11. CASE FixSelector(r)
    BY <1>0, <2>11 DEF FixSelector, Advance, Goto
  <2>12. CASE GiveUp(r)
    BY <1>0, <2>12 DEF GiveUp, Goto
  <2>13. CASE NewRecipe(r)
    BY <1>0, <2>13 DEF NewRecipe, Goto
  <2>14. CASE Heal(r)
    BY <1>0, <2>14 DEF Heal, Goto, Release, StartOver
  <2>15. CASE WrapUp(r)
    BY <1>0, <2>15 DEF WrapUp, Goto, Release
  <2> QED BY <1>1, <2>1, <2>2, <2>3, <2>4, <2>5, <2>6, <2>7, <2>8, <2>9, <2>10,
             <2>11, <2>12, <2>13, <2>14, <2>15 DEF RunStep
<1>2. ASSUME NEW r \in Runs, Abort(r) PROVE IInv'
  BY <1>0, <1>2 DEF Abort, Goto, Release
<1>3. ASSUME NEW s \in 1..Steps, SiteChanges(s) PROVE IInv'
  BY <1>0, <1>3 DEF SiteChanges
<1>4. CASE UNCHANGED vars
  BY <1>0, <1>4 DEF vars
<1> QED BY <1>1, <1>2, <1>3, <1>4 DEF Next

\* A step that takes the mutex from a run that holds it for a repair ends
\* that run.
LEMMA StepGuard ==
    ASSUME IInv, Next, NEW r \in Runs, lock = r, pc[r] \notin Instants, lock' # r
    PROVE  pc'[r] = "done"
<1> USE RecipeRepairAssumption DEF IInv, TypeOK, Instants
<1>1. ASSUME NEW q \in Runs, RunStep(q) PROVE pc'[r] = "done"
  <2>1. CASE q # r
    BY <1>1, <2>1 DEF RunStep, Load, Probe, EndProbe, PassBarrier, Reload, StepPasses,
          StepFails, TryBegin, AwaitRepair, RestartAfterWait, FixSelector, GiveUp,
          NewRecipe, Heal, WrapUp, Goto, Release, StartOver
  <2>2. CASE q = r
    BY <1>1, <2>2 DEF RunStep, Load, Probe, EndProbe, PassBarrier, Reload, StepPasses,
          StepFails, TryBegin, AwaitRepair, RestartAfterWait, FixSelector, GiveUp,
          NewRecipe, Heal, WrapUp, Goto, Release, StartOver
  <2> QED BY <2>1, <2>2
<1>2. ASSUME NEW q \in Runs, Abort(q) PROVE pc'[r] = "done"
  BY <1>2 DEF Abort, Goto, Release
<1>3. ASSUME NEW s \in 1..Steps, SiteChanges(s) PROVE pc'[r] = "done"
  BY <1>3 DEF SiteChanges
<1> QED BY <1>1, <1>2, <1>3 DEF Next

-----------------------------------------------------------------------------
\* The inductive invariant holds throughout.
LEMMA Invariance == Spec => []IInv
BY InitIInv, StepIInv, PTL DEF Spec

\* Types: positions stay within the recipe and the restart budget of a run is
\* never overdrawn, by the self-heal restart or by the one after a wait.
THEOREM TypeCorrect == Spec => []TypeOK
<1>1. IInv => TypeOK
  BY DEF IInv
<1> QED BY Invariance, <1>1, PTL

\* try_begin is the guarantee against duplicate concurrent repairs: from its
\* first repair to its end, restart included, a repairing run holds the lock.
THEOREM RepairerHoldsLock == Spec => []OneRepairer
<1>1. IInv => OneRepairer
  BY DEF IInv
<1> QED BY Invariance, <1>1, PTL

\* A run that repairs keeps its guard through the self-heal restart, until it
\* ends or is aborted.
THEOREM GuardKept == Spec => GuardHeldToEnd
<1> DEFINE Kept == \A r \in Runs :
      (lock = r /\ pc[r] \notin {"probing", "through", "waited"} /\ lock' # r) => pc'[r] = "done"
<1>1. IInv /\ [Next]_vars => [Kept]_vars
  BY StepGuard DEF Instants, vars
<1> QED BY Invariance, <1>1, PTL DEF Spec, GuardHeldToEnd

\* No run waits at the entry barrier, or for another run's repair, while it
\* holds the mutex itself, and no run that has ended still holds it.
THEOREM NoDeadlockOnSelf == Spec => []NoSelfWait
<1>1. IInv => NoSelfWait
  BY DEF IInv, OutsideExecute, NoSelfWait
<1> QED BY Invariance, <1>1, PTL
=============================================================================
