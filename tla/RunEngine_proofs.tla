-------------------------- MODULE RunEngine_proofs --------------------------
(***************************************************************************)
(* Proofs about RunEngine, for any calls and any ceilings.                 *)
(***************************************************************************)
EXTENDS RunEngine, FiniteSetTheorems, TLAPS

\* One step of one call.
CallStep(c) ==
    \/ Admit(c) \/ Reject(c) \/ PrepareFails(c) \/ BodyStep(c) \/ TaskStep(c)
    \/ WriteLands(c) \/ Timeout(c) \/ Cancel(c) \/ Drop(c)

\* How far a call, its step task and their result agree.  The last three lines
\* are what a charge rests on: a status write is outstanding only while the
\* task waits for it or after the task was aborted, so none can land on the
\* row of a run that succeeded.
Ended == {"rollup", "finish", "settle", "done"}
LifeOf(c) ==
    /\ pc[c] \in {"idle", "refused"} \cup Preparing => exec[c] = "none"
    /\ exec[c] \in {"none"} \cup Driving => outcome[c] = "none"
    /\ exec[c] = "ended" => outcome[c] # "none"
    /\ pc[c] \in {"finalize"} \cup Ended => exec[c] \in {"ended", "gone"} /\ outcome[c] # "none"
    /\ write[c] # "none" => exec[c] \in {"noting", "clearing", "restarting", "gone"}
    /\ outcome[c] = "ok" => exec[c] = "ended"
    /\ pc[c] \in Ended /\ outcome[c] = "ok" => row[c] = "success"
    /\ meter[c] = "charged" => pc[c] = "done" /\ outcome[c] = "ok"

Life == \A c \in Calls : LifeOf(c)

\* The permits respect both ceilings of the governor.
PermitsWithin == Pool!Within(slots)

\* A task that drives a browser belongs to a run_body that awaits it.
Attached == \A c \in Calls : exec[c] \in Driving => pc[c] = "body"

\* Without AI repair the row follows the call: no status write is ever
\* outstanding, and each stage of the call has its kind of status.
RowOf(c) ==
    /\ write[c] = "none"
    /\ exec[c] \notin {"noting", "repair", "clearing", "restarting"}
    /\ pc[c] \in {"idle", "refused", "load", "barrier", "authorize", "insert"} => row[c] = "none"
    /\ pc[c] \in {"register", "body", "finalize"} => row[c] \in InFlight
    /\ pc[c] \in Ended => row[c] \in Terminal
    /\ up /\ pc[c] = "lost" => row[c] \notin InFlight
    /\ ~up => pc[c] \notin Preparing \cup InBody

RowFollows == \A c \in Calls : RowOf(c)

-----------------------------------------------------------------------------
(* The initial state.                                                      *)

\* Nothing is admitted, registered, inserted or charged at the start.
LEMMA InitAll ==
    Init => TypeOK /\ NothingLeaks /\ Life /\ Attached /\ RowFollows
<1> SUFFICES ASSUME Init PROVE TypeOK /\ NothingLeaks /\ Life /\ Attached /\ RowFollows
    OBVIOUS
<1> USE RunEngineAssumption DEF Init, PC, Preparing, InBody, Exec, Driving, Outcome, InFlight,
    Terminal, Record!Status, Record!InFlight, Record!Terminal, Ended
<1>1. TypeOK
  BY DEF TypeOK
<1>2. NothingLeaks
  BY DEF NothingLeaks
<1>3. Life
  BY DEF Life, LifeOf
<1>4. Attached
  BY DEF Attached
<1>5. RowFollows
  BY DEF RowFollows, RowOf
<1> QED BY <1>1, <1>2, <1>3, <1>4, <1>5

-----------------------------------------------------------------------------
(* Every step preserves the types.                                         *)

\* finalize writes a terminal status, and "success" for nothing but a success.
LEMMA StatusOfEnds ==
    ASSUME NEW o \in Outcome
    PROVE  StatusOf(o) \in Terminal \ {"interrupted"} /\ (StatusOf(o) = "success" <=> o = "ok")
BY DEF Outcome, StatusOf, Terminal, Record!Terminal

\* Every step of a call, of the process and of its restart keeps the types.
LEMMA StepTypeOK == TypeOK /\ Life /\ [Next]_vars => TypeOK'
<1> SUFFICES ASSUME TypeOK, Life, [Next]_vars PROVE TypeOK'
    OBVIOUS
<1> USE RunEngineAssumption DEF TypeOK, PC, Preparing, InBody, Exec, Driving, Outcome, InFlight,
    Terminal, Record!Status, Record!InFlight, Record!Terminal, task, registry, books, process
<1>1. ASSUME NEW c \in Calls, CallStep(c) PROVE TypeOK'
  <2>1. CASE Admit(c)
    BY <2>1 DEF Admit, Pool!Grant
  <2>2. CASE Reject(c)
    BY <2>2 DEF Reject
  <2>3. CASE PrepareFails(c)
    BY <2>3 DEF PrepareFails
  <2>4. CASE LoadWorkflow(c)
    BY <2>4 DEF LoadWorkflow
  <2>5. CASE Authorize(c)
    BY <2>5 DEF Authorize
  <2>6. CASE InsertRow(c)
    BY <2>6 DEF InsertRow, Record!Open
  <2>7. CASE Register(c)
    BY <2>7 DEF Register
  <2>8. CASE Join(c)
    BY <2>8 DEF Join
  <2>9. CASE FinalizeRow(c)
    <3>1. outcome[c] \in Outcome
      BY <2>9 DEF FinalizeRow, Life, LifeOf, Ended
    <3>2. StatusOf(outcome[c]) \in Record!Status
      BY <3>1, StatusOfEnds
    <3> QED BY <2>9, <3>2 DEF FinalizeRow
  <2>10. CASE RollUp(c)
    BY <2>10 DEF RollUp
  <2>11. CASE Finish(c)
    BY <2>11 DEF Finish, Pool!GiveBack
  <2>12. CASE Settle(c)
    BY <2>12 DEF Settle
  <2>13. CASE Enter(c)
    BY <2>13 DEF Enter, Returns, GoesTo
  <2>14. CASE Resolve(c)
    BY <2>14 DEF Resolve, Returns, GoesTo
  <2>15. CASE OpenPage(c)
    BY <2>15 DEF OpenPage, Returns, GoesTo
  <2>16. CASE BeginStep(c)
    BY <2>16 DEF BeginStep, Returns, GoesTo
  <2>17. CASE StepPasses(c)
    BY <2>17 DEF StepPasses, Returns, GoesTo
  <2>18. CASE StepFails(c)
    BY <2>18 DEF StepFails, Returns, GoesTo, Repairable
  <2>19. CASE Repair(c)
    BY <2>19 DEF Repair, Returns, GoesTo
  <2>20. CASE Panic(c)
    BY <2>20 DEF Panic, Returns
  <2>21. CASE WriteLands(c)
    BY <2>21 DEF WriteLands
  <2>22. CASE Timeout(c)
    BY <2>22 DEF Timeout
  <2>23. CASE Cancel(c)
    BY <2>23 DEF Cancel
  <2>24. CASE Drop(c)
    BY <2>24 DEF Drop
  <2>25. CASE PassBarrier(c)
    BY <2>25 DEF PassBarrier
  <2>26. CASE WaitOut(c)
    BY <2>26 DEF WaitOut, Returns, GoesTo
  <2> QED
    BY <1>1, <2>1, <2>2, <2>3, <2>4, <2>5, <2>6, <2>7, <2>8, <2>9, <2>10,
       <2>11, <2>12, <2>13, <2>14, <2>15, <2>16, <2>17, <2>18, <2>19, <2>20,
       <2>21, <2>22, <2>23, <2>24, <2>25, <2>26 DEF CallStep, BodyStep, TaskStep
<1>2. CASE Crash
  <2>1. /\ pc' \in [Calls -> PC]
        /\ exec' \in [Calls -> Exec]
        /\ write' \in [Calls -> InFlight \cup {"none"}]
    BY <1>2 DEF Crash
  <2>2. crashes' \in 0..MaxCrashes
    BY <1>2 DEF Crash
  <2> QED BY <1>2, <2>1, <2>2 DEF Crash
<1>3. CASE Boot
  BY <1>3 DEF Boot, Record!Reconcile
<1>4. CASE UNCHANGED vars
  BY <1>4 DEF vars
<1> QED BY <1>1, <1>2, <1>3, <1>4 DEF Next, CallStep

\* Every step that moves a call into or out of run_body moves its permit and
\* its registry entry with it.
LEMMA StepNothingLeaks == TypeOK /\ NothingLeaks /\ [Next]_vars => NothingLeaks'
<1> SUFFICES ASSUME TypeOK, NothingLeaks, [Next]_vars PROVE NothingLeaks'
    OBVIOUS
<1> USE DEF TypeOK, NothingLeaks, PC, Preparing, InBody, task, registry, books, process
<1>1. ASSUME NEW c \in Calls, CallStep(c) PROVE NothingLeaks'
  <2>1. CASE Admit(c)
    BY <2>1 DEF Admit, Pool!Grant
  <2>2. CASE Reject(c)
    BY <2>2 DEF Reject
  <2>3. CASE PrepareFails(c)
    BY <2>3 DEF PrepareFails
  <2>4. CASE LoadWorkflow(c)
    BY <2>4 DEF LoadWorkflow
  <2>5. CASE Authorize(c)
    BY <2>5 DEF Authorize
  <2>6. CASE InsertRow(c)
    BY <2>6 DEF InsertRow, Record!Open
  <2>7. CASE Register(c)
    BY <2>7 DEF Register
  <2>8. CASE Join(c)
    BY <2>8 DEF Join
  <2>9. CASE FinalizeRow(c)
    BY <2>9 DEF FinalizeRow, StatusOf
  <2>10. CASE RollUp(c)
    BY <2>10 DEF RollUp
  <2>11. CASE Finish(c)
    BY <2>11 DEF Finish, Pool!GiveBack
  <2>12. CASE Settle(c)
    BY <2>12 DEF Settle
  <2>13. CASE Enter(c)
    BY <2>13 DEF Enter, Returns, GoesTo
  <2>14. CASE Resolve(c)
    BY <2>14 DEF Resolve, Returns, GoesTo
  <2>15. CASE OpenPage(c)
    BY <2>15 DEF OpenPage, Returns, GoesTo
  <2>16. CASE BeginStep(c)
    BY <2>16 DEF BeginStep, Returns, GoesTo
  <2>17. CASE StepPasses(c)
    BY <2>17 DEF StepPasses, Returns, GoesTo
  <2>18. CASE StepFails(c)
    BY <2>18 DEF StepFails, Returns, GoesTo, Repairable
  <2>19. CASE Repair(c)
    BY <2>19 DEF Repair, Returns, GoesTo
  <2>20. CASE Panic(c)
    BY <2>20 DEF Panic, Returns
  <2>21. CASE WriteLands(c)
    BY <2>21 DEF WriteLands
  <2>22. CASE Timeout(c)
    BY <2>22 DEF Timeout
  <2>23. CASE Cancel(c)
    BY <2>23 DEF Cancel
  <2>24. CASE Drop(c)
    BY <2>24 DEF Drop
  <2>25. CASE PassBarrier(c)
    BY <2>25 DEF PassBarrier
  <2>26. CASE WaitOut(c)
    BY <2>26 DEF WaitOut, Returns, GoesTo
  <2> QED
    BY <1>1, <2>1, <2>2, <2>3, <2>4, <2>5, <2>6, <2>7, <2>8, <2>9, <2>10,
       <2>11, <2>12, <2>13, <2>14, <2>15, <2>16, <2>17, <2>18, <2>19, <2>20,
       <2>21, <2>22, <2>23, <2>24, <2>25, <2>26 DEF CallStep, BodyStep, TaskStep
<1>2. CASE Crash
  BY <1>2 DEF Crash
<1>3. CASE Boot
  BY <1>3 DEF Boot, Record!Reconcile
<1>4. CASE UNCHANGED vars
  BY <1>4 DEF vars
<1> QED BY <1>1, <1>2, <1>3, <1>4 DEF Next, CallStep

\* Every step keeps a call, its task and their result in agreement.
LEMMA StepLife == TypeOK /\ Life /\ [Next]_vars => Life'
<1> SUFFICES ASSUME TypeOK, Life, [Next]_vars, NEW d \in Calls PROVE LifeOf(d)'
    BY DEF Life
<1>0. LifeOf(d)
  BY DEF Life
<1> USE DEF TypeOK, LifeOf, Ended, Preparing, InBody, Driving, task, registry, books, process
<1>1. ASSUME NEW c \in Calls, CallStep(c) PROVE LifeOf(d)'
  <2>1. CASE Admit(c)
    BY <1>0, <2>1 DEF Admit, Pool!Grant
  <2>2. CASE Reject(c)
    BY <1>0, <2>2 DEF Reject
  <2>3. CASE PrepareFails(c)
    BY <1>0, <2>3 DEF PrepareFails
  <2>4. CASE LoadWorkflow(c)
    BY <1>0, <2>4 DEF LoadWorkflow
  <2>5. CASE Authorize(c)
    BY <1>0, <2>5 DEF Authorize
  <2>6. CASE InsertRow(c)
    BY <1>0, <2>6 DEF InsertRow, Record!Open
  <2>7. CASE Register(c)
    BY <1>0, <2>7 DEF Register
  <2>8. CASE Join(c)
    BY <1>0, <2>8 DEF Join
  <2>9. CASE FinalizeRow(c)
    BY <1>0, <2>9 DEF FinalizeRow, StatusOf
  <2>10. CASE RollUp(c)
    BY <1>0, <2>10 DEF RollUp
  <2>11. CASE Finish(c)
    BY <1>0, <2>11 DEF Finish, Pool!GiveBack
  <2>12. CASE Settle(c)
    BY <1>0, <2>12 DEF Settle
  <2>13. CASE Enter(c)
    BY <1>0, <2>13 DEF Enter, Returns, GoesTo
  <2>14. CASE Resolve(c)
    BY <1>0, <2>14 DEF Resolve, Returns, GoesTo
  <2>15. CASE OpenPage(c)
    BY <1>0, <2>15 DEF OpenPage, Returns, GoesTo
  <2>16. CASE BeginStep(c)
    BY <1>0, <2>16 DEF BeginStep, Returns, GoesTo
  <2>17. CASE StepPasses(c)
    BY <1>0, <2>17 DEF StepPasses, Returns, GoesTo
  <2>18. CASE StepFails(c)
    BY <1>0, <2>18 DEF StepFails, Returns, GoesTo, Repairable
  <2>19. CASE Repair(c)
    BY <1>0, <2>19 DEF Repair, Returns, GoesTo
  <2>20. CASE Panic(c)
    BY <1>0, <2>20 DEF Panic, Returns
  <2>21. CASE WriteLands(c)
    BY <1>0, <2>21 DEF WriteLands
  <2>22. CASE Timeout(c)
    BY <1>0, <2>22 DEF Timeout
  <2>23. CASE Cancel(c)
    BY <1>0, <2>23 DEF Cancel
  <2>24. CASE Drop(c)
    BY <1>0, <2>24 DEF Drop
  <2>25. CASE PassBarrier(c)
    BY <1>0, <2>25 DEF PassBarrier
  <2>26. CASE WaitOut(c)
    BY <1>0, <2>26 DEF WaitOut, Returns, GoesTo
  <2> QED
    BY <1>1, <2>1, <2>2, <2>3, <2>4, <2>5, <2>6, <2>7, <2>8, <2>9, <2>10,
       <2>11, <2>12, <2>13, <2>14, <2>15, <2>16, <2>17, <2>18, <2>19, <2>20,
       <2>21, <2>22, <2>23, <2>24, <2>25, <2>26 DEF CallStep, BodyStep, TaskStep
<1>2. CASE Crash
  BY <1>0, <1>2 DEF Crash
<1>3. CASE Boot
  BY <1>0, <1>3 DEF Boot, Record!Reconcile, Record!InFlight
<1>4. CASE UNCHANGED vars
  BY <1>0, <1>4 DEF vars
<1> QED BY <1>1, <1>2, <1>3, <1>4 DEF Next, CallStep

-----------------------------------------------------------------------------
(* Ceilings.                                                               *)

\* The calls, and so every set of them, are finite.
LEMMA CallsFinite == IsFiniteSet(Calls)
BY RunEngineAssumption, FS_Union DEF Calls

\* The pool counts as this module does.
LEMMA SameCardinality == \A S : Pool!Cardinality(S) = Cardinality(S)
BY Zenon DEF Pool!Cardinality, Cardinality

\* Fewer calls stay within the ceilings.
LEMMA WithinSubset ==
    ASSUME NEW S \in SUBSET Calls, NEW T \in SUBSET S, Pool!Within(S)
    PROVE  Pool!Within(T)
<1>1. IsFiniteSet(S) /\ IsFiniteSet(S \cap Background)
  BY CallsFinite, FS_Subset
<1>2. T \cap Background \in SUBSET (S \cap Background)
  OBVIOUS
<1>3. /\ Cardinality(T) <= Cardinality(S)
      /\ Cardinality(T \cap Background) <= Cardinality(S \cap Background)
      /\ Cardinality(S) \in Nat /\ Cardinality(S \cap Background) \in Nat
      /\ Cardinality(T) \in Nat /\ Cardinality(T \cap Background) \in Nat
  BY <1>1, <1>2, FS_Subset, FS_CardinalityType
<1> QED BY <1>3, SameCardinality, RunEngineAssumption DEF Pool!Within

\* Nobody runs at the start.
LEMMA InitPermits == Init => PermitsWithin
<1>1. {} \cap Background = {} /\ Cardinality({}) = 0
  BY FS_EmptySet
<1> QED BY <1>1, SameCardinality, RunEngineAssumption DEF Init, PermitsWithin, Pool!Within

\* Admission never grants past a ceiling, and every other step only returns
\* permits.
LEMMA StepPermits == TypeOK /\ PermitsWithin /\ [Next]_vars => PermitsWithin'
<1> SUFFICES ASSUME TypeOK, PermitsWithin, [Next]_vars PROVE PermitsWithin'
    OBVIOUS
<1>1. ASSUME slots' \subseteq slots PROVE PermitsWithin'
  <2>1. slots \in SUBSET Calls /\ slots' \in SUBSET slots
    BY <1>1 DEF TypeOK
  <2>2. Pool!Within(slots')
    BY <2>1, WithinSubset DEF PermitsWithin
  <2> QED BY <2>2 DEF PermitsWithin, Pool!Within
<1>2. ASSUME NEW c \in Calls, Admit(c) PROVE PermitsWithin'
  BY <1>2 DEF Admit, Pool!Grant, PermitsWithin, Pool!Within
<1>3. ASSUME NEW c \in Calls, CallStep(c), ~Admit(c) PROVE slots' \subseteq slots
  BY <1>3 DEF CallStep, BodyStep, TaskStep, Reject, PrepareFails, LoadWorkflow,
     PassBarrier, WaitOut, Authorize,
     InsertRow, Register, Join, FinalizeRow, RollUp, Finish, Settle, Enter, Resolve,
     OpenPage, BeginStep, StepPasses, StepFails, Repair, Panic, WriteLands, Timeout, Cancel,
     Drop, Pool!GiveBack
<1>4. CASE Crash \/ Boot \/ UNCHANGED vars
  BY <1>1, <1>4 DEF Crash, Boot, vars
<1> QED BY <1>1, <1>2, <1>3, <1>4 DEF Next, CallStep

\* If only spawned calls lose their callers, no step detaches a step task from
\* the body that awaits it.
LEMMA StepAttached ==
    ASSUME Droppable \subseteq Spawned
    PROVE  TypeOK /\ Life /\ Attached /\ [Next]_vars => Attached'
<1> SUFFICES ASSUME TypeOK, Life, Attached, [Next]_vars, NEW d \in Calls
             PROVE  exec'[d] \in Driving => pc'[d] = "body"
    BY DEF Attached
<1>0. LifeOf(d) /\ (exec[d] \in Driving => pc[d] = "body")
  BY DEF Life, Attached
<1> USE DEF TypeOK, LifeOf, Driving, Preparing, task, registry, books, process
<1>1. ASSUME NEW c \in Calls, CallStep(c) PROVE exec'[d] \in Driving => pc'[d] = "body"
  <2>1. CASE Admit(c)
    BY <1>0, <2>1 DEF Admit, Pool!Grant
  <2>2. CASE Reject(c)
    BY <1>0, <2>2 DEF Reject
  <2>3. CASE PrepareFails(c)
    BY <1>0, <2>3 DEF PrepareFails
  <2>4. CASE LoadWorkflow(c)
    BY <1>0, <2>4 DEF LoadWorkflow
  <2>5. CASE Authorize(c)
    BY <1>0, <2>5 DEF Authorize
  <2>6. CASE InsertRow(c)
    BY <1>0, <2>6 DEF InsertRow, Record!Open
  <2>7. CASE Register(c)
    BY <1>0, <2>7 DEF Register
  <2>8. CASE Join(c)
    BY <1>0, <2>8 DEF Join
  <2>9. CASE FinalizeRow(c)
    BY <1>0, <2>9 DEF FinalizeRow, StatusOf
  <2>10. CASE RollUp(c)
    BY <1>0, <2>10 DEF RollUp
  <2>11. CASE Finish(c)
    BY <1>0, <2>11 DEF Finish, Pool!GiveBack
  <2>12. CASE Settle(c)
    BY <1>0, <2>12 DEF Settle
  <2>13. CASE Enter(c)
    BY <1>0, <2>13 DEF Enter, Returns, GoesTo
  <2>14. CASE Resolve(c)
    BY <1>0, <2>14 DEF Resolve, Returns, GoesTo
  <2>15. CASE OpenPage(c)
    BY <1>0, <2>15 DEF OpenPage, Returns, GoesTo
  <2>16. CASE BeginStep(c)
    BY <1>0, <2>16 DEF BeginStep, Returns, GoesTo
  <2>17. CASE StepPasses(c)
    BY <1>0, <2>17 DEF StepPasses, Returns, GoesTo
  <2>18. CASE StepFails(c)
    BY <1>0, <2>18 DEF StepFails, Returns, GoesTo, Repairable
  <2>19. CASE Repair(c)
    BY <1>0, <2>19 DEF Repair, Returns, GoesTo
  <2>20. CASE Panic(c)
    BY <1>0, <2>20 DEF Panic, Returns
  <2>21. CASE WriteLands(c)
    BY <1>0, <2>21 DEF WriteLands
  <2>22. CASE Timeout(c)
    BY <1>0, <2>22 DEF Timeout
  <2>23. CASE Cancel(c)
    BY <1>0, <2>23 DEF Cancel
  <2>24. CASE Drop(c)
    BY <1>0, <2>24 DEF Drop
  <2>25. CASE PassBarrier(c)
    BY <1>0, <2>25 DEF PassBarrier
  <2>26. CASE WaitOut(c)
    BY <1>0, <2>26 DEF WaitOut, Returns, GoesTo
  <2> QED
    BY <1>1, <2>1, <2>2, <2>3, <2>4, <2>5, <2>6, <2>7, <2>8, <2>9, <2>10,
       <2>11, <2>12, <2>13, <2>14, <2>15, <2>16, <2>17, <2>18, <2>19, <2>20,
       <2>21, <2>22, <2>23, <2>24, <2>25, <2>26 DEF CallStep, BodyStep, TaskStep
<1>2. CASE Crash
  BY <1>0, <1>2 DEF Crash
<1>3. CASE Boot
  BY <1>0, <1>3 DEF Boot, Record!Reconcile
<1>4. CASE UNCHANGED vars
  BY <1>0, <1>4 DEF vars
<1> QED BY <1>1, <1>2, <1>3, <1>4 DEF Next, CallStep

-----------------------------------------------------------------------------
(* The row, when no workflow opted into AI repair.                         *)

\* Every step keeps the row in the stage of its call.
LEMMA StepRowFollows ==
    ASSUME ~AiRepair
    PROVE  TypeOK /\ Life /\ RowFollows /\ [Next]_vars => RowFollows'
<1> SUFFICES ASSUME TypeOK, Life, RowFollows, [Next]_vars, NEW d \in Calls PROVE RowOf(d)'
    BY DEF RowFollows
<1>0. LifeOf(d) /\ RowOf(d)
  BY DEF Life, RowFollows
<1> USE DEF TypeOK, RowOf, Ended, Preparing, InBody, task, registry, books, process
<1>1. ASSUME NEW c \in Calls, CallStep(c) PROVE RowOf(d)'
  <2>1. CASE Admit(c)
    BY <1>0, <2>1 DEF Admit, Pool!Grant
  <2>2. CASE Reject(c)
    BY <1>0, <2>2 DEF Reject
  <2>3. CASE PrepareFails(c)
    BY <1>0, <2>3 DEF PrepareFails
  <2>4. CASE LoadWorkflow(c)
    BY <1>0, <2>4 DEF LoadWorkflow
  <2>5. CASE Authorize(c)
    BY <1>0, <2>5 DEF Authorize
  <2>6. CASE InsertRow(c)
    BY <1>0, <2>6 DEF InsertRow, Record!Open, InFlight, Record!InFlight
  <2>7. CASE Register(c)
    BY <1>0, <2>7 DEF Register
  <2>8. CASE Join(c)
    BY <1>0, <2>8 DEF Join
  <2>9. CASE FinalizeRow(c)
    <3>1. outcome[c] \in Outcome
      BY <2>9 DEF FinalizeRow, Life, LifeOf
    <3>2. StatusOf(outcome[c]) \in Terminal
      BY <3>1, StatusOfEnds
    <3> QED BY <1>0, <2>9, <3>2 DEF FinalizeRow
  <2>10. CASE RollUp(c)
    BY <1>0, <2>10 DEF RollUp
  <2>11. CASE Finish(c)
    BY <1>0, <2>11 DEF Finish, Pool!GiveBack
  <2>12. CASE Settle(c)
    BY <1>0, <2>12 DEF Settle
  <2>13. CASE Enter(c)
    BY <1>0, <2>13 DEF Enter, Returns, GoesTo
  <2>14. CASE Resolve(c)
    BY <1>0, <2>14 DEF Resolve, Returns, GoesTo
  <2>15. CASE OpenPage(c)
    BY <1>0, <2>15 DEF OpenPage, Returns, GoesTo
  <2>16. CASE BeginStep(c)
    BY <1>0, <2>16 DEF BeginStep, Returns, GoesTo
  <2>17. CASE StepPasses(c)
    BY <1>0, <2>17 DEF StepPasses, Returns, GoesTo
  <2>18. CASE StepFails(c)
    BY <1>0, <2>18 DEF StepFails, Returns, GoesTo, Repairable
  <2>19. CASE Repair(c)
    BY <1>0, <2>19 DEF Repair, Returns, GoesTo
  <2>20. CASE Panic(c)
    BY <1>0, <2>20 DEF Panic, Returns
  <2>21. CASE WriteLands(c)
    BY <2>21 DEF WriteLands, RowFollows
  <2>22. CASE Timeout(c)
    BY <1>0, <2>22 DEF Timeout
  <2>23. CASE Cancel(c)
    BY <1>0, <2>23 DEF Cancel
  <2>24. CASE Drop(c)
    BY <1>0, <2>24 DEF Drop
  <2>25. CASE PassBarrier(c)
    BY <1>0, <2>25 DEF PassBarrier
  <2>26. CASE WaitOut(c)
    BY <1>0, <2>26 DEF WaitOut, Returns, GoesTo
  <2> QED
    BY <1>1, <2>1, <2>2, <2>3, <2>4, <2>5, <2>6, <2>7, <2>8, <2>9, <2>10,
       <2>11, <2>12, <2>13, <2>14, <2>15, <2>16, <2>17, <2>18, <2>19, <2>20,
       <2>21, <2>22, <2>23, <2>24, <2>25, <2>26 DEF CallStep, BodyStep, TaskStep
<1>2. CASE Crash
  BY <1>0, <1>2 DEF Crash, Driving
<1>3. CASE Boot
  BY <1>0, <1>3 DEF Boot, Record!Reconcile, InFlight, Record!InFlight, Terminal, Record!Terminal
<1>4. CASE UNCHANGED vars
  BY <1>0, <1>4 DEF vars
<1> QED BY <1>1, <1>2, <1>3, <1>4 DEF Next, CallStep

\* Every step opens a row, closes an open one, reconciles at boot, or leaves
\* the rows alone.
LEMMA StepRecord ==
    ASSUME ~AiRepair
    PROVE  TypeOK /\ Life /\ RowFollows /\ [Next]_vars => [Record!RecordNext]_row
<1> SUFFICES ASSUME TypeOK, Life, RowFollows, [Next]_vars PROVE [Record!RecordNext]_row
    OBVIOUS
<1> USE DEF task, registry, books, process
<1>1. ASSUME NEW c \in Calls, InsertRow(c) PROVE Record!RecordNext
  BY <1>1 DEF InsertRow, Record!RecordNext
<1>2. ASSUME NEW c \in Calls, FinalizeRow(c) PROVE Record!RecordNext
  <2>1. outcome[c] \in Outcome /\ row[c] \in InFlight
    BY <1>2 DEF FinalizeRow, Life, LifeOf, RowFollows, RowOf, TypeOK
  <2>2. StatusOf(outcome[c]) \in Terminal \ {"interrupted"}
    BY <2>1, StatusOfEnds
  <2>3. Record!Close(c)
    BY <1>2, <2>1, <2>2 DEF FinalizeRow, Record!Close, InFlight, Terminal
  <2> QED BY <2>3 DEF Record!RecordNext
<1>3. ASSUME NEW c \in Calls, WriteLands(c) PROVE FALSE
  BY <1>3 DEF WriteLands, RowFollows, RowOf
<1>4. CASE Boot
  BY <1>4 DEF Boot, Record!RecordNext
<1>5. ASSUME NEW c \in Calls, CallStep(c), ~InsertRow(c), ~FinalizeRow(c), ~WriteLands(c)
      PROVE  UNCHANGED row
  BY <1>5 DEF CallStep, BodyStep, TaskStep, Admit, Reject, PrepareFails, LoadWorkflow,
     PassBarrier, WaitOut, Authorize, Register, Join, RollUp, Finish, Settle, Enter, Resolve, OpenPage, BeginStep,
     StepPasses, StepFails, Repair, Panic, Timeout, Cancel, Drop
<1>6. CASE Crash \/ UNCHANGED vars
  BY <1>6 DEF Crash, vars
<1> QED BY <1>1, <1>2, <1>3, <1>4, <1>5, <1>6 DEF Next, CallStep

-----------------------------------------------------------------------------
(* Theorems.                                                               *)

\* What holds whatever is dropped or repaired.
LEMMA Invariance == Spec => [](TypeOK /\ NothingLeaks /\ Life /\ PermitsWithin)
BY InitAll, InitPermits, StepTypeOK, StepNothingLeaks, StepLife, StepPermits, PTL DEF Spec

\* The types of RunEngine: in particular the status finalize writes is always
\* that of an outcome the run really has.
THEOREM TypeCorrect == Spec => []TypeOK
BY Invariance, PTL

\* Permits and registry entries are held by exactly the calls that are between
\* admission (or registration) and the end of run_body, whatever times out,
\* panics, is refused, is dropped by its caller or dies with the process.
THEOREM NoLeaks == Spec => []NothingLeaks
BY Invariance, PTL

\* A buyer is charged only for a run whose outcome is success and whose row
\* says so, even with aborted tasks whose status writes are still under way.
THEOREM ChargesEarned == Spec => []ChargedForSuccess
<1>1. Life => ChargedForSuccess
  BY DEF Life, LifeOf, Ended, ChargedForSuccess
<1> QED BY Invariance, <1>1, PTL

\* If no caller drops the future that awaits a step task, the governor's
\* ceilings bound the tasks that drive a browser, AI repair and its restarts
\* included.
THEOREM CeilingBoundsWork ==
    ASSUME Droppable \subseteq Spawned
    PROVE  Spec => []TasksWithinCeiling
<1>1. TypeOK /\ NothingLeaks /\ PermitsWithin /\ Attached => TasksWithinCeiling
  <2> SUFFICES ASSUME TypeOK, NothingLeaks, PermitsWithin, Attached PROVE TasksWithinCeiling
      OBVIOUS
  <2> DEFINE D == {c \in Calls : exec[c] \in Driving}
  <2>1. D \in SUBSET slots /\ slots \in SUBSET Calls
    BY DEF NothingLeaks, Attached, InBody
  <2>2. Pool!Within(D)
    BY <2>1, WithinSubset DEF PermitsWithin
  <2>3. D \cap Background = {c \in Background : exec[c] \in Driving}
    BY DEF Calls
  <2> QED BY <2>2, <2>3, SameCardinality DEF Pool!Within, TasksWithinCeiling
<1>2. TypeOK /\ Life /\ Attached /\ [Next]_vars => Attached'
  BY StepAttached
<1> QED BY InitAll, Invariance, <1>1, <1>2, PTL DEF Spec

\* Without AI repair every row is opened once, closed once and then final:
\* RunEngine implements RunRecord, dropped callers included.
THEOREM RecordRefinement ==
    ASSUME ~AiRepair
    PROVE  Spec => ImplementsRecord
<1>1. Init => Record!RecordInit
  BY DEF Init, Record!RecordInit
<1>2. TypeOK /\ Life /\ RowFollows /\ [Next]_vars => RowFollows'
  BY StepRowFollows
<1>3. TypeOK /\ Life /\ RowFollows /\ [Next]_vars => [Record!RecordNext]_row
  BY StepRecord
<1> QED BY InitAll, Invariance, <1>1, <1>2, <1>3, PTL DEF Spec, ImplementsRecord, Record!RecordSpec

\* Without AI repair and dropped callers the row is the liveness record: it
\* reads in-flight exactly while its run is between insert_run_row and finalize.
THEOREM RowIsLiveness ==
    ASSUME ~AiRepair, Droppable = {}
    PROVE  Spec => []RowMatchesRun
<1> DEFINE NoneDropped == \A c \in Calls : pc[c] # "dropped"
<1>1. Init => NoneDropped
  BY DEF Init
<1>2. TypeOK /\ NoneDropped /\ [Next]_vars => NoneDropped'
  <2> SUFFICES ASSUME TypeOK, NoneDropped, [Next]_vars, NEW d \in Calls PROVE pc'[d] # "dropped"
      OBVIOUS
  <2> USE DEF TypeOK, task, registry, books, process
  <2>1. ASSUME NEW c \in Calls, CallStep(c) PROVE pc'[d] # "dropped"
    BY <2>1 DEF CallStep, BodyStep, TaskStep, Admit, InsertRow, FinalizeRow, WriteLands,
       Reject, PrepareFails, LoadWorkflow, PassBarrier, WaitOut, Authorize, Register, Join,
       RollUp, Finish,
       Settle, Enter, Resolve, OpenPage, BeginStep, StepPasses, StepFails, Repair, Panic,
       Timeout, Cancel, Drop
  <2>2. CASE Crash \/ Boot \/ UNCHANGED vars
    BY <2>2 DEF Crash, Boot, vars
  <2> QED BY <2>1, <2>2 DEF Next, CallStep
<1>3. TypeOK /\ RowFollows /\ NoneDropped => RowMatchesRun
  <2> SUFFICES ASSUME TypeOK, RowFollows, NoneDropped, up, NEW c \in Calls
               PROVE  row[c] \in InFlight <=> pc[c] \in {"register", "body", "finalize"}
      BY DEF RowMatchesRun
  <2> QED BY DEF TypeOK, RowFollows, RowOf, PC, Preparing, InBody, Ended, InFlight, Terminal,
             Record!InFlight, Record!Terminal
<1>4. TypeOK /\ Life /\ RowFollows /\ [Next]_vars => RowFollows'
  BY StepRowFollows
<1> QED BY InitAll, Invariance, <1>1, <1>2, <1>3, <1>4, PTL DEF Spec
=============================================================================
