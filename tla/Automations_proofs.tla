------------------------- MODULE Automations_proofs -------------------------
(***************************************************************************)
(* Proofs about Automations, for any automations, runs and flows.          *)
(***************************************************************************)
EXTENDS Automations, FiniteSetTheorems, TLAPS

EventName == {"webhook_received", "manual"} \cup RunEvent \cup SessionEvent
HopCount == 0..2

\* The two halves of the type invariant that the steps change apart.
RunType == run \in [Runs -> Run]
FlowType == flow \in [Flows -> Flow]
CountType ==
    /\ fired \in [Autos -> Nat] /\ execs \in [Autos -> Nat]
    /\ cooling \in [Autos -> Nat] /\ \A a \in Autos : cooling[a] <= Config[a].cool
    /\ session \in BOOLEAN /\ extra \in [Autos -> Nat]
    /\ triggers \in 0..MaxTriggers /\ faults \in 0..MaxFaults

\* What the snapshot and the event in the channel say of a run is how it
\* ended, and before its end they say nothing.
TruthOf(r) ==
    /\ run[r].status # "running" => run[r].status = run[r].end
    /\ run[r].heard # None => Outcome(run[r].heard) = run[r].end
    /\ run[r].pc \in {"none", "running"} =>
          /\ run[r].status = "running" /\ run[r].heard = None
          /\ run[r].said \notin {"success", "failed"}
    /\ run[r].said \in {"success", "failed"} => run[r].said = run[r].end

Truth == \A r \in Runs : TruthOf(r)

\* A flow at work on an automation has one, and has taken it off its rows.
ShapeOf(f) ==
    /\ flow[f].pc \in {"insert", "mark", "act", "complete"} => flow[f].auto \in Autos
    /\ flow[f].pc \in {"insert", "mark"} => flow[f].rows[flow[f].auto] = None

Shape == \A f \in Flows : ShapeOf(f)

\* Only a flow that no event started is less than one hop away from a trigger,
\* and the events of runs come from such flows and from triggers.
HopOf(f) ==
    /\ flow[f].event \in RunEvent => flow[f].hop <= 1
    /\ flow[f].source # "workflow" => flow[f].hop = 0

Hops == \A f \in Flows : HopOf(f)

\* Flow f may still execute automation a, and is counted for it.
Armed(f, a) ==
    /\ flow[f].source # "manual"
    /\ \/ flow[f].rows[a] # None /\ flow[f].rows[a] < Config[a].max
       \/ flow[f].pc = "insert" /\ flow[f].auto = a

ArmedFlows(a) == {f \in Flows : Armed(f, a)}

\* Flow f has executed automation a, is counted for it, and has yet to stamp it.
AtMark(f, a) ==
    flow[f].pc = "mark" /\ flow[f].auto = a /\ flow[f].source # "manual"

\* Of an automation with a limit: its executions have been stamped, or are about
\* to be, or are accounted for, and there is room under the limit for all the
\* flows that may still execute it.
FireOf(a) ==
    Config[a].max > 0 =>
       /\ execs[a] <= fired[a] + extra[a] + Cardinality(Unstamped(a))
       /\ execs[a] + Cardinality(ArmedFlows(a)) <= Config[a].max + extra[a]

Fire == \A a \in Autos : FireOf(a)

-----------------------------------------------------------------------------
(* Runs.                                                                   *)

\* The actors other than a run's task and its watcher leave the runs alone.
LEMMA OthersKeepRuns ==
    /\ \A f \in Flows : Step(f) => UNCHANGED run
    /\ \A a \in Autos : Webhook(a) \/ RunNow(a) => UNCHANGED run
    /\ OpenSession \/ CloseSession \/ Elapse => UNCHANGED run
BY DEF Step, Load, NextAuto, Insert, Mark, RunWorkflow, RunSession, Probe, Launch, Stop, Ended,
       Complete, Webhook, RunNow, Handle, OpenSession, CloseSession, Elapse

\* A crash takes a run and its watcher away; what was reported stays.
LEMMA InterruptRuns ==
    ASSUME Interrupt
    PROVE  \/ UNCHANGED run
           \/ run' = [r \in Runs |-> IF run[r].watch \in {"none", "done", "expired"} THEN run[r]
                                     ELSE [run[r] EXCEPT !.pc = "gone", !.watch = "lost"]]
BY DEF Interrupt

\* Every step of a run and of its watcher keeps both halves of Truth.
LEMMA StepRuns == RunType /\ Truth /\ [Next]_vars => RunType' /\ Truth'
<1> SUFFICES ASSUME RunType, Truth, [Next]_vars PROVE RunType' /\ Truth'
    OBVIOUS
<1>0. ASSUME UNCHANGED run PROVE RunType' /\ Truth'
  BY <1>0 DEF RunType, Truth, TruthOf
<1> USE AutomationsAssumption
<1>1. ASSUME NEW r \in Runs, StartRun(r) \/ Body(r) \/ Watch(r) PROVE RunType' /\ Truth'
  <2> USE DEF RunType, Run, Status, Event
  <2>0. TruthOf(r) /\ run[r] \in Run
    BY DEF Truth
  <2>1. ASSUME NEW x \in Run, run' = [run EXCEPT ![r] = x],
               /\ x.status # "running" => x.status = x.end
               /\ x.heard # None => Outcome(x.heard) = x.end
               /\ x.pc \in {"none", "running"} => x.status = "running" /\ x.heard = None
                                                   /\ x.said \notin {"success", "failed"}
               /\ x.said \in {"success", "failed"} => x.said = x.end
        PROVE  RunType' /\ Truth'
    BY <2>1 DEF Truth, TruthOf
  <2>2. CASE StartRun(r)
    <3> DEFINE x == [run[r] EXCEPT !.pc = "running", !.watch = "get"]
    <3>1. x \in Run /\ run' = [run EXCEPT ![r] = x]
      BY <2>0, <2>2 DEF StartRun
    <3> QED BY <2>0, <2>1, <2>2, <3>1 DEF StartRun, TruthOf
  <2>3. CASE SetStatus(r)
    <3>1. PICK e \in {"success", "failed"} :
            run' = [run EXCEPT ![r] = [run[r] EXCEPT !.pc = "set", !.end = e, !.status = e]]
      BY <2>0, <2>3 DEF SetStatus
    <3> DEFINE x == [run[r] EXCEPT !.pc = "set", !.end = e, !.status = e]
    <3>2. x \in Run
      BY <2>0
    <3> QED BY <2>0, <2>1, <2>3, <3>1, <3>2 DEF SetStatus, TruthOf
  <2>4. CASE Emit(r)
    <3>1. PICK e \in {[name |-> "Finished", status |-> run[r].end]} \cup
                     IF run[r].end = "failed" THEN {[name |-> "Error", status |-> None]} ELSE {} :
            run' = [run EXCEPT ![r] = [run[r] EXCEPT !.pc = "emitted", !.heard = Sent(r, e)]]
      BY <2>0, <2>4 DEF Emit
    <3> DEFINE x == [run[r] EXCEPT !.pc = "emitted", !.heard = Sent(r, e)]
    <3>2. e \in Event /\ Outcome(e) = run[r].end
      BY <2>0, <3>1 DEF Outcome
    <3>3. Sent(r, e) \in Event \cup {None} /\ (Sent(r, e) # None => Sent(r, e) = e)
      BY <3>2 DEF Sent
    <3>4. x \in Run
      BY <2>0, <3>3
    <3>5. /\ x.pc = "emitted" /\ x.end = run[r].end /\ x.status = run[r].status
          /\ x.said = run[r].said /\ x.heard = Sent(r, e)
      BY <2>0
    <3>6. run' = [run EXCEPT ![r] = x]
      BY <3>1
    <3> HIDE DEF x
    <3>7. x.heard # None => Outcome(x.heard) = x.end
      BY <3>2, <3>3, <3>5
    <3>8. /\ x.status # "running" => x.status = x.end
          /\ x.said \in {"success", "failed"} => x.said = x.end
      BY <2>0, <3>5 DEF TruthOf
    <3> QED BY <2>1, <3>4, <3>5, <3>6, <3>7, <3>8
  <2>5. CASE Drop(r)
    <3> DEFINE e == [name |-> "Error", status |-> None]
               x == [run[r] EXCEPT !.pc = "emitted", !.end = "failed", !.heard = Sent(r, e)]
    <3>1. run' = [run EXCEPT ![r] = x]
      BY <2>0, <2>5 DEF Drop
    <3>2. e \in Event /\ Outcome(e) = "failed"
      BY DEF Outcome
    <3>3. Sent(r, e) \in Event \cup {None} /\ (Sent(r, e) # None => Sent(r, e) = e)
      BY <3>2 DEF Sent
    <3>4. x \in Run
      BY <2>0, <3>3
    <3>5. /\ x.pc = "emitted" /\ x.end = "failed" /\ x.status = run[r].status
          /\ x.said = run[r].said /\ x.heard = Sent(r, e)
      BY <2>0
    <3>6. run[r].status = "running" /\ run[r].said \notin {"success", "failed"}
      BY <2>0, <2>5 DEF Drop, TruthOf
    <3> HIDE DEF x, e
    <3>7. x.heard # None => Outcome(x.heard) = x.end
      BY <3>2, <3>3, <3>5
    <3> QED BY <2>1, <3>1, <3>4, <3>5, <3>6, <3>7
  <2>6. CASE Remove(r)
    <3> DEFINE x == [run[r] EXCEPT !.pc = "gone"]
    <3>1. x \in Run /\ run' = [run EXCEPT ![r] = x]
      BY <2>0, <2>6 DEF Remove
    <3> QED BY <2>0, <2>1, <2>6, <3>1 DEF Remove, TruthOf
  <2>7. ASSUME NEW w \in {"check", "subscribe", "wait"},
               run' = [run EXCEPT ![r] = [run[r] EXCEPT !.watch = w]]
        PROVE  RunType' /\ Truth'
    <3> DEFINE x == [run[r] EXCEPT !.watch = w]
    <3>1. x \in Run
      BY <2>0
    <3>2. /\ x.pc = run[r].pc /\ x.end = run[r].end /\ x.status = run[r].status
          /\ x.said = run[r].said /\ x.heard = run[r].heard /\ run' = [run EXCEPT ![r] = x]
      BY <2>0, <2>7
    <3> HIDE DEF x
    <3> QED BY <2>0, <2>1, <3>1, <3>2 DEF TruthOf
  <2>8. ASSUME NEW s \in Status \cup {None}, NEW end \in {"done", "expired"}, Report(r, s, end), s # "running" => s = run[r].end,
               run[r].pc \in {"none", "running"} => s = "running"
        PROVE  RunType' /\ Truth'
    <3> DEFINE x == [run[r] EXCEPT !.watch = end, !.said = s]
    <3>1. x \in Run /\ run' = [run EXCEPT ![r] = x]
      BY <2>0, <2>8 DEF Report
    <3>2. /\ x.pc = run[r].pc /\ x.end = run[r].end /\ x.status = run[r].status
          /\ x.said = s /\ x.heard = run[r].heard
      BY <2>0
    <3> HIDE DEF x
    <3> QED BY <2>0, <2>1, <2>8, <3>1, <3>2 DEF TruthOf
  <2>9. CASE WatchGet(r)
    BY <2>0, <2>7, <2>8, <2>9 DEF WatchGet
  <2>10. CASE WatchCheck(r)
    BY <2>0, <2>7, <2>8, <2>10 DEF WatchCheck, TruthOf
  <2>11. CASE WatchSubscribe(r)
    BY <2>0, <2>7, <2>11 DEF WatchSubscribe
  <2>12. CASE WatchHear(r)
    <3>1. Outcome(run[r].heard) = run[r].end /\ run[r].pc \notin {"none", "running"}
      BY <2>0, <2>12 DEF WatchHear, TruthOf
    <3>2. Outcome(run[r].heard) \in Status \cup {None}
      BY <2>0, <2>12 DEF WatchHear, Outcome
    <3> DEFINE s == Outcome(run[r].heard)
    <3>3. Report(r, s, "done")
      BY <2>12 DEF WatchHear
    <3> HIDE DEF s
    <3> QED BY <2>8, <3>1, <3>2, <3>3 DEF s
  <2>13. CASE WatchLag(r)
    BY <2>0, <2>8, <2>13 DEF WatchLag, Sampled, TruthOf
  <2>14. CASE WatchTimeout(r)
    BY <2>0, <2>8, <2>14 DEF WatchTimeout, TruthOf
  <2> QED BY <1>1, <2>2, <2>3, <2>4, <2>5, <2>6, <2>9, <2>10, <2>11, <2>12, <2>13, <2>14
          DEF Body, Watch
<1>2. ASSUME run' = [r \in Runs |-> IF run[r].watch \in {"none", "done", "expired"} THEN run[r]
                                    ELSE [run[r] EXCEPT !.pc = "gone", !.watch = "lost"]]
      PROVE  RunType' /\ Truth'
  <2> SUFFICES ASSUME NEW r \in Runs PROVE run'[r] \in Run /\ TruthOf(r)'
      BY <1>2 DEF RunType, Truth
  <2>1. TruthOf(r) /\ run[r] \in Run
    BY DEF Truth, RunType
  <2>2. [run[r] EXCEPT !.pc = "gone", !.watch = "lost"] \in Run
    BY <2>1 DEF Run
  <2>3. CASE run[r].watch \in {"none", "done", "expired"}
    <3>1. run'[r] = run[r]
      BY <1>2, <2>3
    <3> QED BY <2>1, <3>1 DEF TruthOf
  <2>4. CASE run[r].watch \notin {"none", "done", "expired"}
    <3> DEFINE x == [run[r] EXCEPT !.pc = "gone", !.watch = "lost"]
    <3>1. run'[r] = x
      BY <1>2, <2>4
    <3>2. /\ x.pc = "gone" /\ x.end = run[r].end /\ x.status = run[r].status
          /\ x.said = run[r].said /\ x.heard = run[r].heard
      BY <2>1 DEF Run
    <3> HIDE DEF x
    <3> QED BY <2>1, <2>2, <3>1, <3>2 DEF TruthOf, x
  <2> QED BY <2>3, <2>4
<1>3. UNCHANGED vars => UNCHANGED run
  BY DEF vars
<1> QED BY <1>0, <1>1, <1>2, <1>3, OthersKeepRuns, InterruptRuns DEF Next

-----------------------------------------------------------------------------
(* Tasks for events.                                                       *)

\* A task as fire_event spawns it.
Fresh(event, ok, outer, hop) ==
    [NoFlow EXCEPT !.pc = "load", !.event = event, !.ok = ok, !.source = "workflow",
                   !.outer = outer, !.hop = hop]

\* An idle task is a flow.
LEMMA NoFlowType == NoFlow \in Flow /\ NoRows \in [Autos -> Nat \cup {None}]
BY DEF NoFlow, Flow, NoRows

\* A task that fire_event spawns is a flow, one hop from what fired it.
LEMMA FreshType ==
    ASSUME NEW event \in EventName, NEW ok \in BOOLEAN \cup {None}, NEW outer \in BOOLEAN,
           NEW hop \in HopCount
    PROVE  /\ Fresh(event, ok, outer, hop) \in Flow
           /\ Fresh(event, ok, outer, hop).pc = "load"
           /\ Fresh(event, ok, outer, hop).source = "workflow"
           /\ Fresh(event, ok, outer, hop).hop = hop
           /\ Fresh(event, ok, outer, hop).event = event
           /\ Fresh(event, ok, outer, hop).rows = NoRows
BY NoFlowType DEF Fresh, NoFlow, Flow, EventName, HopCount

\* fire_event changes nothing, or an idle task.
LEMMA SpawnOne ==
    ASSUME NEW fs \in [Flows -> Flow], NEW event \in EventName, NEW ok \in BOOLEAN \cup {None},
           NEW outer \in BOOLEAN, NEW hop \in HopCount,
           Listeners(event) # {} => \E g \in Flows : fs[g].pc = "idle"
    PROVE  /\ Spawn(fs, event, ok, outer, hop) \in [Flows -> Flow]
           /\ \/ Spawn(fs, event, ok, outer, hop) = fs
              \/ /\ Listeners(event) # {}
                 /\ \E g \in Flows : /\ fs[g].pc = "idle"
                                     /\ Spawn(fs, event, ok, outer, hop)
                                          = [fs EXCEPT ![g] = Fresh(event, ok, outer, hop)]
<1>1. CASE Listeners(event) = {}
  BY <1>1 DEF Spawn
<1>2. CASE Listeners(event) # {}
  <2> DEFINE g == CHOOSE g \in Flows : fs[g].pc = "idle"
             x == Fresh(event, ok, outer, hop)
  <2>1. g \in Flows /\ fs[g].pc = "idle"
    BY <1>2
  <2>2. Spawn(fs, event, ok, outer, hop) = [fs EXCEPT ![g] = x]
    BY <1>2 DEF Spawn, Fresh
  <2>3. x \in Flow
    BY FreshType
  <2> HIDE DEF g, x
  <2>4. [fs EXCEPT ![g] = x] \in [Flows -> Flow]
    BY <2>1, <2>3
  <2> QED BY <1>2, <2>1, <2>2, <2>4 DEF x
<1> QED BY <1>1, <1>2

\* The tasks at rest and the watchers can be counted.
LEMMA Countable == Cardinality(Free) \in Nat /\ Cardinality(Owed) \in Nat
<1>1. IsFiniteSet(Free) /\ IsFiniteSet(Owed)
  BY AutomationsAssumption, FS_Subset DEF Free, Owed
<1> QED BY <1>1, FS_CardinalityType

\* Room for an event that is listened to is an idle task.
LEMMA RoomOne ==
    ASSUME NEW e, NEW n \in Nat, RoomFor({e}, n), Listeners(e) # {}
    PROVE  \E g \in Flows : flow[g].pc = "idle"
<1>1. {x \in {e} : Listeners(x) # {}} = {e}
  OBVIOUS
<1>2. Cardinality({e}) = 1 /\ Cardinality({}) = 0
  BY FS_Singleton, FS_EmptySet
<1>3. Free # {}
  BY <1>1, <1>2 DEF RoomFor
<1> QED BY <1>3 DEF Free

\* Room for two is two idle tasks.
LEMMA RoomTwo ==
    ASSUME NEW d, NEW e, d # e, NEW n \in Nat, RoomFor({d, e}, n)
    PROVE  /\ Listeners(d) # {} \/ Listeners(e) # {} => \E g \in Flows : flow[g].pc = "idle"
           /\ Listeners(d) # {} /\ Listeners(e) # {} =>
                 \E g, h \in Flows : g # h /\ flow[g].pc = "idle" /\ flow[h].pc = "idle"
<1> DEFINE L == {x \in {d, e} : Listeners(x) # {}}
<1>0. Cardinality(L) + n <= Cardinality(Free) /\ Cardinality({}) = 0 /\ \A x : Cardinality({x}) = 1
  BY FS_Singleton, FS_EmptySet DEF RoomFor
<1>a. Cardinality({d, e}) = 2
  <2>1. IsFiniteSet({d}) /\ Cardinality({d}) = 1 /\ e \notin {d} /\ {d, e} = {d} \cup {e}
    BY FS_Singleton
  <2> QED BY <2>1, FS_AddElement
<1>1. ASSUME Listeners(d) # {} \/ Listeners(e) # {} PROVE Free # {}
  <2>1. L = {d} \/ L = {e} \/ L = {d, e}
    BY <1>1
  <2> QED BY <1>0, <1>a, <2>1
<1>2. ASSUME Listeners(d) # {}, Listeners(e) # {}
      PROVE  \E g, h \in Free : g # h
  <2>1. L = {d, e}
    BY <1>2
  <2>2. 2 + n <= Cardinality(Free)
    BY <1>0, <1>a, <2>1
  <2> HIDE DEF L
  <2>3. Free # {} /\ \A x : Free # {x}
    <3>1. Cardinality({}) = 0 /\ \A x : Cardinality({x}) = 1
      BY <1>0
    <3>2. Free # {}
      BY <2>2, <3>1
    <3>3. ASSUME NEW x, Free = {x} PROVE FALSE
      <4>1. Cardinality(Free) = 1
        BY <3>1, <3>3
      <4> QED BY <2>2, <4>1
    <3> QED BY <3>2, <3>3
  <2>4. PICK g \in Free : TRUE
    BY <2>3
  <2>5. PICK h \in Free : h # g
    BY <2>3, <2>4
  <2> QED BY <2>5
<1> QED BY <1>1, <1>2 DEF Free

-----------------------------------------------------------------------------
(* Flows.                                                                  *)

\* What a task for an event may become: of the events of runs, only those one
\* hop from a trigger are fired.
Spawned(f) ==
    /\ flow[f].pc = "idle"
    /\ flow'[f].pc = "load" /\ flow'[f].source = "workflow"
    /\ flow'[f].event \in RunEvent => flow'[f].hop <= 1
    /\ flow'[f].rows = NoRows

\* A task that has not read its rows yet.
IsFresh(x, hop) ==
    x.pc = "load" /\ x.source = "workflow" /\ x.hop = hop /\ x.rows = NoRows

\* The steps that fire one event.
LEMMA SpawnStep ==
    ASSUME FlowType, NEW event \in EventName, NEW ok \in BOOLEAN \cup {None}, NEW outer \in BOOLEAN,
           NEW n \in Nat, RoomFor({event}, n), flow' = Spawn(flow, event, ok, outer, 1)
    PROVE  FlowType' /\ \A f \in Flows : flow'[f] = flow[f] \/ Spawned(f)
<1>1. Listeners(event) # {} => \E g \in Flows : flow[g].pc = "idle"
  BY RoomOne
<1>0. 1 \in HopCount
  BY DEF HopCount
<1>2. /\ flow' \in [Flows -> Flow]
      /\ \/ flow' = flow
         \/ \E g \in Flows : flow[g].pc = "idle" /\ flow' = [flow EXCEPT ![g] = Fresh(event, ok, outer, 1)]
  BY <1>0, <1>1, SpawnOne DEF FlowType
<1> DEFINE x == Fresh(event, ok, outer, 1)
<1>3. x.pc = "load" /\ x.source = "workflow" /\ x.hop = 1 /\ x.rows = NoRows
  BY <1>0, FreshType
<1> HIDE DEF x
<1> QED BY <1>2, <1>3 DEF FlowType, Spawned, x

\* A run and its watcher fire at most one event and touch no count.
LEMMA OneEvent ==
    ASSUME FlowType, NEW r, StartRun(r) \/ Body(r) \/ Watch(r)
    PROVE  /\ FlowType' /\ \A f \in Flows : flow'[f] = flow[f] \/ Spawned(f)
           /\ UNCHANGED <<fired, execs, memory, extra, faults>>
           /\ triggers' = triggers \/ Trigger
<1>0. ASSUME UNCHANGED flow PROVE FlowType' /\ \A f \in Flows : flow'[f] = flow[f] \/ Spawned(f)
  BY <1>0 DEF FlowType
<1>1. ASSUME NEW s, NEW end, Report(r, s, end)
      PROVE  FlowType' /\ \A f \in Flows : flow'[f] = flow[f] \/ Spawned(f)
  <2>1. (s = "success") \in BOOLEAN \cup {None} /\ "workflow_completed" \in EventName /\ 0 \in Nat
    BY DEF EventName, RunEvent
  <2> QED BY <1>1, <2>1, SpawnStep DEF Report
<1>2. CASE StartRun(r)
  <2>1. /\ RoomFor({"workflow_started"}, Cardinality(Owed) + 1)
        /\ flow' = Spawn(flow, "workflow_started", None, FALSE, 1)
    BY <1>2 DEF StartRun
  <2>2. Cardinality(Owed) + 1 \in Nat
    BY Countable
  <2> QED BY <1>2, <2>1, <2>2, SpawnStep DEF StartRun, EventName, RunEvent
<1>4. CASE Body(r)
  BY <1>0, <1>4 DEF Body, SetStatus, Emit, Drop, Remove
<1>5. CASE Watch(r)
  BY <1>0, <1>1, <1>5 DEF Watch, WatchGet, WatchCheck, WatchSubscribe, WatchHear, WatchLag,
     WatchTimeout
<1> QED BY <1>2, <1>4, <1>5

\* Flow f goes on with the automation it is at.
GoesOn(x, f) ==
    /\ x \in Flow /\ x.pc \in {"act", "complete"} /\ x.auto = flow[f].auto
    /\ x.rows = flow[f].rows /\ x.source = flow[f].source /\ x.hop = flow[f].hop
    /\ x.event = flow[f].event

\* The walk of the block tree goes on or ends.
LEMMA WalkedType ==
    ASSUME FlowType, NEW f \in Flows, NEW ok \in BOOLEAN
    PROVE  GoesOn(Walked(f, ok), f)
<1>1. flow[f] \in Flow
  BY DEF FlowType
<1> DEFINE c == Config[flow[f].auto]
           end == \/ flow[f].block = Len(c.chain)
                  \/ ~ok /\ c.stop /\ c.chain[flow[f].block] = "workflow"
           bad == flow[f].failed \/ ~ok
           n == IF end THEN flow[f].block ELSE flow[f].block + 1
           next == IF end THEN "complete" ELSE "act"
<1>2. Walked(f, ok) = [flow[f] EXCEPT !.failed = bad, !.attempt = 0, !.block = n, !.pc = next]
  BY DEF Walked
<1>3. bad \in BOOLEAN /\ next \in {"complete", "act"}
  OBVIOUS
<1>4. flow[f].block \in Nat
  BY <1>1 DEF Flow
<1>5. n \in Nat
  BY <1>4
<1> HIDE DEF bad, next, n
<1>6. [flow[f] EXCEPT !.failed = bad, !.attempt = 0, !.block = n, !.pc = next] \in Flow
  BY <1>1, <1>3, <1>5 DEF Flow
<1> QED BY <1>1, <1>2, <1>3, <1>6 DEF GoesOn, Flow

\* After an automation the flow goes to the next one it loaded, or ends.
LEMMA AfterType ==
    ASSUME FlowType, NEW f \in Flows
    PROVE  /\ After(f) \in Flow /\ After(f).pc \in {"idle", "next"}
           /\ \/ After(f).rows = NoRows /\ After(f).hop = 0
              \/ /\ After(f).rows = flow[f].rows /\ After(f).hop = flow[f].hop
                 /\ After(f).source = flow[f].source /\ After(f).event = flow[f].event
<1>1. flow[f] \in Flow
  BY DEF FlowType
<1>2. CASE Pending(f) = {}
  <2>1. After(f) = NoFlow
    BY <1>2 DEF After
  <2>2. NoFlow.pc = "idle" /\ NoFlow.rows = NoRows /\ NoFlow.hop = 0
    BY DEF NoFlow
  <2> QED BY <2>1, <2>2, NoFlowType
<1>3. CASE Pending(f) # {}
  <2>1. After(f) = [flow[f] EXCEPT !.pc = "next", !.auto = None, !.block = 0, !.attempt = 0,
                                   !.failed = FALSE]
    BY <1>3 DEF After
  <2>2. After(f) \in Flow
    <3> DEFINE y == [flow[f] EXCEPT !.pc = "next", !.auto = None, !.block = 0]
    <3>1. y \in Flow
      BY <1>1 DEF Flow
    <3> DEFINE no == FALSE
    <3>2. After(f) = [y EXCEPT !.attempt = 0, !.failed = no] /\ no \in BOOLEAN
      BY <1>1, <2>1 DEF Flow
    <3> HIDE DEF y, no
    <3>3. [y EXCEPT !.attempt = 0, !.failed = no] \in Flow
      BY <3>1, <3>2 DEF Flow
    <3> QED BY <3>2, <3>3
  <2>3. /\ After(f).pc = "next" /\ After(f).rows = flow[f].rows
        /\ After(f).hop = flow[f].hop /\ After(f).source = flow[f].source
        /\ After(f).event = flow[f].event
    BY <1>1, <2>1 DEF Flow
  <2> QED BY <2>2, <2>3
<1> QED BY <1>2, <1>3

\* Two events in a row take two idle tasks.
LEMMA SpawnTwo ==
    ASSUME NEW fs \in [Flows -> Flow], NEW d \in EventName, NEW e \in EventName,
           NEW o \in BOOLEAN \cup {None}, NEW ok \in BOOLEAN \cup {None}, NEW outer \in BOOLEAN,
           NEW hop \in HopCount,
           Listeners(d) # {} \/ Listeners(e) # {} => \E g \in Flows : fs[g].pc = "idle",
           Listeners(d) # {} /\ Listeners(e) # {} =>
              \E g, h \in Flows : g # h /\ fs[g].pc = "idle" /\ fs[h].pc = "idle"
    PROVE  /\ Spawn(Spawn(fs, d, o, outer, hop), e, ok, outer, hop) \in [Flows -> Flow]
           /\ \A h \in Flows :
                \/ Spawn(Spawn(fs, d, o, outer, hop), e, ok, outer, hop)[h] = fs[h]
                \/ /\ fs[h].pc = "idle"
                   /\ IsFresh(Spawn(Spawn(fs, d, o, outer, hop), e, ok, outer, hop)[h], hop)
<1> DEFINE mid == Spawn(fs, d, o, outer, hop)
           end == Spawn(mid, e, ok, outer, hop)
           p == Fresh(d, o, outer, hop)
           q == Fresh(e, ok, outer, hop)
<1>1. IsFresh(p, hop) /\ IsFresh(q, hop)
  BY FreshType DEF IsFresh
<1>a. Listeners(d) # {} => \E g \in Flows : fs[g].pc = "idle"
  OBVIOUS
<1>2. /\ mid \in [Flows -> Flow]
      /\ \/ mid = fs
         \/ /\ Listeners(d) # {}
            /\ \E g \in Flows : fs[g].pc = "idle" /\ mid = [fs EXCEPT ![g] = p]
  BY <1>a, SpawnOne
<1> HIDE DEF mid
<1>3. Listeners(e) # {} => \E g \in Flows : mid[g].pc = "idle"
  BY <1>2
<1>4. /\ end \in [Flows -> Flow]
      /\ \/ end = mid
         \/ \E g \in Flows : mid[g].pc = "idle" /\ end = [mid EXCEPT ![g] = q]
  BY <1>2, <1>3, SpawnOne
<1> HIDE DEF end, p, q
<1>5. ASSUME NEW h \in Flows PROVE mid[h] = fs[h] \/ (fs[h].pc = "idle" /\ mid[h] = p)
  BY <1>2
<1>6. ASSUME NEW h \in Flows PROVE end[h] = mid[h] \/ (mid[h].pc = "idle" /\ end[h] = q)
  BY <1>2, <1>4
<1>7. ASSUME NEW h \in Flows PROVE end[h] = fs[h] \/ (fs[h].pc = "idle" /\ IsFresh(end[h], hop))
  BY <1>1, <1>5, <1>6 DEF IsFresh
<1> QED BY <1>4, <1>7 DEF end, mid

\* A workflow action moves its own flow on, and fires the two events of its run
\* only if no event started that flow.
LEMMA WorkflowStep ==
    ASSUME FlowType, NEW f \in Flows, RunWorkflow(f)
    PROVE  /\ FlowType' /\ GoesOn(flow'[f], f)
           /\ \A h \in Flows \ {f} :
                \/ flow'[h] = flow[h]
                \/ Fires(f) /\ flow[h].pc = "idle" /\ IsFresh(flow'[h], Further(flow[f].hop))
<1>1. flow[f] \in Flow /\ flow[f].pc = "act" /\ Further(flow[f].hop) \in HopCount
  BY DEF FlowType, RunWorkflow, Flow, Further, HopCount
<1> DEFINE c == Config[flow[f].auto]
           hop == Further(flow[f].hop)
           nextOf(res, ok) == IF res # "ok" /\ flow[f].attempt < c.retry
                              THEN [flow[f] EXCEPT !.attempt = @ + 1] ELSE Walked(f, ok)
           afterOf(res, ok) == [flow EXCEPT ![f] = nextOf(res, ok)]
<1>2. \E res \in {"ok", "bad", "refused"} : \E ok \in BOOLEAN :
        IF res = "refused" \/ ~Fires(f) THEN flow' = afterOf(res, ok)
        ELSE /\ Room({"workflow_started", "workflow_completed"})
             /\ flow' = Spawn(Spawn(afterOf(res, ok), "workflow_started", None, FALSE, hop),
                              "workflow_completed", ok, FALSE, hop)
  <2>1. PICK res \in {"ok", "bad", "refused"} :
          IF res = "refused" \/ ~Fires(f) THEN flow' = afterOf(res, res = "ok")
          ELSE /\ Room({"workflow_started", "workflow_completed"})
               /\ flow' = Spawn(Spawn(afterOf(res, res = "ok"), "workflow_started", None, FALSE, hop),
                                "workflow_completed", res = "ok", FALSE, hop)
    BY DEF RunWorkflow
  <2>2. (res = "ok") \in BOOLEAN
    OBVIOUS
  <2> HIDE DEF afterOf, nextOf, hop, c
  <2> QED BY <2>1, <2>2, Zenon
<1>a. PICK res \in {"ok", "bad", "refused"}, ok \in BOOLEAN :
        IF res = "refused" \/ ~Fires(f) THEN flow' = afterOf(res, ok)
        ELSE /\ Room({"workflow_started", "workflow_completed"})
             /\ flow' = Spawn(Spawn(afterOf(res, ok), "workflow_started", None, FALSE, hop),
                              "workflow_completed", ok, FALSE, hop)
  BY <1>2, Zenon
<1> DEFINE x == nextOf(res, ok)
           after == afterOf(res, ok)
<1>3. GoesOn(x, f)
  <2>1. GoesOn(Walked(f, ok), f)
    BY WalkedType
  <2>2. GoesOn([flow[f] EXCEPT !.attempt = @ + 1], f)
    BY <1>1 DEF GoesOn, Flow
  <2> QED BY <2>1, <2>2
<1>4. after = [flow EXCEPT ![f] = x]
  OBVIOUS
<1> HIDE DEF x, after, nextOf, afterOf
<1>5. /\ after \in [Flows -> Flow] /\ after[f] = x
      /\ \A h \in Flows : after[h].pc = "idle" <=> flow[h].pc = "idle"
      /\ \A h \in Flows \ {f} : after[h] = flow[h]
  BY <1>1, <1>3, <1>4 DEF FlowType, GoesOn
<1>6. CASE res = "refused" \/ ~Fires(f)
  BY <1>a, <1>3, <1>5, <1>6 DEF FlowType, after
<1>7. CASE ~(res = "refused" \/ ~Fires(f))
  <2> DEFINE d == "workflow_started"
             e == "workflow_completed"
             no == FALSE
             nil == None
  <2>1. Room({d, e}) /\ flow' = Spawn(Spawn(after, d, nil, no, hop), e, ok, no, hop)
    BY <1>a, <1>7 DEF after
  <2>2. /\ d \in EventName /\ e \in EventName /\ d # e /\ no \in BOOLEAN
        /\ nil \in BOOLEAN \cup {None} /\ ok \in BOOLEAN \cup {None} /\ hop \in HopCount
        /\ Cardinality(Owed) \in Nat
    BY <1>1, Countable DEF EventName, RunEvent
  <2> HIDE DEF hop, d, e, no, nil
  <2>3. /\ Listeners(d) # {} \/ Listeners(e) # {} => \E g \in Flows : after[g].pc = "idle"
        /\ Listeners(d) # {} /\ Listeners(e) # {} =>
             \E g, h \in Flows : g # h /\ after[g].pc = "idle" /\ after[h].pc = "idle"
    BY <1>5, <2>1, <2>2, RoomTwo DEF Room
  <2> DEFINE new == Spawn(Spawn(after, d, nil, no, hop), e, ok, no, hop)
  <2>a. after \in [Flows -> Flow]
    BY <1>5
  <2>b. /\ new \in [Flows -> Flow]
        /\ \A h \in Flows : new[h] = after[h] \/ (after[h].pc = "idle" /\ IsFresh(new[h], hop))
    BY <2>a, <2>2, <2>3, SpawnTwo
  <2>c. flow' = new
    BY <2>1
  <2> HIDE DEF new
  <2>4. /\ flow' \in [Flows -> Flow]
        /\ \A h \in Flows : flow'[h] = after[h] \/ (after[h].pc = "idle" /\ IsFresh(flow'[h], hop))
    BY <2>b, <2>c
  <2>5. flow'[f] = x
    BY <1>3, <1>5, <2>4 DEF GoesOn
  <2>6. ASSUME NEW h \in Flows \ {f} PROVE flow'[h] = flow[h] \/ (flow[h].pc = "idle" /\ IsFresh(flow'[h], hop))
    BY <1>5, <2>4
  <2> QED BY <1>3, <1>7, <2>4, <2>5, <2>6 DEF FlowType, hop
<1> QED BY <1>6, <1>7

-----------------------------------------------------------------------------
(* What flows may still execute.                                           *)

\* The flows but f go on as they were, or are spawned for an event.
Aside(f) == \A g \in Flows \ {f} : flow'[g] = flow[g] \/ Spawned(g)

\* The shape and the hops of the flows rest on those of the flow that moves.
LEMMA OthersKeepShape ==
    ASSUME Shape, Hops, NEW f, Aside(f), f \in Flows => ShapeOf(f)' /\ HopOf(f)'
    PROVE  Shape' /\ Hops'
<1> SUFFICES ASSUME NEW g \in Flows PROVE ShapeOf(g)' /\ HopOf(g)'
    BY DEF Shape, Hops
<1>1. CASE g = f
  BY <1>1
<1>2. CASE g # f /\ flow'[g] = flow[g]
  BY <1>2 DEF Shape, Hops, ShapeOf, HopOf
<1>3. CASE g # f /\ Spawned(g)
  BY <1>3 DEF Spawned, ShapeOf, HopOf
<1> QED BY <1>1, <1>2, <1>3 DEF Aside

\* The counts of sets of flows, and of one flow more or less.
LEMMA FlowCounts ==
    ASSUME NEW S \in SUBSET Flows, NEW T \in SUBSET Flows
    PROVE  /\ Cardinality(S) \in Nat /\ Cardinality(T) \in Nat
           /\ S \subseteq T => Cardinality(S) <= Cardinality(T)
           /\ \A f \in Flows : S \subseteq T \cup {f} => Cardinality(S) <= Cardinality(T) + 1
           /\ \A f \in T : S \subseteq T \ {f} => Cardinality(S) + 1 <= Cardinality(T)
<1>1. IsFiniteSet(S) /\ IsFiniteSet(T)
  BY AutomationsAssumption, FS_Subset
<1>2. Cardinality(S) \in Nat /\ Cardinality(T) \in Nat
  BY <1>1, FS_CardinalityType
<1>3. ASSUME S \subseteq T PROVE Cardinality(S) <= Cardinality(T)
  BY <1>1, <1>3, FS_Subset
<1>4. ASSUME NEW f \in Flows, S \subseteq T \cup {f} PROVE Cardinality(S) <= Cardinality(T) + 1
  <2>1. IsFiniteSet(T \cup {f}) /\ Cardinality(T \cup {f}) <= Cardinality(T) + 1
    <3>1. /\ IsFiniteSet(T \cup {f})
          /\ Cardinality(T \cup {f}) = IF f \in T THEN Cardinality(T) ELSE Cardinality(T) + 1
      BY <1>1, FS_AddElement
    <3> QED BY <1>2, <3>1
  <2>2. Cardinality(S) <= Cardinality(T \cup {f}) /\ Cardinality(T \cup {f}) \in Nat
    BY <1>4, <2>1, FS_Subset, FS_CardinalityType
  <2> QED BY <1>2, <2>1, <2>2
<1>5. ASSUME NEW f \in T, S \subseteq T \ {f} PROVE Cardinality(S) + 1 <= Cardinality(T)
  <2>1. IsFiniteSet(T \ {f}) /\ Cardinality(T \ {f}) = Cardinality(T) - 1
    BY <1>1, <1>5, FS_RemoveElement
  <2>2. Cardinality(S) <= Cardinality(T \ {f})
    BY <1>5, <2>1, FS_Subset
  <2> QED BY <1>2, <2>1, <2>2
<1> QED BY <1>2, <1>3, <1>4, <1>5

\* Flow f does nothing that matters to the limit of automation a.
Quiet(f, a) ==
    /\ Armed(f, a)' => Armed(f, a)
    /\ AtMark(f, a)' <=> AtMark(f, a)

\* Who is about to stamp, now and in the next state.
LEMMA UnstampedIs ==
    ASSUME NEW a
    PROVE  /\ Unstamped(a) = {f \in Flows : AtMark(f, a)}
           /\ Unstamped(a)' = {f \in Flows : AtMark(f, a)'}
           /\ ArmedFlows(a) = {f \in Flows : Armed(f, a)}
           /\ ArmedFlows(a)' = {f \in Flows : Armed(f, a)'}
BY DEF Unstamped, AtMark, ArmedFlows, Armed

\* The numbers of an automation.
LEMMA Numbers ==
    ASSUME CountType, NEW a \in Autos
    PROVE  /\ Config[a].max \in Nat /\ execs[a] \in Nat /\ fired[a] \in Nat /\ extra[a] \in Nat
           /\ Cardinality(Unstamped(a)) \in Nat /\ Cardinality(ArmedFlows(a)) \in Nat
           /\ Cardinality(Unstamped(a)') \in Nat /\ Cardinality(ArmedFlows(a)') \in Nat
<1>1. Config[a].max \in Nat /\ execs[a] \in Nat /\ fired[a] \in Nat /\ extra[a] \in Nat
  BY AutomationsAssumption DEF CountType, Automation
<1>2. /\ Unstamped(a) \in SUBSET Flows /\ ArmedFlows(a) \in SUBSET Flows
      /\ Unstamped(a)' \in SUBSET Flows /\ ArmedFlows(a)' \in SUBSET Flows
  BY UnstampedIs
<1> QED BY <1>1, <1>2, FlowCounts

\* Quiet steps keep the limit.
LEMMA QuietKeeps ==
    ASSUME CountType, NEW a \in Autos, FireOf(a), UNCHANGED <<fired[a], execs[a], extra[a]>>,
           Config[a].max > 0 => \A f \in Flows : Quiet(f, a)
    PROVE  FireOf(a)'
<1> SUFFICES ASSUME Config[a].max > 0 PROVE FireOf(a)'
    BY DEF FireOf
<1> DEFINE u == Unstamped(a)
           v == Unstamped(a)'
           s == ArmedFlows(a)
           t == ArmedFlows(a)'
<1>1. /\ u \in SUBSET Flows /\ v = u /\ s \in SUBSET Flows /\ t \in SUBSET Flows
      /\ t \subseteq s
  BY UnstampedIs DEF Quiet
<1>2. Cardinality(v) = Cardinality(u) /\ Cardinality(t) <= Cardinality(s)
  BY <1>1, FlowCounts
<1>3. /\ execs[a] <= fired[a] + extra[a] + Cardinality(u)
      /\ execs[a] + Cardinality(s) <= Config[a].max + extra[a]
  BY DEF FireOf
<1>4. /\ execs'[a] <= fired'[a] + extra'[a] + Cardinality(v)
      /\ execs'[a] + Cardinality(t) <= Config[a].max + extra'[a]
  BY <1>2, <1>3, Numbers
<1> QED BY <1>4 DEF FireOf

\* What every step keeps of the flows and the counts.
FlowInv == FlowType /\ Shape /\ Hops /\ CountType /\ Fire

\* Steps that leave the counts alone and are quiet keep the limits.
LEMMA AllQuiet ==
    ASSUME Fire, CountType, UNCHANGED <<fired, execs, extra>>,
           \A a \in Autos : Config[a].max > 0 => \A f \in Flows : Quiet(f, a)
    PROVE  Fire'
BY QuietKeeps DEF Fire

\* A flow that stays, or is spawned for an event, is quiet.
LEMMA AsideQuiet ==
    ASSUME NEW f, NEW a \in Autos, flow'[f] = flow[f] \/ Spawned(f)
    PROVE  Quiet(f, a)
BY DEF Quiet, Spawned, Armed, AtMark, NoRows

\* So are one that goes on with its automation and one that is done with it.
LEMMA GoesOnQuiet ==
    ASSUME NEW f, NEW a \in Autos, flow[f].pc # "mark", flow'[f].pc \notin {"insert", "mark"},
           \/ flow'[f].rows = NoRows
           \/ flow'[f].rows = flow[f].rows /\ flow'[f].source = flow[f].source
    PROVE  Quiet(f, a)
BY DEF Quiet, Armed, AtMark, NoRows

\* A flow that reads the rows of some automations is counted for those that
\* another flow has in hand, and finds those that none has up to date.
LEMMA ReadKeeps ==
    ASSUME Fire, CountType, NEW f \in Flows, NEW as \in SUBSET Autos,
           flow[f].pc \notin {"insert", "mark"}, flow'[f].pc = "next",
           flow'[f].rows = [a \in Autos |-> IF a \in as THEN fired[a] ELSE None],
           \A g \in Flows \ {f} : flow'[g] = flow[g],
           Read(f, as, flow'[f].source), UNCHANGED <<fired, execs>>
    PROVE  Fire' /\ extra' \in [Autos -> Nat]
<1>0. extra' \in [Autos -> Nat]
  <2> DEFINE more(a) == flow'[f].source # "manual" /\ a \in as \cap Taken(f)
  <2>1. extra' = [a \in Autos |-> IF more(a) THEN extra[a] + 1 ELSE extra[a]]
    BY DEF Read
  <2> HIDE DEF more
  <2> QED BY <2>1 DEF CountType
<1> SUFFICES ASSUME NEW a \in Autos, Config[a].max > 0 PROVE FireOf(a)'
    BY <1>0 DEF Fire, FireOf
<1> DEFINE u == Unstamped(a)
           v == Unstamped(a)'
           s == ArmedFlows(a)
           t == ArmedFlows(a)'
           mine == flow'[f].source # "manual"
<1>1. \A g \in Flows \ {f} : Quiet(g, a)
  BY AsideQuiet
<1>2. ~AtMark(f, a) /\ ~AtMark(f, a)'
  BY DEF AtMark
<1>3. /\ u \in SUBSET Flows /\ v = u /\ s \in SUBSET Flows /\ t \in SUBSET Flows
      /\ t \subseteq s \cup {f}
  BY <1>1, <1>2, UnstampedIs DEF Quiet
<1>4. /\ execs[a] <= fired[a] + extra[a] + Cardinality(u)
      /\ execs[a] + Cardinality(s) <= Config[a].max + extra[a]
  BY DEF Fire, FireOf
<1>5. CASE a \notin as \/ ~mine
  <2>1. ~Armed(f, a)'
    BY <1>5 DEF Armed
  <2>2. extra'[a] = extra[a]
    BY <1>5 DEF Read
  <2> QED BY <1>1, <1>2, <2>1, <2>2, QuietKeeps DEF Quiet, Fire
<1>6. CASE a \in as /\ mine /\ a \in Taken(f)
  <2>1. extra'[a] = extra[a] + 1
    BY <1>6 DEF Read
  <2>2. Cardinality(v) = Cardinality(u) /\ Cardinality(t) <= Cardinality(s) + 1
    BY <1>3, FlowCounts
  <2>3. /\ execs'[a] <= fired'[a] + extra'[a] + Cardinality(v)
        /\ execs'[a] + Cardinality(t) <= Config[a].max + extra'[a]
    BY <1>4, <2>1, <2>2, Numbers
  <2> QED BY <2>3 DEF FireOf
<1>7. CASE a \in as /\ mine /\ a \notin Taken(f)
  <2>1. extra'[a] = extra[a] /\ flow'[f].rows[a] = fired[a]
    BY <1>7 DEF Read
  <2>2. ASSUME NEW g \in Flows \ {f} PROVE ~Armed(g, a) /\ ~AtMark(g, a)
    <3>1. flow[g].source = "manual" \/ a \notin Holding(g)
      BY <1>7 DEF Taken
    <3> QED BY <3>1 DEF Holding, Pending, Armed, AtMark
  <2>3. u = {} /\ v = {}
    BY <1>2, <1>3, <2>2, UnstampedIs
  <2>4. t \subseteq {} \cup {f}
    BY <1>1, <2>2, UnstampedIs DEF Quiet
  <2>5. Cardinality({}) = 0 /\ {} \in SUBSET Flows
    BY FS_EmptySet
  <2>6. Cardinality(u) = 0 /\ Cardinality(v) = 0
    BY <2>3, <2>5
  <2>7. CASE fired[a] < Config[a].max
    <3>1. Cardinality(t) <= 1
      <4>1. Cardinality(t) <= Cardinality({}) + 1
        BY <1>3, <2>4, <2>5, FlowCounts
      <4> QED BY <2>5, <4>1
    <3>2. /\ execs'[a] <= fired'[a] + extra'[a] + Cardinality(v)
          /\ execs'[a] + Cardinality(t) <= Config[a].max + extra'[a]
      BY <1>4, <2>1, <2>6, <2>7, <3>1, Numbers
    <3> QED BY <3>2 DEF FireOf
  <2>8. CASE ~(fired[a] < Config[a].max)
    <3>1. ~Armed(f, a)'
      BY <2>1, <2>8 DEF Armed
    <3> QED BY <1>1, <1>2, <2>1, <3>1, QuietKeeps DEF Quiet, Fire
  <2> QED BY <2>7, <2>8
<1> QED BY <1>5, <1>6, <1>7

\* The counts of a step that leaves most of them alone.
LEMMA CountsKept ==
    ASSUME CountType, UNCHANGED <<fired, execs>>, extra' \in [Autos -> Nat],
           cooling' = cooling, session' \in BOOLEAN, triggers' = triggers \/ Trigger,
           faults' = faults
    PROVE  CountType'
BY AutomationsAssumption DEF CountType, Trigger

\* A run or its watcher.
LEMMA EventStep ==
    ASSUME FlowInv, NEW r, StartRun(r) \/ Body(r) \/ Watch(r)
    PROVE  FlowInv'
<1> USE DEF FlowInv
<1>1. /\ FlowType' /\ \A f \in Flows : flow'[f] = flow[f] \/ Spawned(f)
      /\ UNCHANGED <<fired, execs, memory, extra, faults>>
      /\ triggers' = triggers \/ Trigger
  BY OneEvent
<1>2. Shape' /\ Hops'
  <2>1. PICK f : f \notin Flows
    BY NoSetContainsEverything
  <2> QED BY <1>1, <2>1, OthersKeepShape DEF Aside
<1>3. CountType'
  BY <1>1, CountsKept DEF CountType, memory
<1>4. Fire'
  BY <1>1, AsideQuiet, AllQuiet
<1> QED BY <1>1, <1>2, <1>3, <1>4

\* A handler finds an idle task.
LEMMA RoomAny ==
    ASSUME Cardinality(Owed) < Cardinality(Free)
    PROVE  /\ (CHOOSE g \in Free : TRUE) \in Flows
           /\ flow[CHOOSE g \in Free : TRUE].pc = "idle"
<1>1. Free # {}
  BY Countable, FS_EmptySet
<1> QED BY <1>1 DEF Free

\* A handler that read one row.
LEMMA HandleStep ==
    ASSUME FlowInv, NEW a \in Autos, NEW event \in {"manual", "webhook_received"},
           NEW source \in {"manual", "webhook"}, Handle(a, event, source)
    PROVE  FlowInv'
<1> USE DEF FlowInv
<1> DEFINE f == CHOOSE g \in Free : TRUE
           rows == [b \in Autos |-> IF b \in {a} THEN fired[b] ELSE None]
           yes == TRUE
           x == [NoFlow EXCEPT !.pc = "next", !.event = event, !.source = source, !.outer = yes,
                               !.rows = rows]
<1>1. f \in Flows /\ flow[f].pc = "idle"
  BY RoomAny DEF Handle
<1>2. flow' = [flow EXCEPT ![f] = [NoFlow EXCEPT !.pc = "next", !.event = event, !.source = source,
                                                 !.outer = TRUE, !.rows = [@ EXCEPT ![a] = fired[a]]]]
      /\ Read(f, {a}, source) /\ Trigger /\ UNCHANGED <<run, fired, memory, execs, faults>>
  BY DEF Handle
<1>3. NoFlow.rows = NoRows /\ [NoRows EXCEPT ![a] = fired[a]] = rows
  BY DEF NoFlow, NoRows
<1>4. x = [NoFlow EXCEPT !.pc = "next", !.event = event, !.source = source,
                         !.outer = TRUE, !.rows = [@ EXCEPT ![a] = fired[a]]]
  BY <1>3 DEF NoFlow
<1>5. rows \in [Autos -> Nat \cup {None}] /\ yes \in BOOLEAN
  BY DEF CountType
<1> HIDE DEF f, rows, yes
<1>6. x \in Flow
  BY <1>5, NoFlowType DEF Flow
<1>7. x.pc = "next" /\ x.rows = rows /\ x.source = source /\ x.hop = 0
  BY DEF NoFlow
<1>8. flow' = [flow EXCEPT ![f] = x]
  BY <1>2, <1>4
<1> HIDE DEF x
<1>9. /\ FlowType' /\ flow'[f] = x /\ \A g \in Flows \ {f} : flow'[g] = flow[g]
  BY <1>1, <1>6, <1>8 DEF FlowType
<1>10. Shape' /\ Hops'
  BY <1>1, <1>7, <1>9, OthersKeepShape DEF Aside, ShapeOf, HopOf
<1>11. Fire' /\ extra' \in [Autos -> Nat]
  BY <1>1, <1>2, <1>7, <1>9, ReadKeeps DEF rows
<1>12. CountType'
  BY <1>2, <1>11, CountsKept DEF CountType, memory
<1> QED BY <1>9, <1>10, <1>11, <1>12

\* A flow step that leaves the counts alone and goes on, or is done.
LEMMA WalkStep ==
    ASSUME FlowInv, NEW f \in Flows, FlowType', Aside(f), flow[f].pc # "mark",
           flow'[f].pc \notin {"insert", "mark"},
           flow'[f].pc \in {"act", "complete"} => flow'[f].auto \in Autos,
           \/ flow'[f].rows = NoRows /\ flow'[f].hop = 0
           \/ /\ flow'[f].rows = flow[f].rows /\ flow'[f].hop = flow[f].hop
              /\ flow'[f].source = flow[f].source /\ flow'[f].event = flow[f].event,
           UNCHANGED <<fired, execs, extra>>
    PROVE  FlowType' /\ Shape' /\ Hops' /\ Fire'
<1> USE DEF FlowInv
<1>1. HopOf(f)' /\ ShapeOf(f)'
  BY DEF Hops, HopOf, ShapeOf
<1>2. Shape' /\ Hops'
  BY <1>1, OthersKeepShape
<1>3. \A a \in Autos : \A g \in Flows : Quiet(g, a)
  BY AsideQuiet, GoesOnQuiet DEF Aside
<1>4. Fire'
  BY <1>3, AllQuiet
<1> QED BY <1>2, <1>4

\* Flow f is replaced by x, the others stay.
LEMMA Replaced ==
    ASSUME FlowType, NEW f \in Flows, NEW x \in Flow, flow' = [flow EXCEPT ![f] = x]
    PROVE  FlowType' /\ flow'[f] = x /\ Aside(f) /\ \A g \in Flows \ {f} : flow'[g] = flow[g]
BY DEF FlowType, Aside

\* A handler that calls start_session or stop_session.
LEMMA SessionStep ==
    ASSUME FlowInv, OpenSession \/ CloseSession
    PROVE  FlowInv'
<1> USE DEF FlowInv
<1> DEFINE f == CHOOSE g \in Free : TRUE
           x == [NoFlow EXCEPT !.pc = "launch", !.source = "manual", !.live = session]
           y == [NoFlow EXCEPT !.pc = "ending", !.source = "manual"]
<1>1. f \in Flows /\ flow[f].pc = "idle"
  BY RoomAny DEF OpenSession, CloseSession
<1>2. /\ flow' = [flow EXCEPT ![f] = x] \/ flow' = [flow EXCEPT ![f] = y]
      /\ Trigger /\ UNCHANGED <<fired, cooling, execs, extra, faults>> /\ session' \in BOOLEAN
  BY DEF OpenSession, CloseSession, memory, CountType
<1>3. /\ x.pc = "launch" /\ x.rows = NoRows /\ x.hop = 0
      /\ y.pc = "ending" /\ y.rows = NoRows /\ y.hop = 0
  BY DEF NoFlow
<1>4. x \in Flow /\ y \in Flow
  <2>1. session \in BOOLEAN
    BY DEF CountType
  <2> QED BY <2>1, NoFlowType DEF Flow
<1> HIDE DEF f, x, y
<1>5. FlowType' /\ flow'[f] \in {x, y} /\ Aside(f)
  BY <1>1, <1>2, <1>4, Replaced
<1>6. FlowType' /\ Shape' /\ Hops' /\ Fire'
  BY <1>1, <1>2, <1>3, <1>5, WalkStep
<1>7. CountType'
  BY <1>2, CountsKept DEF CountType
<1> QED BY <1>6, <1>7

\* fire_event's read of the rows.
LEMMA LoadStep ==
    ASSUME FlowInv, NEW f \in Flows, Load(f)
    PROVE  FlowInv'
<1> USE DEF FlowInv
<1> DEFINE as == Listeners(flow[f].event)
           rows == [a \in Autos |-> IF a \in as THEN fired[a] ELSE None]
           x == [flow[f] EXCEPT !.pc = "next", !.rows = rows]
<1>1. /\ flow[f].pc = "load" /\ flow' = [flow EXCEPT ![f] = x]
      /\ Read(f, as, flow[f].source) /\ UNCHANGED <<fired, memory, execs, triggers, faults>>
  BY DEF Load, FlowType
<1>2. rows \in [Autos -> Nat \cup {None}] /\ as \in SUBSET Autos /\ flow[f] \in Flow
  BY DEF CountType, Listeners, FlowType
<1> HIDE DEF rows, as
<1>3. /\ x \in Flow /\ x.pc = "next" /\ x.rows = rows /\ x.hop = flow[f].hop
      /\ x.source = flow[f].source /\ x.event = flow[f].event
  BY <1>2 DEF Flow
<1> HIDE DEF x
<1>4. FlowType' /\ flow'[f] = x /\ Aside(f) /\ \A g \in Flows \ {f} : flow'[g] = flow[g]
  BY <1>1, <1>3, Replaced
<1>5. Shape' /\ Hops'
  <2>1. ShapeOf(f)' /\ HopOf(f)'
    BY <1>3, <1>4 DEF ShapeOf, HopOf, Hops
  <2> QED BY <1>4, <2>1, OthersKeepShape
<1>6. Fire' /\ extra' \in [Autos -> Nat]
  BY <1>1, <1>2, <1>3, <1>4, ReadKeeps DEF rows
<1>7. CountType'
  BY <1>1, <1>6, CountsKept DEF CountType, memory
<1> QED BY <1>4, <1>5, <1>6, <1>7

\* The guardrails look at the row in hand.
LEMMA NextAutoStep ==
    ASSUME FlowInv, NEW f \in Flows, NextAuto(f)
    PROVE  FlowInv'
<1> USE DEF FlowInv
<1>1. PICK a \in Pending(f) :
        LET rows == [flow[f].rows EXCEPT ![a] = None]
            go == /\ GateMatches(a, flow[f].ok)
                  /\ ~Blocked(a, flow[f].rows[a], flow[f].source)
        IN  flow' = [flow EXCEPT ![f] =
                       IF go THEN [flow[f] EXCEPT !.pc = "insert", !.auto = a, !.rows = rows]
                       ELSE IF rows = NoRows THEN NoFlow ELSE [flow[f] EXCEPT !.rows = rows]]
  BY DEF NextAuto, FlowType
<1> DEFINE rows == [flow[f].rows EXCEPT ![a] = None]
           x == [flow[f] EXCEPT !.pc = "insert", !.auto = a, !.rows = rows]
           y == [flow[f] EXCEPT !.rows = rows]
           go == GateMatches(a, flow[f].ok) /\ ~Blocked(a, flow[f].rows[a], flow[f].source)
<1>2. /\ flow[f].pc = "next" /\ a \in Autos /\ flow[f].rows[a] # None /\ flow[f] \in Flow
      /\ UNCHANGED <<fired, memory, execs, extra, triggers, faults>>
  BY <1>1 DEF NextAuto, Pending, FlowType
<1>3. /\ rows \in [Autos -> Nat \cup {None}] /\ rows[a] = None
      /\ \A b \in Autos : rows[b] # None => b # a /\ rows[b] = flow[f].rows[b]
  BY <1>2 DEF Flow
<1>4. \/ go /\ flow' = [flow EXCEPT ![f] = x]
      \/ flow' = [flow EXCEPT ![f] = NoFlow]
      \/ flow' = [flow EXCEPT ![f] = y]
  BY <1>1
<1> HIDE DEF rows
<1>5. /\ x \in Flow /\ x.pc = "insert" /\ x.auto = a /\ x.rows = rows
      /\ x.hop = flow[f].hop /\ x.source = flow[f].source /\ x.event = flow[f].event
  BY <1>2, <1>3 DEF Flow
<1>6. /\ y \in Flow /\ y.pc = "next" /\ y.rows = rows
      /\ y.hop = flow[f].hop /\ y.source = flow[f].source /\ y.event = flow[f].event
  BY <1>2, <1>3 DEF Flow
<1>7. NoFlow \in Flow /\ NoFlow.pc = "idle" /\ NoFlow.rows = NoRows /\ NoFlow.hop = 0
  BY NoFlowType DEF NoFlow
<1>8. go => (flow[f].source # "manual" /\ Config[a].max > 0 => flow[f].rows[a] < Config[a].max)
  <2>1. flow[f].rows[a] \in Nat /\ Config[a].max \in Nat
    BY <1>2, Numbers DEF Flow
  <2> QED BY <2>1 DEF Blocked
<1> HIDE DEF x, y, go
<1>9. \/ FlowType' /\ Aside(f) /\ go /\ flow'[f] = x
      \/ FlowType' /\ Aside(f) /\ flow'[f] \in {NoFlow, y}
  BY <1>4, <1>5, <1>6, <1>7, Replaced
<1>10. Shape' /\ Hops'
  <2>1. ShapeOf(f)' /\ HopOf(f)'
    BY <1>2, <1>3, <1>5, <1>6, <1>7, <1>9 DEF ShapeOf, HopOf, Hops
  <2> QED BY <1>9, <2>1, OthersKeepShape
<1>11. CountType'
  BY <1>2, CountsKept DEF CountType, memory
<1>12. ASSUME NEW b \in Autos, Config[b].max > 0, NEW g \in Flows
       PROVE  Quiet(g, b)
  <2>1. CASE g # f
    BY <1>9, <2>1, AsideQuiet DEF Aside
  <2>2. CASE g = f /\ flow'[f] = NoFlow
    BY <1>2, <1>7, <2>2 DEF Quiet, Armed, AtMark, NoRows
  <2>3. CASE g = f /\ flow'[f] = y
    BY <1>2, <1>3, <1>6, <2>3 DEF Quiet, Armed, AtMark
  <2>4. CASE g = f /\ flow'[f] = x
    <3>1. ~AtMark(f, b) /\ ~AtMark(f, b)'
      BY <1>2, <1>5, <2>4 DEF AtMark
    <3>2. go
      BY <1>5, <1>6, <1>7, <1>9, <2>4
    <3>3. ASSUME Armed(f, b)' PROVE Armed(f, b)
      BY <1>2, <1>3, <1>5, <1>8, <1>12, <2>4, <3>2, <3>3 DEF Armed
    <3> QED BY <2>4, <3>1, <3>3 DEF Quiet
  <2> QED BY <1>9, <2>1, <2>2, <2>3, <2>4
<1>13. Fire'
  BY <1>2, <1>12, AllQuiet
<1> QED BY <1>9, <1>10, <1>11, <1>13

\* A write that fails is a fault, and there is room for one.
LEMMA FaultCounted ==
    ASSUME CountType, NEW ok \in Writes, Count(ok)
    PROVE  faults' \in 0..MaxFaults /\ ok \in BOOLEAN
<1>1. CASE ok = TRUE
  BY <1>1 DEF CountType, Count
<1>2. CASE ok # TRUE
  <2>1. ok = FALSE /\ faults < MaxFaults
    BY <1>2 DEF Writes
  <2>2. faults' = faults + 1
    BY <2>1 DEF Count
  <2>3. faults < MaxFaults
    BY <2>1
  <2>4. faults' \in 0..MaxFaults
    BY <2>2, <2>3, AutomationsAssumption DEF CountType
  <2> QED BY <2>1, <2>4
<1> QED BY <1>1, <1>2

\* The execution is inserted, or the automation ends there.
LEMMA InsertStep ==
    ASSUME FlowInv, NEW f \in Flows, Insert(f)
    PROVE  FlowInv'
<1> USE DEF FlowInv
<1> DEFINE a == flow[f].auto
           x == [flow[f] EXCEPT !.pc = "mark"]
           mine == flow[f].source # "manual"
<1>1. PICK ok \in Writes :
        /\ flow' = [flow EXCEPT ![f] = IF ok THEN x ELSE After(f)]
        /\ execs' = IF ok /\ mine THEN [execs EXCEPT ![a] = @ + 1] ELSE execs
        /\ Count(ok)
  BY DEF Insert, FlowType
<1>2. /\ flow[f].pc = "insert" /\ flow[f] \in Flow /\ a \in Autos /\ flow[f].rows[a] = None
      /\ UNCHANGED <<fired, memory, extra, triggers>>
  BY DEF Insert, FlowType, Shape, ShapeOf
<1>3. /\ x \in Flow /\ x.pc = "mark" /\ x.auto = a /\ x.rows = flow[f].rows
      /\ x.hop = flow[f].hop /\ x.source = flow[f].source /\ x.event = flow[f].event
  BY <1>2 DEF Flow
<1>4. CountType'
  <2>1. faults' \in 0..MaxFaults
    BY <1>1, FaultCounted
  <2>2. execs' \in [Autos -> Nat]
    BY <1>1, <1>2 DEF CountType
  <2> QED BY <1>2, <2>1, <2>2 DEF CountType, memory
<1>5. CASE ~ok
  <2>1. flow' = [flow EXCEPT ![f] = After(f)] /\ execs' = execs
    BY <1>1, <1>5
  <2> DEFINE y == After(f)
  <2>2. /\ y \in Flow /\ y.pc \in {"idle", "next"}
        /\ \/ y.rows = NoRows /\ y.hop = 0
           \/ /\ y.rows = flow[f].rows /\ y.hop = flow[f].hop
              /\ y.source = flow[f].source /\ y.event = flow[f].event
    BY AfterType
  <2> HIDE DEF y
  <2>3. FlowType' /\ flow'[f] = y /\ Aside(f)
    BY <2>1, <2>2, Replaced DEF y
  <2>4. FlowType' /\ Shape' /\ Hops' /\ Fire'
    BY <1>2, <2>1, <2>2, <2>3, WalkStep
  <2> QED BY <1>4, <2>4
<1>6. CASE ok
  <2>1. flow' = [flow EXCEPT ![f] = x]
    BY <1>1, <1>6
  <2> HIDE DEF x
  <2>2. FlowType' /\ flow'[f] = x /\ Aside(f)
    BY <1>3, <2>1, Replaced
  <2>3. ShapeOf(f)' /\ HopOf(f)'
    BY <1>2, <1>3, <2>2 DEF ShapeOf, HopOf, Hops
  <2>4. Shape' /\ Hops'
    BY <2>2, <2>3, OthersKeepShape
  <2>5. \A g \in Flows \ {f} : \A b \in Autos : Quiet(g, b)
    BY <2>2, AsideQuiet DEF Aside
  <2> HIDE DEF a
  <2>6. ASSUME NEW b \in Autos, Config[b].max > 0 PROVE FireOf(b)'
    <3>1. CASE b # a \/ ~mine
      <4>1. Quiet(f, b)
        BY <1>2, <1>3, <2>2, <3>1 DEF Quiet, Armed, AtMark, a
      <4>2. execs'[b] = execs[b]
        BY <1>1, <1>2, <3>1 DEF CountType
      <4> QED BY <1>2, <2>5, <4>1, <4>2, QuietKeeps DEF Fire
    <3>2. CASE b = a /\ mine
      <4> DEFINE u == Unstamped(b)
                 v == Unstamped(b)'
                 s == ArmedFlows(b)
                 t == ArmedFlows(b)'
      <4>1. Armed(f, b) /\ ~Armed(f, b)' /\ ~AtMark(f, b) /\ AtMark(f, b)'
        BY <1>2, <1>3, <2>2, <3>2 DEF Armed, AtMark, a
      <4>2. /\ u \in SUBSET Flows /\ v \in SUBSET Flows /\ u \subseteq v \ {f} /\ f \in v
            /\ s \in SUBSET Flows /\ t \in SUBSET Flows /\ t \subseteq s \ {f} /\ f \in s
        BY <2>5, <4>1, UnstampedIs DEF Quiet
      <4>3. Cardinality(u) + 1 <= Cardinality(v) /\ Cardinality(t) + 1 <= Cardinality(s)
        BY <4>2, FlowCounts
      <4>4. /\ execs[b] <= fired[b] + extra[b] + Cardinality(u)
            /\ execs[b] + Cardinality(s) <= Config[b].max + extra[b]
        BY <2>6 DEF Fire, FireOf
      <4>5. execs'[b] = execs[b] + 1 /\ fired'[b] = fired[b] /\ extra'[b] = extra[b]
        BY <1>1, <1>2, <1>6, <3>2 DEF CountType
      <4>6. /\ execs'[b] <= fired'[b] + extra'[b] + Cardinality(v)
            /\ execs'[b] + Cardinality(t) <= Config[b].max + extra'[b]
        BY <4>3, <4>4, <4>5, Numbers
      <4> QED BY <4>6 DEF FireOf
    <3> QED BY <3>1, <3>2
  <2>7. Fire'
    BY <2>6 DEF Fire, FireOf
  <2> QED BY <1>4, <2>2, <2>4, <2>7
<1> QED BY <1>5, <1>6, <1>1, FaultCounted

\* Stamps that are lost are accounted for.
LEMMA LossKeeps ==
    ASSUME CountType, NEW gs \in SUBSET Flows, Lost(gs), NEW a \in Autos, FireOf(a),
           execs'[a] = execs[a], fired'[a] \in Nat, fired'[a] >= fired[a],
           \A f \in Flows : Armed(f, a)' => Armed(f, a),
           \/ \A f \in Flows \ gs : AtMark(f, a) => AtMark(f, a)'
           \/ /\ fired'[a] = fired[a] + 1 /\ gs = {}
              /\ \E g \in Flows : \A f \in Flows \ {g} : AtMark(f, a) => AtMark(f, a)'
    PROVE  FireOf(a)'
<1> SUFFICES ASSUME Config[a].max > 0 PROVE FireOf(a)'
    BY DEF FireOf
<1> DEFINE u == Unstamped(a)
           v == Unstamped(a)'
           w == gs \cap u
           s == ArmedFlows(a)
           t == ArmedFlows(a)'
<1>1. /\ u \in SUBSET Flows /\ v \in SUBSET Flows /\ w \in SUBSET Flows
      /\ s \in SUBSET Flows /\ t \in SUBSET Flows /\ t \subseteq s
  BY UnstampedIs
<1>2. extra'[a] = extra[a] + Cardinality(w)
  BY DEF Lost
<1>3. Cardinality(w) \in Nat /\ Cardinality(t) <= Cardinality(s)
  BY <1>1, FlowCounts
<1>4. /\ execs[a] <= fired[a] + extra[a] + Cardinality(u)
      /\ execs[a] + Cardinality(s) <= Config[a].max + extra[a]
  BY DEF FireOf
<1>5. CASE \A f \in Flows \ gs : AtMark(f, a) => AtMark(f, a)'
  <2>1. u \subseteq v \cup w
    BY <1>5, UnstampedIs
  <2>2. IsFiniteSet(v) /\ IsFiniteSet(w)
    BY <1>1, AutomationsAssumption, FS_Subset
  <2> HIDE DEF u, v, w
  <2>3. /\ IsFiniteSet(v \cup w)
        /\ Cardinality(v \cup w) = Cardinality(v) + Cardinality(w) - Cardinality(v \cap w)
    BY <2>2, FS_Union
  <2>4. Cardinality(v \cap w) \in Nat /\ Cardinality(v) \in Nat
    BY <1>1, FlowCounts
  <2>5. Cardinality(u) <= Cardinality(v \cup w)
    BY <1>1, <2>1, FlowCounts
  <2>6. Cardinality(u) <= Cardinality(v) + Cardinality(w) /\ Cardinality(u) \in Nat
    BY <1>1, <1>3, <2>3, <2>4, <2>5, FlowCounts
  <2> HIDE DEF s, t
  <2>7. /\ execs'[a] <= fired'[a] + extra'[a] + Cardinality(v)
        /\ execs'[a] + Cardinality(t) <= Config[a].max + extra'[a]
    <3>1. Cardinality(s) \in Nat /\ Cardinality(t) \in Nat
      BY <1>1, FlowCounts
    <3> QED BY <1>2, <1>3, <1>4, <2>4, <2>6, <3>1, Numbers
  <2> QED BY <2>7 DEF FireOf, v, t
<1>6. CASE /\ fired'[a] = fired[a] + 1
           /\ \E g \in Flows : \A f \in Flows \ {g} : AtMark(f, a) => AtMark(f, a)'
  <2>1. PICK g \in Flows : u \subseteq v \cup {g}
    BY <1>6, UnstampedIs
  <2>2. Cardinality(u) <= Cardinality(v) + 1
    BY <1>1, <2>1, FlowCounts
  <2>3. /\ execs'[a] <= fired'[a] + extra'[a] + Cardinality(v)
        /\ execs'[a] + Cardinality(t) <= Config[a].max + extra'[a]
    BY <1>2, <1>3, <1>4, <1>6, <2>2, Numbers
  <2> QED BY <2>3 DEF FireOf
<1> QED BY <1>5, <1>6

\* The account keeps its type.
LEMMA LossType ==
    ASSUME CountType, NEW gs \in SUBSET Flows, Lost(gs)
    PROVE  extra' \in [Autos -> Nat]
<1>1. ASSUME NEW a \in Autos PROVE Cardinality(gs \cap Unstamped(a)) \in Nat
  <2>1. gs \cap Unstamped(a) \in SUBSET Flows
    OBVIOUS
  <2> QED BY <2>1, FlowCounts
<1> QED BY <1>1 DEF Lost, CountType

\* The stamp is written, or it is lost.
LEMMA MarkStep ==
    ASSUME FlowInv, NEW f \in Flows, Mark(f)
    PROVE  FlowInv'
<1> USE DEF FlowInv
<1> DEFINE a == flow[f].auto
           x == [flow[f] EXCEPT !.pc = "act", !.block = 1]
           gone(ok) == IF ok THEN {} ELSE {f}
<1>1. PICK ok \in Writes :
        /\ fired' = IF ok THEN [fired EXCEPT ![a] = @ + 1] ELSE fired
        /\ Lost(gone(ok))
        /\ Count(ok)
  BY DEF Mark
<1>2. /\ flow[f].pc = "mark" /\ flow[f] \in Flow /\ a \in Autos /\ flow[f].rows[a] = None
      /\ flow' = [flow EXCEPT ![f] = x] /\ UNCHANGED <<memory, execs, triggers>>
  BY DEF Mark, FlowType, Shape, ShapeOf
<1>3. /\ x \in Flow /\ x.pc = "act" /\ x.auto = a /\ x.rows = flow[f].rows
      /\ x.hop = flow[f].hop /\ x.source = flow[f].source /\ x.event = flow[f].event
  BY <1>2 DEF Flow
<1> HIDE DEF x
<1>4. FlowType' /\ flow'[f] = x /\ Aside(f)
  BY <1>2, <1>3, Replaced
<1>5. ShapeOf(f)' /\ HopOf(f)'
  BY <1>2, <1>3, <1>4 DEF ShapeOf, HopOf, Hops
<1>6. Shape' /\ Hops'
  BY <1>4, <1>5, OthersKeepShape
<1> DEFINE gs == gone(ok)
<1>7. gs \in SUBSET Flows /\ Lost(gs) /\ (ok => gs = {}) /\ (~ok => gs = {f})
  BY <1>1
<1> HIDE DEF gs, gone
<1>8. CountType'
  <2>1. faults' \in 0..MaxFaults /\ ok \in BOOLEAN
    BY <1>1, FaultCounted
  <2>2. fired' \in [Autos -> Nat]
    BY <1>1, <1>2 DEF CountType
  <2>3. extra' \in [Autos -> Nat]
    BY <1>7, LossType
  <2> QED BY <1>2, <2>1, <2>2, <2>3 DEF CountType, memory
<1>9. \A g \in Flows \ {f} : \A b \in Autos : Quiet(g, b)
  BY <1>4, AsideQuiet DEF Aside
<1> HIDE DEF a
<1>10. ASSUME NEW b \in Autos PROVE FireOf(b)'
  <2>1. \A g \in Flows : Armed(g, b)' => Armed(g, b)
    <3>1. Armed(f, b)' => Armed(f, b)
      BY <1>2, <1>3, <1>4 DEF Armed
    <3> QED BY <1>9, <3>1 DEF Quiet
  <2>2. \A g \in Flows \ {f} : AtMark(g, b) => AtMark(g, b)'
    BY <1>9 DEF Quiet
  <2>3. fired[b] \in Nat /\ fired'[b] \in Nat /\ execs'[b] = execs[b] /\ FireOf(b)
    BY <1>2, <1>8, Numbers DEF CountType, Fire
  <2>4. CASE b # a
    <3>1. ~AtMark(f, b)
      BY <2>4 DEF AtMark, a
    <3>2. fired'[b] = fired[b]
      BY <1>1, <1>2, <2>4 DEF CountType
    <3>3. \A g \in Flows \ gs : AtMark(g, b) => AtMark(g, b)'
      BY <2>2, <3>1
    <3> QED BY <1>7, <2>1, <2>3, <3>2, <3>3, LossKeeps
  <2>5. CASE b = a /\ ok
    <3>1. fired'[b] = fired[b] + 1 /\ gs = {}
      BY <1>1, <1>2, <1>7, <2>5 DEF CountType
    <3> QED BY <1>7, <2>1, <2>2, <2>3, <3>1, LossKeeps
  <2>6. CASE b = a /\ ~ok
    <3>1. fired'[b] = fired[b] /\ gs = {f}
      BY <1>1, <1>2, <1>7, <2>6 DEF CountType
    <3> QED BY <1>7, <2>1, <2>2, <2>3, <3>1, LossKeeps
  <2> QED BY <2>4, <2>5, <2>6
<1>11. Fire'
  BY <1>10 DEF Fire
<1> QED BY <1>4, <1>6, <1>8, <1>11

\* A workflow action: the two events of its run come from a flow no event
\* started, and so are one hop away.
LEMMA RunWorkflowStep ==
    ASSUME FlowInv, NEW f \in Flows, RunWorkflow(f)
    PROVE  FlowInv'
<1> USE DEF FlowInv
<1>1. /\ FlowType' /\ GoesOn(flow'[f], f)
      /\ \A h \in Flows \ {f} :
           \/ flow'[h] = flow[h]
           \/ Fires(f) /\ flow[h].pc = "idle" /\ IsFresh(flow'[h], Further(flow[f].hop))
  BY WorkflowStep
<1>2. Fires(f) => Further(flow[f].hop) = 1
  BY DEF Fires, Hops, HopOf, Further
<1>3. Aside(f)
  BY <1>1, <1>2 DEF Aside, Spawned, IsFresh
<1>4. /\ flow[f].pc = "act" /\ flow[f].auto \in Autos
      /\ UNCHANGED <<fired, memory, execs, extra, triggers, faults>>
  BY DEF RunWorkflow, Shape, ShapeOf
<1>5. FlowType' /\ Shape' /\ Hops' /\ Fire'
  BY <1>1, <1>3, <1>4, WalkStep DEF GoesOn
<1>6. CountType'
  BY <1>4, CountsKept DEF CountType, memory
<1> QED BY <1>5, <1>6

\* An ai_session action, with its cooldown.
LEMMA RunSessionStep ==
    ASSUME FlowInv, NEW f \in Flows, RunSession(f)
    PROVE  FlowInv'
<1> USE DEF FlowInv
<1>1. /\ flow[f].pc = "act" /\ flow[f].auto \in Autos
      /\ UNCHANGED <<fired, session, execs, extra, triggers, faults>>
      /\ cooling' = cooling \/ Stamp(flow[f].auto)
      /\ \E ok \in BOOLEAN : flow' = [flow EXCEPT ![f] = Walked(f, ok)]
  BY DEF RunSession, Shape, ShapeOf, memory
<1>2. PICK ok \in BOOLEAN : flow' = [flow EXCEPT ![f] = Walked(f, ok)]
  BY <1>1
<1> DEFINE x == Walked(f, ok)
<1>3. GoesOn(x, f)
  BY WalkedType
<1> HIDE DEF x
<1>4. FlowType' /\ flow'[f] = x /\ Aside(f)
  BY <1>2, <1>3, Replaced DEF GoesOn, x
<1>5. FlowType' /\ Shape' /\ Hops' /\ Fire'
  BY <1>1, <1>3, <1>4, WalkStep DEF GoesOn
<1>6. Config[flow[f].auto].cool \in Nat
  BY <1>1, AutomationsAssumption DEF Automation
<1>7. cooling' \in [Autos -> Nat] /\ \A a \in Autos : cooling'[a] <= Config[a].cool
  BY <1>1, <1>6 DEF CountType, Stamp
<1>8. CountType'
  BY <1>1, <1>7 DEF CountType
<1> QED BY <1>5, <1>8

\* A call of start_session or stop_session returns to a flow or to a handler.
Returns(x, f) ==
    /\ x \in Flow /\ x.pc \notin {"insert", "mark"}
    /\ x.pc \in {"act", "complete"} => x.auto \in Autos
    /\ \/ x.rows = NoRows /\ x.hop = 0
       \/ /\ x.rows = flow[f].rows /\ x.hop = flow[f].hop
          /\ x.source = flow[f].source /\ x.event = flow[f].event

\* So does Return.
LEMMA ReturnType ==
    ASSUME FlowType, NEW f \in Flows, NEW ok \in BOOLEAN
    PROVE  Returns(Return(f, ok), f)
<1>1. flow[f].auto \in Autos \cup {None}
  BY DEF FlowType, Flow
<1>2. CASE flow[f].auto = None
  <2>1. NoFlow \in Flow /\ NoFlow.pc = "idle" /\ NoFlow.rows = NoRows /\ NoFlow.hop = 0
    BY NoFlowType DEF NoFlow
  <2> QED BY <1>2, <2>1 DEF Return, Returns
<1>3. CASE flow[f].auto # None
  <2> DEFINE x == Walked(f, ok)
  <2>1. GoesOn(x, f) /\ Return(f, ok) = x
    BY <1>3, WalkedType DEF Return
  <2> HIDE DEF x
  <2> QED BY <1>1, <1>3, <2>1 DEF GoesOn, Returns
<1> QED BY <1>2, <1>3

\* A flow of a session's event is spawned, and its events of runs are no nearer.
LEMMA FireSessionStep ==
    ASSUME FlowType, NEW f \in Flows, flow[f].pc # "idle", NEW event \in SessionEvent,
           FireSession(f, event)
    PROVE  FlowType' /\ Aside(f) /\ Returns(flow'[f], f)
<1> DEFINE x == Return(f, TRUE)
           hop == Further(flow[f].hop)
           yes == TRUE
           nil == None
           mid == Spawn(flow, event, nil, yes, hop)
           new == Fresh(event, nil, yes, hop)
<1>1. /\ event \in EventName /\ event \notin RunEvent /\ nil \in BOOLEAN \cup {None}
      /\ yes \in BOOLEAN /\ hop \in HopCount /\ Cardinality(Owed) \in Nat
  BY Countable DEF EventName, SessionEvent, RunEvent, FlowType, Flow, Further, HopCount
<1>2. RoomFor({event}, Cardinality(Owed)) /\ flow' = [mid EXCEPT ![f] = x]
  BY DEF FireSession, Room
<1>3. Returns(x, f)
  BY ReturnType
<1> HIDE DEF x, hop, yes, nil
<1>4. Listeners(event) # {} => \E g \in Flows : flow[g].pc = "idle"
  BY <1>1, <1>2, RoomOne
<1>5. /\ mid \in [Flows -> Flow]
      /\ \/ mid = flow
         \/ \E g \in Flows : flow[g].pc = "idle" /\ mid = [flow EXCEPT ![g] = new]
  BY <1>1, <1>4, SpawnOne DEF FlowType
<1>6. /\ new.pc = "load" /\ new.source = "workflow" /\ new.event \notin RunEvent
      /\ new.rows = NoRows
  BY <1>1, FreshType
<1> HIDE DEF mid, new
<1>7. \A g \in Flows \ {f} : mid[g] = flow[g] \/ (flow[g].pc = "idle" /\ mid[g] = new)
  BY <1>5 DEF FlowType
<1>8. x \in Flow
  BY <1>3 DEF Returns
<1>9. FlowType' /\ flow'[f] = x /\ \A g \in Flows \ {f} : flow'[g] = mid[g]
  BY <1>2, <1>5, <1>8 DEF FlowType
<1>10. Aside(f)
  BY <1>6, <1>7, <1>9 DEF Aside, Spawned
<1> QED BY <1>3, <1>9, <1>10

\* The streaming actions of a flow, and the rest of a handler's call.
LEMMA StreamingStep ==
    ASSUME FlowInv, NEW f \in Flows, Probe(f) \/ Launch(f) \/ Stop(f) \/ Ended(f)
    PROVE  FlowInv'
<1> USE DEF FlowInv
<1>1. /\ flow[f] \in Flow /\ flow[f].pc \in {"act", "launch", "ending"}
      /\ UNCHANGED <<fired, cooling, execs, extra, triggers, faults>>
  BY DEF Probe, Launch, Stop, Ended, memory, FlowType
<1>2. session' \in BOOLEAN
  BY DEF Probe, Launch, Stop, Ended, memory, CountType
<1>3. ASSUME NEW x, Returns(x, f), flow' = [flow EXCEPT ![f] = x]
      PROVE  FlowType' /\ Aside(f) /\ Returns(flow'[f], f)
  BY <1>3, Replaced DEF Returns
<1>4. ASSUME Probe(f) PROVE FlowType' /\ Aside(f) /\ Returns(flow'[f], f)
  <2> DEFINE x == [flow[f] EXCEPT !.pc = "launch", !.live = session]
  <2>1. flow' = [flow EXCEPT ![f] = x]
    BY <1>4 DEF Probe, FlowType
  <2>2. session \in BOOLEAN
    BY DEF CountType
  <2>3. Returns(x, f)
    BY <1>1, <2>2 DEF Returns, Flow
  <2> QED BY <1>3, <2>1, <2>3
<1>5. ASSUME Launch(f) PROVE FlowType' /\ Aside(f) /\ Returns(flow'[f], f)
  <2>1. PICK ok \in BOOLEAN : \/ FireSession(f, "streaming_session_started")
                              \/ flow' = [flow EXCEPT ![f] = Return(f, ok)]
    BY <1>5 DEF Launch
  <2>2. Returns(Return(f, ok), f)
    BY ReturnType
  <2>3. CASE flow' = [flow EXCEPT ![f] = Return(f, ok)]
    BY <1>3, <2>2, <2>3
  <2>4. CASE FireSession(f, "streaming_session_started")
    BY <1>1, <2>4, FireSessionStep DEF SessionEvent
  <2> QED BY <2>1, <2>3, <2>4
<1>6. ASSUME Stop(f) PROVE FlowType' /\ Aside(f) /\ Returns(flow'[f], f)
  <2> DEFINE x == [flow[f] EXCEPT !.pc = "ending"]
             y == Walked(f, TRUE)
  <2>1. flow' = [flow EXCEPT ![f] = x] \/ flow' = [flow EXCEPT ![f] = y]
    BY <1>6 DEF Stop, FlowType
  <2>2. Returns(x, f)
    BY <1>1 DEF Returns, Flow
  <2>3. GoesOn(y, f)
    BY WalkedType
  <2>4. flow[f].auto \in Autos
    BY <1>6 DEF Stop, Shape, ShapeOf
  <2> HIDE DEF x, y
  <2>5. Returns(y, f)
    BY <2>3, <2>4 DEF GoesOn, Returns
  <2> QED BY <1>3, <2>1, <2>2, <2>5
<1>7. ASSUME Ended(f) PROVE FlowType' /\ Aside(f) /\ Returns(flow'[f], f)
  BY <1>1, <1>7, FireSessionStep DEF Ended, SessionEvent
<1>8. FlowType' /\ Aside(f) /\ Returns(flow'[f], f)
  BY <1>4, <1>5, <1>6, <1>7
<1>9. FlowType' /\ Shape' /\ Hops' /\ Fire'
  BY <1>1, <1>8, WalkStep DEF Returns
<1>10. CountType'
  BY <1>1, <1>2, CountsKept DEF CountType
<1> QED BY <1>9, <1>10

\* The end of an execution.
LEMMA CompleteStep ==
    ASSUME FlowInv, NEW f \in Flows, Complete(f)
    PROVE  FlowInv'
<1> USE DEF FlowInv
<1> DEFINE x == After(f)
<1>1. /\ flow[f].pc = "complete" /\ flow' = [flow EXCEPT ![f] = x]
      /\ UNCHANGED <<fired, memory, execs, extra, triggers, faults>>
  BY DEF Complete
<1>2. /\ x \in Flow /\ x.pc \in {"idle", "next"}
      /\ \/ x.rows = NoRows /\ x.hop = 0
         \/ /\ x.rows = flow[f].rows /\ x.hop = flow[f].hop
            /\ x.source = flow[f].source /\ x.event = flow[f].event
  BY AfterType
<1> HIDE DEF x
<1>3. FlowType' /\ flow'[f] = x /\ Aside(f)
  BY <1>1, <1>2, Replaced
<1>4. FlowType' /\ Shape' /\ Hops' /\ Fire'
  BY <1>1, <1>2, <1>3, WalkStep
<1>5. CountType'
  BY <1>1, CountsKept DEF CountType, memory
<1> QED BY <1>4, <1>5

\* Time passes.
LEMMA ElapseStep ==
    ASSUME FlowInv, Elapse
    PROVE  FlowInv'
<1> USE DEF FlowInv
<1>1. /\ UNCHANGED <<flow, fired, session, execs, extra, triggers, faults>>
      /\ cooling' = [a \in Autos |-> IF cooling[a] = 0 THEN 0 ELSE cooling[a] - 1]
  BY DEF Elapse
<1>2. FlowType' /\ Shape' /\ Hops'
  BY <1>1 DEF FlowType, Shape, ShapeOf, Hops, HopOf
<1>3. Fire'
  BY <1>1, AllQuiet, AsideQuiet
<1>4. \A a \in Autos : Config[a].cool \in Nat
  BY AutomationsAssumption DEF Automation
<1>5. cooling' \in [Autos -> Nat] /\ \A a \in Autos : cooling'[a] <= Config[a].cool
  <2>1. cooling \in [Autos -> Nat] /\ \A a \in Autos : cooling[a] <= Config[a].cool
    BY DEF CountType
  <2>2. cooling' = [a \in Autos |-> IF cooling[a] = 0 THEN 0 ELSE cooling[a] - 1]
    BY <1>1
  <2> QED BY <1>4, <2>1, <2>2
<1>6. CountType'
  BY <1>1, <1>5 DEF CountType
<1> QED BY <1>2, <1>3, <1>6

\* A crash or a hangup: the stamps of the flows that go are lost.
LEMMA InterruptStep ==
    ASSUME FlowInv, Interrupt
    PROVE  FlowInv'
<1> USE DEF FlowInv
<1>1. \E gs \in SUBSET Flows :
        /\ flow' = [f \in Flows |-> IF f \in gs THEN NoFlow ELSE flow[f]]
        /\ Lost(gs)
  BY DEF Interrupt
<1>2. PICK gs \in SUBSET Flows :
        /\ flow' = [f \in Flows |-> IF f \in gs THEN NoFlow ELSE flow[f]]
        /\ Lost(gs)
  BY <1>1
<1>3. /\ faults < MaxFaults /\ faults' = faults + 1 /\ UNCHANGED <<fired, execs, triggers>>
      /\ cooling' = cooling \/ cooling' = [a \in Autos |-> 0]
      /\ session' \in BOOLEAN
  BY DEF Interrupt, memory, CountType
<1>4. NoFlow \in Flow /\ NoFlow.pc = "idle" /\ NoFlow.rows = NoRows /\ NoFlow.hop = 0
  BY NoFlowType DEF NoFlow
<1>5. FlowType'
  BY <1>2, <1>4 DEF FlowType
<1>6. Shape' /\ Hops'
  BY <1>2, <1>4 DEF Shape, ShapeOf, Hops, HopOf
<1>7. CountType'
  <2>1. \A a \in Autos : Config[a].cool \in Nat
    BY AutomationsAssumption DEF Automation
  <2>2. cooling' \in [Autos -> Nat] /\ \A a \in Autos : cooling'[a] <= Config[a].cool
    BY <1>3, <2>1 DEF CountType
  <2>3. faults' \in 0..MaxFaults
    BY <1>3, AutomationsAssumption DEF CountType
  <2>4. extra' \in [Autos -> Nat]
    BY <1>2, LossType
  <2> QED BY <1>3, <2>2, <2>3, <2>4 DEF CountType
<1>8. ASSUME NEW a \in Autos PROVE FireOf(a)'
  <2>1. ASSUME NEW f \in Flows, Armed(f, a)' PROVE Armed(f, a)
    <3>1. flow'[f] \in {NoFlow, flow[f]}
      BY <1>2
    <3> QED BY <1>4, <2>1, <3>1 DEF Armed, NoRows
  <2>2. \A f \in Flows \ gs : AtMark(f, a) => AtMark(f, a)'
    BY <1>2 DEF AtMark
  <2>3. fired'[a] = fired[a] /\ fired[a] \in Nat /\ execs'[a] = execs[a] /\ FireOf(a)
    BY <1>3, Numbers DEF Fire
  <2> QED BY <1>2, <2>1, <2>2, <2>3, LossKeeps
<1>9. Fire'
  BY <1>8 DEF Fire
<1> QED BY <1>5, <1>6, <1>7, <1>9

-----------------------------------------------------------------------------
(* The theorems.                                                           *)

\* The inductive invariant.
IInv == RunType /\ Truth /\ FlowInv

\* It holds at the start.
LEMMA InitIInv == Init => IInv
<1> SUFFICES ASSUME Init PROVE IInv
    OBVIOUS
<1> USE AutomationsAssumption DEF Init
<1>1. NoRun \in Run
  BY DEF NoRun, Run, Status, Event
<1>2. RunType /\ Truth
  BY <1>1 DEF RunType, Truth, TruthOf, NoRun
<1>3. NoFlow \in Flow /\ NoFlow.pc = "idle" /\ NoFlow.rows = NoRows /\ NoFlow.hop = 0
  BY NoFlowType DEF NoFlow
<1>4. FlowType /\ Shape /\ Hops
  BY <1>3 DEF FlowType, Shape, ShapeOf, Hops, HopOf
<1>5. \A a \in Autos : Config[a].cool \in Nat /\ Config[a].max \in Nat
  BY DEF Automation
<1>6. CountType
  <2>1. /\ fired \in [Autos -> Nat] /\ execs \in [Autos -> Nat] /\ extra \in [Autos -> Nat]
        /\ cooling \in [Autos -> Nat] /\ \A a \in Autos : cooling[a] <= Config[a].cool
    BY <1>5
  <2>2. triggers \in 0..MaxTriggers /\ faults \in 0..MaxFaults
    OBVIOUS
  <2>3. session \in BOOLEAN
    OBVIOUS
  <2> QED BY <2>1, <2>2, <2>3 DEF CountType
<1>7. \A f \in Flows : \A a \in Autos : ~Armed(f, a) /\ ~AtMark(f, a)
  BY <1>3 DEF Armed, AtMark, NoRows
<1>8. ASSUME NEW a \in Autos PROVE FireOf(a)
  <2>1. Unstamped(a) = {} /\ ArmedFlows(a) = {}
    BY <1>7, UnstampedIs
  <2>2. Cardinality(Unstamped(a)) = 0 /\ Cardinality(ArmedFlows(a)) = 0
    BY <2>1, FS_EmptySet
  <2>3. execs[a] = 0 /\ fired[a] = 0 /\ extra[a] = 0
    OBVIOUS
  <2> QED BY <1>5, <2>2, <2>3 DEF FireOf
<1>9. Fire
  BY <1>8 DEF Fire
<1> QED BY <1>2, <1>4, <1>6, <1>9 DEF IInv, FlowInv

\* Every step keeps it.
LEMMA NextIInv == IInv /\ [Next]_vars => IInv'
<1> SUFFICES ASSUME IInv, [Next]_vars PROVE IInv'
    OBVIOUS
<1>1. RunType' /\ Truth'
  BY StepRuns DEF IInv
<1>2. FlowInv
  BY DEF IInv
<1>3. CASE UNCHANGED vars
  <2>1. UNCHANGED <<flow, fired, cooling, session, execs, extra, triggers, faults>>
    BY <1>3 DEF vars, memory
  <2>2. FlowType' /\ Shape' /\ Hops' /\ CountType'
    BY <1>2, <2>1 DEF FlowInv, FlowType, Shape, ShapeOf, Hops, HopOf, CountType
  <2>3. Fire'
    BY <1>2, <2>1, AllQuiet, AsideQuiet DEF FlowInv
  <2> QED BY <1>1, <2>2, <2>3 DEF IInv, FlowInv
<1>4. ASSUME NEW r \in Runs, StartRun(r) \/ Body(r) \/ Watch(r) PROVE FlowInv'
  BY <1>2, <1>4, EventStep
<1>5. ASSUME NEW f \in Flows, Step(f) PROVE FlowInv'
  BY <1>2, <1>5, LoadStep, NextAutoStep, InsertStep, MarkStep, RunWorkflowStep, RunSessionStep,
     StreamingStep, CompleteStep DEF Step
<1>6. ASSUME NEW a \in Autos, Webhook(a) \/ RunNow(a) PROVE FlowInv'
  BY <1>2, <1>6, HandleStep DEF Webhook, RunNow
<1>7. OpenSession \/ CloseSession => FlowInv'
  BY <1>2, SessionStep
<1>8. Elapse \/ Interrupt => FlowInv'
  BY <1>2, ElapseStep, InterruptStep
<1>9. CASE Next
  BY <1>1, <1>4, <1>5, <1>6, <1>7, <1>8, <1>9 DEF Next, IInv
<1> QED BY <1>3, <1>9

\* It holds throughout.
LEMMA Inductive == Spec => []IInv
BY InitIInv, NextIInv, PTL DEF Spec

\* Every variable has its type: no fire_event is ever spawned in a task at
\* work, no cooldown outlasts its automation's setting, no count goes wrong.
THEOREM TypeCorrect == Spec => []TypeOK
<1>1. IInv => TypeOK
  BY DEF IInv, RunType, FlowInv, FlowType, CountType, TypeOK
<1> QED BY <1>1, Inductive, PTL

\* A run that an event caused fires no event of its own, whatever automations
\* listen to whatever and whatever sessions they start and stop: the decorator
\* of flow_events.rs and the source that run_automation's runs carry see to it.
\* Nothing is said of the events of sessions, which have no such guard.
THEOREM CascadeIsOneHop == Spec => []OneHop
<1>1. IInv => OneHop
  BY DEF IInv, FlowInv, Hops, HopOf, OneHop
<1> QED BY <1>1, Inductive, PTL

\* What await_terminal_status reports as a success or a failure is how the run
\* ended, whichever of the snapshot, the event, the lagging channel and the
\* timeout told it, and whatever it raced with.
THEOREM ReportsTrue == Spec => []ReportIsTrue
<1>1. IInv => ReportIsTrue
  BY DEF IInv, Truth, TruthOf, ReportIsTrue
<1> QED BY <1>1, Inductive, PTL

\* However many flows fire an automation at once, and however many of their
\* stamps are refused or cut off, guardrail_block_reason lets it exceed
\* max_fires by at most one for each row read while another flow had it in hand
\* and one for each stamp that was lost.
THEOREM LimitHeld == Spec => []MaxFiresHeld
<1>1. IInv => MaxFiresHeld
  <2> SUFFICES ASSUME IInv, NEW a \in Autos, Config[a].max > 0
               PROVE  execs[a] <= Config[a].max + extra[a]
      BY DEF MaxFiresHeld
  <2>1. execs[a] + Cardinality(ArmedFlows(a)) <= Config[a].max + extra[a]
    BY DEF IInv, FlowInv, Fire, FireOf
  <2>2. CountType
    BY DEF IInv, FlowInv
  <2> QED BY <2>1, <2>2, Numbers
<1> QED BY <1>1, Inductive, PTL
=============================================================================
