---------------------------- MODULE Automations -----------------------------
(***************************************************************************)
(* Automation flows and the events that start them: run_automation and its *)
(* guardrails in src/src/local/flow.rs, the FlowEventEngine decorator in   *)
(* engine/flow_events.rs, the end of a run in engine/registry.rs, and the  *)
(* trigger sites in api/v1/hooks.rs, api/v1/automations.rs and             *)
(* engine/streaming.rs, whose start_session and stop_session are called by *)
(* handlers and by the actions of a flow.                                  *)
(*                                                                         *)
(* A run here is one that run_async started: its task ends on its own and  *)
(* a watcher reports its end as a workflow_completed event.  A flow is one *)
(* task that fires automations one after another: the handler of a webhook *)
(* or of "run now" has one, an event all those that listen to it, and the  *)
(* handler that starts or stops a session none.  A block tree is the chain *)
(* of actions on one branch: a condition that does not hold and an action  *)
(* that is skipped only shorten it.  There is one streaming workflow.      *)
(***************************************************************************)
EXTENDS Integers, Sequences, FiniteSets

CONSTANTS
    Autos,       \* the enabled automations
    Config,      \* what each of them is: a member of Automation
    Runs,        \* asynchronous runs
    Flows,       \* bound: tasks that fire automations at once
    Faults,      \* subset of {"crash", "hangup", "busy"}
    MaxTriggers, \* bound on what users and services trigger
    MaxFaults,   \* bound on faults
    None         \* no value

RunEvent == {"workflow_started", "workflow_completed"}
SessionEvent == {"streaming_session_started", "streaming_session_ended"}
Action == {"workflow", "ai_session", "start_streaming_session",
           "stop_streaming_session"}

\* on: the root event.  gate: its status_condition.  max: max_fires, 0 for no
\* limit.  chain: the actions.  retry: extra attempts of a workflow action.
\* stop: its on_error is "stop".  cool: cooldown_minutes of its ai_session
\* actions.
Automation ==
    [on : {"webhook_received"} \cup RunEvent \cup SessionEvent,
     gate : {"any", "success", "error"}, max : Nat, chain : Seq(Action),
     retry : Nat, stop : BOOLEAN, cool : Nat]

ASSUME AutomationsAssumption ==
    /\ Config \in [Autos -> Automation]
    /\ IsFiniteSet(Runs) /\ IsFiniteSet(Flows)
    /\ MaxTriggers \in Nat /\ MaxFaults \in Nat
    /\ Faults \subseteq {"crash", "hangup", "busy"}
    /\ None \notin Autos \cup {"running", "success", "failed"}

VARIABLES
    run,      \* the asynchronous runs, their watchers included
    flow,     \* the tasks
    fired,    \* automations.trigger_count
    cooling,  \* time left in WAKE_COOLDOWNS
    session,  \* whether the streaming workflow has a live session
    execs,    \* executions of each automation that its guardrails let through
    extra,    \* rows read while another flow had one, and lost stamps
    triggers, faults

memory == <<cooling, session>>
vars == <<run, flow, fired, memory, execs, extra, triggers, faults>>

Status == {"running", "success", "failed"}
Event == [name : {"Finished", "Error"}, status : Status \cup {None}]

NoRun == [pc |-> "none", end |-> None, status |-> "running", watch |-> "none",
          heard |-> None, said |-> None]

\* pc: the run's task, along EmitGuard::finish.  end: how the run ended.
\* status: the snapshot in its handle.  watch: await_terminal_status.
\* heard: a terminal event in the watcher's channel.  said: what was reported.
Run == [pc : {"none", "running", "set", "emitted", "gone"},
        end : Status \cup {None}, status : Status,
        watch : {"none", "get", "check", "subscribe", "wait", "done",
                 "expired", "lost"},
        heard : Event \cup {None}, said : Status \cup {None}]

NoRows == [a \in Autos |-> None]
NoFlow == [pc |-> "idle", event |-> None, ok |-> None, source |-> None,
           outer |-> FALSE, hop |-> 0, rows |-> NoRows, auto |-> None,
           block |-> 0, attempt |-> 0, failed |-> FALSE, live |-> FALSE]

\* ok: the "success" of the event's context, None where it has none.  outer:
\* runs go through the decorator.  hop: events between it and a trigger, 2
\* for more than one.  rows: trigger_count, as it was loaded, of the
\* automations still to fire.  live: start_session's was_live.
Flow == [pc : {"idle", "load", "next", "insert", "mark", "act", "launch",
               "ending", "complete"},
         event : {"webhook_received", "manual", None}
                    \cup RunEvent \cup SessionEvent,
         ok : BOOLEAN \cup {None},
         source : {"manual", "webhook", "workflow", None}, outer : BOOLEAN,
         hop : 0..2, rows : [Autos -> Nat \cup {None}],
         auto : Autos \cup {None}, block : Nat, attempt : Nat,
         failed : BOOLEAN, live : BOOLEAN]

TypeOK ==
    /\ run \in [Runs -> Run] /\ flow \in [Flows -> Flow]
    /\ fired \in [Autos -> Nat] /\ execs \in [Autos -> Nat]
    /\ cooling \in [Autos -> Nat] /\ \A a \in Autos : cooling[a] <= Config[a].cool
    /\ session \in BOOLEAN /\ extra \in [Autos -> Nat]
    /\ triggers \in 0..MaxTriggers /\ faults \in 0..MaxFaults

Init ==
    /\ run = [r \in Runs |-> NoRun] /\ flow = [f \in Flows |-> NoFlow]
    /\ fired = [a \in Autos |-> 0] /\ execs = [a \in Autos |-> 0]
    /\ cooling = [a \in Autos |-> 0] /\ session = FALSE
    /\ extra = [a \in Autos |-> 0] /\ triggers = 0 /\ faults = 0

Free == {f \in Flows : flow[f].pc = "idle"}

\* The automations flow f loaded and has not come to.
Pending(f) == {a \in Autos : flow[f].rows[a] # None}

\* The automations whose row flow f read and has not stamped yet.
Holding(f) == Pending(f) \cup
              IF flow[f].pc \in {"insert", "mark"} THEN {flow[f].auto} ELSE {}

\* The automations with a limit that a flow other than f is counted for and
\* has read the row of without having stamped it.
Taken(f) == {a \in Autos : /\ Config[a].max > 0
                           /\ \E g \in Flows \ {f} : /\ a \in Holding(g)
                                                     /\ flow[g].source # "manual"}

\* Flow f, of that source, reads the rows of as.
Read(f, as, source) ==
    extra' = [a \in Autos |->
                IF source # "manual" /\ a \in as \cap Taken(f)
                THEN extra[a] + 1 ELSE extra[a]]

\* The flows that are counted for automation a and have yet to stamp it.
Unstamped(a) == {f \in Flows : /\ flow[f].pc = "mark" /\ flow[f].auto = a
                               /\ flow[f].source # "manual"}

\* The stamps of the flows fs are lost.
Lost(fs) ==
    extra' = [a \in Autos |->
                IF Config[a].max > 0
                THEN extra[a] + Cardinality(fs \cap Unstamped(a)) ELSE extra[a]]

Listeners(event) == {a \in Autos : Config[a].on = event}

\* The flow fs with a task for event spawned in it; no task when nobody listens.
Spawn(fs, event, ok, outer, hop) ==
    IF Listeners(event) = {} THEN fs
    ELSE LET f == CHOOSE g \in Flows : fs[g].pc = "idle"
         IN  [fs EXCEPT ![f] = [NoFlow EXCEPT !.pc = "load", !.event = event,
                                   !.ok = ok, !.source = "workflow",
                                   !.outer = outer, !.hop = hop]]

Further(hop) == IF hop < 2 THEN hop + 1 ELSE 2

\* The watchers that are still to report.
Owed == {r \in Runs : run[r].watch \in {"get", "check", "subscribe", "wait"}}

\* The bound on tasks: there is one for each of these events that is listened
\* to, and one besides for each of n watchers.
RoomFor(events, n) ==
    Cardinality({e \in events : Listeners(e) # {}}) + n <= Cardinality(Free)
Room(events) == RoomFor(events, Cardinality(Owed))

\* Whether a write goes through.
Writes == {TRUE} \cup IF "busy" \in Faults /\ faults < MaxFaults
                      THEN {FALSE} ELSE {}
Count(ok) == faults' = IF ok THEN faults ELSE faults + 1

\* Flow f after an automation: the next one it loaded, or its end.
After(f) == IF Pending(f) = {} THEN NoFlow
            ELSE [flow[f] EXCEPT !.pc = "next", !.auto = None, !.block = 0,
                                 !.attempt = 0, !.failed = FALSE]

-----------------------------------------------------------------------------
(* Faults of the code.                                                     *)

\* The decorator fires for every run.
Fires_Always(f) == flow[f].outer

\* One more than the limit.
Blocked_OffByOne(a, n, source) ==
    source # "manual" /\ Config[a].max > 0 /\ n > Config[a].max

\* The watcher waits for the event, however long it takes.
TimedOut_Never(r) == FALSE

\* A lagging watcher takes the run for failed.
Sampled_Failed(r) == IF run[r].status = "running" THEN "failed"
                     ELSE run[r].status

\* The decorator fires for a run that no event started.
Fires(f) == flow[f].outer /\ flow[f].source # "workflow"

-----------------------------------------------------------------------------
(* Triggers.                                                               *)

Trigger == triggers < MaxTriggers /\ triggers' = triggers + 1

\* run_async through the decorator, for anything but a workflow event.
StartRun(r) ==
    /\ Trigger
    /\ run[r].pc = "none"
    /\ RoomFor({"workflow_started"}, Cardinality(Owed) + 1)
    /\ run' = [run EXCEPT ![r].pc = "running", ![r].watch = "get"]
    /\ flow' = Spawn(flow, "workflow_started", None, FALSE, 1)
    /\ UNCHANGED <<fired, memory, execs, extra, faults>>

\* A handler that read the row of one automation.
Handle(a, event, source) ==
    /\ Trigger
    /\ Cardinality(Owed) < Cardinality(Free)
    /\ LET f == CHOOSE g \in Free : TRUE
       IN  /\ flow' = [flow EXCEPT ![f] =
                         [NoFlow EXCEPT !.pc = "next", !.event = event,
                                        !.source = source, !.outer = TRUE,
                                        !.rows = [@ EXCEPT ![a] = fired[a]]]]
           /\ Read(f, {a}, source)
    /\ UNCHANGED <<run, fired, memory, execs, faults>>

\* The webhook ingress, for a trigger with an automation bound to it.
Webhook(a) ==
    /\ Config[a].on = "webhook_received"
    /\ Handle(a, "webhook_received", "webhook")

\* POST /v1/automations/:id/run.
RunNow(a) == Handle(a, "manual", "manual")

\* A handler outside the flows calls start_session, up to its first await.
OpenSession ==
    /\ Trigger
    /\ Cardinality(Owed) < Cardinality(Free)
    /\ flow' = [flow EXCEPT ![CHOOSE g \in Free : TRUE] =
                  [NoFlow EXCEPT !.pc = "launch", !.source = "manual",
                                 !.live = session]]
    /\ UNCHANGED <<run, fired, memory, execs, extra, faults>>

\* A handler outside the flows calls stop_session and finds one.
CloseSession ==
    /\ Trigger
    /\ session /\ session' = FALSE
    /\ Cardinality(Owed) < Cardinality(Free)
    /\ flow' = [flow EXCEPT ![CHOOSE g \in Free : TRUE] =
                  [NoFlow EXCEPT !.pc = "ending", !.source = "manual"]]
    /\ UNCHANGED <<run, fired, cooling, execs, extra, faults>>

-----------------------------------------------------------------------------
(* The end of a run, as its guard publishes it, and its watcher.           *)

\* finish: the snapshot first.
SetStatus(r) ==
    /\ run[r].pc = "running"
    /\ \E e \in {"success", "failed"} :
          run' = [run EXCEPT ![r].pc = "set", ![r].end = e, ![r].status = e]
    /\ UNCHANGED <<flow, fired, memory, execs, extra, triggers, faults>>

\* The channel of a run with event e sent: those who subscribed get it.
Sent(r, e) == IF run[r].watch = "wait" THEN e ELSE None

\* The terminal event: Finished with the status, or Error from finish_error.
Emit(r) ==
    /\ run[r].pc = "set"
    /\ \E e \in {[name |-> "Finished", status |-> run[r].end]} \cup
                IF run[r].end = "failed"
                THEN {[name |-> "Error", status |-> None]} ELSE {} :
          run' = [run EXCEPT ![r].pc = "emitted", ![r].heard = Sent(r, e)]
    /\ UNCHANGED <<flow, fired, memory, execs, extra, triggers, faults>>

\* Drop for EmitGuard: an Error event, and the snapshot stays as it was.
Drop(r) ==
    /\ run[r].pc = "running"
    /\ run' = [run EXCEPT ![r].pc = "emitted", ![r].end = "failed",
                          ![r].heard = Sent(r, [name |-> "Error",
                                                status |-> None])]
    /\ UNCHANGED <<flow, fired, memory, execs, extra, triggers, faults>>

\* registry.remove.
Remove(r) ==
    /\ run[r].pc = "emitted"
    /\ run' = [run EXCEPT ![r].pc = "gone"]
    /\ UNCHANGED <<flow, fired, memory, execs, extra, triggers, faults>>

\* The watcher ends, and workflow_completed fires whatever it ends with.
Report(r, s, end) ==
    /\ RoomFor({"workflow_completed"}, 0)
    /\ run' = [run EXCEPT ![r].watch = end, ![r].said = s]
    /\ flow' = Spawn(flow, "workflow_completed", s = "success", FALSE, 1)

\* registry.get, and the fallback for a run that is gone.
WatchGet(r) ==
    /\ run[r].watch = "get"
    /\ IF run[r].pc = "gone" THEN Report(r, "running", "done")
       ELSE run' = [run EXCEPT ![r].watch = "check"] /\ UNCHANGED flow
    /\ UNCHANGED <<fired, memory, execs, extra, triggers, faults>>

\* The snapshot, before the subscription.
WatchCheck(r) ==
    /\ run[r].watch = "check"
    /\ IF run[r].status # "running" THEN Report(r, run[r].status, "done")
       ELSE run' = [run EXCEPT ![r].watch = "subscribe"] /\ UNCHANGED flow
    /\ UNCHANGED <<fired, memory, execs, extra, triggers, faults>>

\* Events sent before this are not received.
WatchSubscribe(r) ==
    /\ run[r].watch = "subscribe"
    /\ run' = [run EXCEPT ![r].watch = "wait"]
    /\ UNCHANGED <<flow, fired, memory, execs, extra, triggers, faults>>

\* The status of a terminal event; an Error is a failure.
Outcome(e) == IF e.name = "Finished" THEN e.status ELSE "failed"

\* A terminal event.
WatchHear(r) ==
    /\ run[r].watch = "wait" /\ run[r].heard # None
    /\ Report(r, Outcome(run[r].heard), "done")
    /\ UNCHANGED <<fired, memory, execs, extra, triggers, faults>>

\* What a watcher that lagged behind reads from the handle.
Sampled(r) == run[r].status

\* Lagged: the channel dropped events the watcher had not read.
WatchLag(r) ==
    /\ run[r].watch = "wait" /\ Sampled(r) # "running"
    /\ Report(r, Sampled(r), "done")
    /\ UNCHANGED <<fired, memory, execs, extra, triggers, faults>>

\* The half hour of a watcher can be over at any time.
TimedOut(r) == run[r].watch = "wait" /\ run[r].heard = None

\* The snapshot is what is left to report: the completion fires all the same.
WatchTimeout(r) ==
    /\ TimedOut(r)
    /\ Report(r, run[r].status, "expired")
    /\ UNCHANGED <<fired, memory, execs, extra, triggers, faults>>

-----------------------------------------------------------------------------
(* A flow.                                                                 *)

\* fire_event loads the rows of all who listen.
Load(f) ==
    LET as == Listeners(flow[f].event)
    IN  /\ flow[f].pc = "load"
        /\ flow' = [flow EXCEPT ![f].pc = "next",
                                ![f].rows = [a \in Autos |->
                                   IF a \in as THEN fired[a] ELSE None]]
        /\ Read(f, as, flow[f].source)
        /\ UNCHANGED <<run, fired, memory, execs, triggers, faults>>

\* status_gate_matches.
GateMatches(a, ok) ==
    CASE Config[a].gate = "success" -> ok = TRUE
      [] Config[a].gate = "error" -> ok = FALSE
      [] OTHER -> TRUE

\* guardrail_block_reason, on the trigger_count of the row in hand.
Blocked(a, n, source) ==
    source # "manual" /\ Config[a].max > 0 /\ n >= Config[a].max

\* The next automation, where its gate and its guardrails let it through.
NextAuto(f) ==
    /\ flow[f].pc = "next"
    /\ \E a \in Pending(f) :
          LET rows == [flow[f].rows EXCEPT ![a] = None]
              go == /\ GateMatches(a, flow[f].ok)
                    /\ ~Blocked(a, flow[f].rows[a], flow[f].source)
          IN  flow' = [flow EXCEPT ![f] =
                         IF go THEN [@ EXCEPT !.pc = "insert", !.auto = a,
                                              !.rows = rows]
                         ELSE IF rows = NoRows THEN NoFlow
                         ELSE [@ EXCEPT !.rows = rows]]
    /\ UNCHANGED <<run, fired, memory, execs, extra, triggers, faults>>

\* automation_executions::insert; an error ends the automation.
Insert(f) ==
    LET a == flow[f].auto
    IN  /\ flow[f].pc = "insert"
        /\ \E ok \in Writes :
              /\ flow' = [flow EXCEPT ![f] = IF ok THEN [@ EXCEPT !.pc = "mark"]
                                             ELSE After(f)]
              /\ execs' = IF ok /\ flow[f].source # "manual"
                          THEN [execs EXCEPT ![a] = @ + 1] ELSE execs
              /\ Count(ok)
        /\ UNCHANGED <<run, fired, memory, extra, triggers>>

\* mark_triggered, whose error is ignored.
Mark(f) ==
    LET a == flow[f].auto
    IN  /\ flow[f].pc = "mark"
        /\ \E ok \in Writes :
              /\ fired' = IF ok THEN [fired EXCEPT ![a] = @ + 1] ELSE fired
              /\ Lost(IF ok THEN {} ELSE {f})
              /\ Count(ok)
        /\ flow' = [flow EXCEPT ![f].pc = "act", ![f].block = 1]
        /\ UNCHANGED <<run, memory, execs, triggers>>

\* Flow f with the outcome of its current block.  A failed workflow action may
\* end the chain; what follows any other action runs.
Walked(f, ok) ==
    LET c == Config[flow[f].auto]
        end == \/ flow[f].block = Len(c.chain)
               \/ ~ok /\ c.stop /\ c.chain[flow[f].block] = "workflow"
    IN  [flow[f] EXCEPT !.failed = @ \/ ~ok, !.attempt = 0,
                        !.block = IF end THEN @ ELSE @ + 1,
                        !.pc = IF end THEN "complete" ELSE "act"]

\* run_workflow_action: one attempt.  A run that started fires its events on
\* its way back; one that was refused does not.
RunWorkflow(f) ==
    LET c == Config[flow[f].auto]
    IN  /\ flow[f].pc = "act" /\ c.chain[flow[f].block] = "workflow"
        /\ \E res \in {"ok", "bad", "refused"} :
              LET next == IF res # "ok" /\ flow[f].attempt < c.retry
                          THEN [flow[f] EXCEPT !.attempt = @ + 1]
                          ELSE Walked(f, res = "ok")
                  after == [flow EXCEPT ![f] = next]
              IN  IF res = "refused" \/ ~Fires(f) THEN flow' = after
                  ELSE /\ Room({"workflow_started", "workflow_completed"})
                       /\ flow' = Spawn(Spawn(after, "workflow_started", None,
                                              FALSE, Further(flow[f].hop)),
                                        "workflow_completed", res = "ok",
                                        FALSE, Further(flow[f].hop))
        /\ UNCHANGED <<run, fired, memory, execs, extra, triggers,
                       faults>>

\* The entry of the wake map.
Stamp(a) == cooling' = [cooling EXCEPT ![a] = Config[a].cool]

\* run_ai_session_action: check and stamp under one lock, before the session.
RunSession(f) ==
    LET a == flow[f].auto
    IN  /\ flow[f].pc = "act" /\ Config[a].chain[flow[f].block] = "ai_session"
        /\ IF cooling[a] > 0
           THEN /\ flow' = [flow EXCEPT ![f] = Walked(f, TRUE)]
                /\ UNCHANGED memory
           ELSE /\ Stamp(a) /\ UNCHANGED session
                /\ \E ok \in BOOLEAN :
                      flow' = [flow EXCEPT ![f] = Walked(f, ok)]
        /\ UNCHANGED <<run, fired, execs, extra, triggers, faults>>

\* A call of start_session or stop_session returns, to a flow or to a handler.
Return(f, ok) == IF flow[f].auto = None THEN NoFlow ELSE Walked(f, ok)

\* Flow f fires a session's event on its way back; the automations get the
\* outer engine.
FireSession(f, event) ==
    /\ Room({event})
    /\ flow' = [Spawn(flow, event, None, TRUE, Further(flow[f].hop))
                  EXCEPT ![f] = Return(f, TRUE)]

\* run_streaming_action: start_session looks for a live session.
Probe(f) ==
    /\ flow[f].pc = "act"
    /\ Config[flow[f].auto].chain[flow[f].block] = "start_streaming_session"
    /\ flow' = [flow EXCEPT ![f].pc = "launch", ![f].live = session]
    /\ UNCHANGED <<run, fired, memory, execs, extra, triggers, faults>>

\* find_or_start, whatever happened since, and the event if there was none.
\* An error, or a workflow that is not found, fires nothing.
Launch(f) ==
    /\ flow[f].pc = "launch"
    /\ \E ok \in BOOLEAN :
          /\ IF ok /\ ~flow[f].live THEN FireSession(f, "streaming_session_started")
             ELSE flow' = [flow EXCEPT ![f] = Return(f, ok)]
          /\ session' = (session \/ ok)
    /\ UNCHANGED <<run, fired, cooling, execs, extra, triggers, faults>>

\* run_streaming_action: stop_session takes the session out of the map.
Stop(f) ==
    /\ flow[f].pc = "act"
    /\ Config[flow[f].auto].chain[flow[f].block] = "stop_streaming_session"
    /\ flow' = [flow EXCEPT ![f] = IF session THEN [@ EXCEPT !.pc = "ending"]
                                   ELSE Walked(f, TRUE)]
    /\ session' = FALSE
    /\ UNCHANGED <<run, fired, cooling, execs, extra, triggers, faults>>

\* The manager has ended the session.
Ended(f) ==
    /\ flow[f].pc = "ending"
    /\ FireSession(f, "streaming_session_ended")
    /\ UNCHANGED <<run, fired, memory, execs, extra, triggers, faults>>

\* automation_executions::complete.
Complete(f) ==
    /\ flow[f].pc = "complete"
    /\ flow' = [flow EXCEPT ![f] = After(f)]
    /\ UNCHANGED <<run, fired, memory, execs, extra, triggers, faults>>

\* A unit of the cooldowns.
Elapse ==
    /\ \E a \in Autos : cooling[a] > 0
    /\ cooling' = [a \in Autos |-> IF cooling[a] = 0 THEN 0 ELSE cooling[a] - 1]
    /\ UNCHANGED <<run, flow, fired, session, execs, extra, triggers, faults>>

\* The daemon stops and forgets its tasks, cooldowns and sessions, or a client
\* goes away.
Interrupt ==
    \E x \in Faults \cap {"crash", "hangup"} :
       LET fs == IF x = "crash" THEN Flows
                 ELSE {f \in Flows : flow[f].source \in {"webhook", "manual"}}
       IN  /\ faults < MaxFaults /\ faults' = faults + 1
           /\ x = "hangup" => fs # {}
           /\ \E gs \in IF x = "crash" THEN {fs} ELSE {{f} : f \in fs} :
                 /\ flow' = [f \in Flows |->
                               IF f \in gs THEN NoFlow ELSE flow[f]]
                 /\ Lost(gs)
           /\ IF x = "crash"
              THEN /\ run' = [r \in Runs |->
                                IF run[r].watch \in {"none", "done", "expired"}
                                THEN run[r]
                                ELSE [run[r] EXCEPT !.pc = "gone",
                                                    !.watch = "lost"]]
                   /\ cooling' = [a \in Autos |-> 0] /\ session' = FALSE
              ELSE UNCHANGED <<run, memory>>
           /\ UNCHANGED <<fired, execs, triggers>>

-----------------------------------------------------------------------------
Watch(r) ==
    \/ WatchGet(r) \/ WatchCheck(r) \/ WatchSubscribe(r) \/ WatchHear(r)
    \/ WatchLag(r) \/ WatchTimeout(r)

Body(r) == SetStatus(r) \/ Emit(r) \/ Drop(r) \/ Remove(r)

Step(f) ==
    \/ Load(f) \/ NextAuto(f) \/ Insert(f) \/ Mark(f) \/ RunWorkflow(f)
    \/ RunSession(f) \/ Probe(f) \/ Launch(f) \/ Stop(f) \/ Ended(f)
    \/ Complete(f)

Next ==
    \/ \E r \in Runs : StartRun(r) \/ Body(r) \/ Watch(r)
    \/ \E f \in Flows : Step(f)
    \/ \E a \in Autos : Webhook(a) \/ RunNow(a)
    \/ OpenSession \/ CloseSession \/ Elapse \/ Interrupt

Spec == Init /\ [][Next]_vars

\* The runtime polls the watchers, and their half hour passes.  A run or a
\* flow may take for ever.
FairSpec == Spec /\ \A r \in Runs : WF_vars(Watch(r))

-----------------------------------------------------------------------------
(* Properties.                                                             *)

\* No run that an event caused, through however many flows and sessions, fires
\* an event of its own: the source its request carries and the engine it is
\* handed stop it.  (The events of sessions have no such guard.)
OneHop == \A f \in Flows : flow[f].event \in RunEvent => flow[f].hop <= 1

\* A success or a failure that workflow_completed reports is how the run ended,
\* whichever of the snapshot, the event and the lagging channel told it.
ReportIsTrue ==
    \A r \in Runs : run[r].said \in {"success", "failed"} =>
                       run[r].said = run[r].end

\* An automation exceeds max_fires by no more than the triggers that read its
\* row while another flow was between its own reading and its stamp, and the
\* stamps that were refused or cut off: whatever the flows, one each.
MaxFiresHeld ==
    \A a \in Autos : Config[a].max > 0 => execs[a] <= Config[a].max + extra[a]

\* No watcher outlives its half hour, whatever events it missed and even when
\* the run never ends.
WatcherEnds ==
    \A r \in Runs :
       run[r].watch = "get" ~> run[r].watch \in {"done", "expired", "lost"}
=============================================================================
