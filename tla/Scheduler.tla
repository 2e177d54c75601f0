------------------------------ MODULE Scheduler ------------------------------
(***************************************************************************)
(* The daemon's background tick loop, src/src/local/scheduler/: the wake,  *)
(* the monitor lane beside the scheduled-workflow and scheduled-automation *)
(* lanes, shedding, a tick that panics, shutdown, and a daemon that dies   *)
(* or sleeps through its schedules.  One workflow, one automation on the   *)
(* same schedule, and one interval monitor.                                *)
(***************************************************************************)
EXTENDS Recurrence

CONSTANTS
    Plans, Zones,  \* the schedules and the time zones considered
    Start, End,    \* bound: the instants a behaviour covers
    MaxFaults      \* bound: ticks shed, failed queries, panics of a tick, hours the
                   \* machine sleeps and deaths of the daemon, together

ASSUME SchedulerAssumption ==
    /\ Start \in Int /\ End \in Int /\ Start <= End
    /\ MaxFaults \in Nat
    /\ \A p \in Plans : \/ p.kind = "interval" /\ p.every \in Nat \ {0}
                        \/ p.kind = "daily" /\ p.hour \in 0..(DayLen - 1)
                        \/ p.kind = "weekly" /\ p.hour \in 0..(DayLen - 1) /\ p.days # {}
    /\ \A z \in Zones : z.base \in Int /\ z.at \in Int /\ z.shift \in {-1, 0, 1}

VARIABLES
    now, plan, zone,
    next,    \* workflows.next_scheduled_at
    last,    \* automations.last_triggered_at
    mnext,   \* targets.next_run_at
    loop,    \* the loop task: "idle", "tick" or "stopped"
    busy,    \* `running`, the overlap guard
    woke,    \* the last ticker instant consumed
    tnow,    \* the `now` the tick in progress was given
    lane,    \* the scheduled lanes: "off" or where they are
    mon,     \* the monitor lane: "off", "check" or "done"
    stop,    \* the cancel channel
    launch,  \* the tick that last launched the workflow
    faults

vars == <<now, plan, zone, next, last, mnext, loop, busy, woke, tnow, lane, mon, stop,
          launch, faults>>

input == <<plan, zone>>
rows == <<next, last, mnext>>

Lane == {"select", "advance", "launch", "run", "autos", "autorun", "done"}
Instant == Int \cup {Null}

TypeOK ==
    /\ now \in Start..End /\ plan \in Plans /\ zone \in Zones
    /\ next \in Instant /\ last \in Instant /\ mnext \in Instant /\ launch \in Instant
    /\ loop \in {"idle", "tick", "stopped"}
    /\ woke \in Start..now /\ tnow \in Start..now
    /\ lane \in Lane \cup {"off"} /\ mon \in {"off", "check", "done"}
    /\ busy \in BOOLEAN
    /\ loop = "tick" <=> lane # "off"
    /\ loop = "tick" <=> mon # "off"
    /\ stop \in BOOLEAN /\ faults \in 0..MaxFaults

Init ==
    /\ now = Start /\ plan \in Plans /\ zone \in Zones
    /\ next = Null /\ last = Null /\ mnext = Null
    /\ loop = "idle" /\ busy = FALSE /\ woke = Start /\ tnow = Start
    /\ lane = "off" /\ mon = "off"
    /\ stop = FALSE /\ launch = Null
    /\ faults = 0

-----------------------------------------------------------------------------
(* The loop task.                                                          *)

\* One of the bounded mishaps happens in this step.
Fault == faults < MaxFaults /\ faults' = faults + 1

\* The ticker fires and nobody asked to stop (the select is biased).  A wake
\* that finds the guard set is skipped; a tick over the watermark is shed, and
\* any other reads the clock and starts its lanes.
Wake ==
    /\ loop = "idle" /\ ~stop /\ now > woke
    /\ woke' = now
    /\ \/ /\ ~busy /\ Fault
          /\ UNCHANGED <<loop, busy, tnow, lane, mon>>
       \/ /\ busy' = TRUE
          /\ loop' = IF busy THEN loop ELSE "tick"
          /\ tnow' = IF busy THEN tnow ELSE now
          /\ lane' = IF busy THEN lane ELSE "select"
          /\ mon' = IF busy THEN mon ELSE "check"
          /\ UNCHANGED faults
    /\ UNCHANGED <<now, input, rows, stop, launch>>

\* join! of the lanes is complete; the loop takes its next turn.
EndTick ==
    /\ lane = "done" /\ mon = "done"
    /\ loop' = "idle" /\ busy' = FALSE /\ lane' = "off" /\ mon' = "off"
    /\ UNCHANGED <<now, input, rows, woke, tnow, stop, launch, faults>>

\* Fault: the guard is reset only after a tick that returned.
TickPanics_KeepsGuard ==
    /\ loop = "tick" /\ Fault
    /\ loop' = "idle" /\ lane' = "off" /\ mon' = "off"
    /\ launch' = IF lane = "launch" THEN tnow ELSE launch
    /\ UNCHANGED <<now, input, rows, busy, woke, tnow, stop>>

\* A lane panics: catch_unwind drops them all, and the guard is reset as after
\* any tick.  A dispatch is a task of its own: one already spawned still
\* launches, and goes on by itself.
TickPanics ==
    /\ loop = "tick" /\ Fault
    /\ loop' = "idle" /\ busy' = FALSE /\ lane' = "off" /\ mon' = "off"
    /\ launch' = IF lane = "launch" THEN tnow ELSE launch
    /\ UNCHANGED <<now, input, rows, woke, tnow, stop>>

\* SchedulerHandle::shutdown, and the loop seeing it between two ticks.
Shutdown ==
    /\ ~stop
    /\ stop' = TRUE
    /\ UNCHANGED <<now, input, rows, loop, busy, woke, tnow, lane, mon, launch, faults>>

\* Fault: the change of the cancel channel is seen and the loop goes on.
StopLoop_GoesOn == loop = "idle" /\ stop /\ UNCHANGED vars

StopLoop ==
    /\ loop = "idle" /\ stop
    /\ loop' = "stopped"
    /\ UNCHANGED <<now, input, rows, busy, woke, tnow, lane, mon, stop, launch, faults>>

-----------------------------------------------------------------------------
(* The lanes of a tick.                                                    *)

\* run_due_checks: a due monitor is advanced, then checked.
CheckMonitor ==
    /\ mon = "check"
    /\ mon' = "done"
    /\ mnext' = IF mnext = Null \/ mnext <= tnow THEN tnow + 1 ELSE mnext
    /\ UNCHANGED <<now, input, next, last, loop, busy, woke, tnow, lane, stop, launch, faults>>

\* list_due; if the query fails this tick has no scheduled workflows.
SelectDue ==
    /\ lane = "select"
    /\ \/ /\ lane' = IF next = Null \/ next <= tnow THEN "advance" ELSE "autos"
          /\ UNCHANGED faults
       \/ Fault /\ lane' = "autos"
    /\ UNCHANGED <<now, input, rows, loop, busy, woke, tnow, mon, stop, launch>>

\* Fault: the schedule is left for later.
Advance_Later ==
    /\ lane = "advance"
    /\ lane' = "launch"
    /\ UNCHANGED <<now, input, rows, loop, busy, woke, tnow, mon, stop, launch, faults>>

\* mark_scheduled, before the dispatch; if it fails this tick skips the row.
Advance ==
    /\ lane = "advance"
    /\ \/ /\ next' = NextRun(plan, zone, tnow)
          /\ lane' = "launch"
          /\ UNCHANGED faults
       \/ /\ Fault
          /\ lane' = "autos"
          /\ UNCHANGED next
    /\ UNCHANGED <<now, input, last, mnext, loop, busy, woke, tnow, mon, stop, launch>>

\* The spawned dispatch calls engine.run.
Launch ==
    /\ lane = "launch"
    /\ launch' = tnow
    /\ lane' = "run"
    /\ UNCHANGED <<now, input, rows, loop, busy, woke, tnow, mon, stop, faults>>

\* The lane awaits its dispatches.
RunEnds ==
    /\ lane = "run"
    /\ lane' = "autos"
    /\ UNCHANGED <<now, input, rows, loop, busy, woke, tnow, mon, stop, launch, faults>>

\* The automation lane, due by the tick's clock: run_automation stamps the
\* wall clock, then runs the tree.  A failed query ends the lane; a failed stamp
\* is ignored and the tree runs all the same.
Automate ==
    /\ lane = "autos"
    /\ \/ /\ IsDue(plan, zone, last, tnow)
          /\ lane' = "autorun"
          /\ \/ last' = now /\ UNCHANGED faults
             \/ Fault /\ UNCHANGED last
       \/ /\ ~IsDue(plan, zone, last, tnow)
          /\ lane' = "done"
          /\ UNCHANGED <<last, faults>>
       \/ /\ Fault
          /\ lane' = "done"
          /\ UNCHANGED last
    /\ UNCHANGED <<now, input, next, mnext, loop, busy, woke, tnow, mon, stop, launch>>

AutomationEnds ==
    /\ lane = "autorun"
    /\ lane' = "done"
    /\ UNCHANGED <<now, input, rows, loop, busy, woke, tnow, mon, stop, launch, faults>>

-----------------------------------------------------------------------------
(* Time and the process.                                                   *)

\* Time passes while a run is in progress or the loop has nothing to do.
TimePasses ==
    /\ now < End
    /\ \/ loop = "idle" /\ woke = now
       \/ lane \in {"run", "autorun"}
    /\ now' = now + 1
    /\ UNCHANGED <<input, rows, loop, busy, woke, tnow, lane, mon, stop, launch, faults>>

\* The machine sleeps at any point of a tick.
Sleep ==
    /\ now < End /\ Fault
    /\ now' = now + 1
    /\ UNCHANGED <<input, rows, loop, busy, woke, tnow, lane, mon, stop, launch>>

\* The daemon dies and is started again; its first tick is an interval away.
Crash ==
    /\ loop # "stopped" /\ Fault
    /\ loop' = "idle" /\ busy' = FALSE /\ lane' = "off" /\ mon' = "off"
    /\ woke' = now /\ stop' = FALSE
    /\ UNCHANGED <<now, input, rows, tnow, launch>>

-----------------------------------------------------------------------------
LaneStep ==
    \/ SelectDue \/ Advance \/ Launch \/ RunEnds \/ Automate \/ AutomationEnds

Next ==
    \/ Wake \/ EndTick \/ TickPanics \/ Shutdown \/ StopLoop
    \/ CheckMonitor \/ LaneStep
    \/ TimePasses \/ Sleep \/ Crash

Spec == Init /\ [][Next]_vars

\* The loop is one task and the lanes are futures it polls: it is always
\* scheduled again, and the database answers.  Nothing is assumed of the runs it
\* awaits, those the monitor lane fires included: each has a budget, but may
\* wait at the engine's entry barrier before the budget starts.
Fairness ==
    WF_vars(Wake \/ SelectDue \/ Advance \/ Launch \/ Automate \/ EndTick \/ StopLoop)

FairSpec == Spec /\ Fairness

-----------------------------------------------------------------------------
(* Properties.                                                             *)

Span == (Start - 2 * DayLen)..(End + (SearchDays + 1) * DayLen)
Clocked == {p \in Plans : p.kind # "interval"}
Schedule == [p \in Clocked, z \in Zones |-> Occurrences(p, z, Span)]

\* A fire at the tick in progress is owed, given that the last one was at prev.
Owed(prev) ==
    IF plan.kind = "interval" THEN tnow - prev >= plan.every
    ELSE \E o \in Schedule[plan, zone] : prev < o /\ o <= tnow

\* "Advances each row's schedule BEFORE dispatch, which is what prevents a
\* double-launch" (tick.rs): neither the workflow nor the automation fires
\* twice for one occurrence of its schedule, across a clock change, a slow
\* run, a panic, a death of the daemon or a night asleep.  (An automation
\* counts as fired when its stamp is written.)
OncePerOccurrence ==
    [][ /\ launch' # launch => launch = Null \/ Owed(launch)
        /\ last' # last => last = Null \/ Owed(last) ]_vars

\* The stored next fire is the first occurrence after the tick that stored it:
\* no occurrence is skipped and none is early, on the days the clock changes
\* too (next_run: "a 09:00 daily schedule stays at local 09:00").
NextIsNextOccurrence ==
    [][ (next' # next /\ plan \in Clocked) =>
            next' = Min({o \in Schedule[plan, zone] : o > tnow}) ]_vars

\* The automation lane, unless its query failed, passes over an automation only
\* when it is owed nothing (is_due: "due when a scheduled occurrence has passed since it last fired").
AutomationNotForgotten ==
    [][ (lane = "autos" /\ lane' = "done" /\ faults' = faults) =>
            last # Null /\ ~Owed(last) ]_vars

\* A tick that was shed, failed or panicked costs its own work and no later
\* tick (loop_task: "caught; loop continues", the guard is "reset by the caller
\* regardless of outcome"): once the faults are over, a workflow that is due
\* when the ticker fires is launched.
DueIsLaunched ==
    ( /\ loop = "idle" /\ ~stop /\ now > woke /\ faults = MaxFaults
      /\ next = Null \/ next <= now ) ~> (lane = "run" \/ stop)

\* A lane awaits a run.
Awaiting == lane \in {"run", "autorun"} \/ mon = "check"

\* Shutdown: the loop stops once asked, behind the slowest lane of the tick in
\* progress and whatever that tick ends with, unless a run that the tick awaits
\* never ends (or the daemon dies first).
ShutdownCompletes == stop ~> (loop = "stopped" \/ ~stop \/ []Awaiting)
=============================================================================
