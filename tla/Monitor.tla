------------------------------ MODULE Monitor -------------------------------
(***************************************************************************)
(* The local monitor runner: src/src/local/monitor/runner.rs with the rows *)
(* it keeps in store/monitor_state.rs, store/target_selectors.rs and       *)
(* store/changes.rs.                                                       *)
(*                                                                         *)
(* A check runs on one of two lanes: the scheduler's tick, which walks the *)
(* due monitors one after another and then sweeps for stale ones, and the  *)
(* API's "run now" or "set baseline" request.  Nothing but the database    *)
(* orders the lanes.  Every read and every write of the database is a step *)
(* of its own, except a read or a write that only the next one can tell    *)
(* apart from it.                                                          *)
(*                                                                         *)
(* Time is relative: age is the time since monitor_state.checked_at, due   *)
(* the time to targets.next_run_at, lag the time since a lane read its     *)
(* clock.  Page contents are numbered in the order they are published.     *)
(***************************************************************************)
EXTENDS Integers, FiniteSets

CONSTANTS
    Targets,          \* the monitors
    Selectors,        \* the selectors of every content monitor: one at least, which
                      \* heal_single_selector makes where need be
    Cadence,          \* the gap between next_run_at and the check before it
    Period,           \* targets.check_period_ms, after the clamp
    Faults,           \* subset of FaultKinds
    MaxEdits,         \* bound on the contents published after the first
    MaxOutages,       \* bound on the times a page goes down
    MaxFaults,        \* bound on faults
    MaxLag,           \* bound on the time one tick or one request takes
    None              \* no value

\* crash: the daemon stops.  hangup: the client of a request goes away, and its
\* handler is dropped.  panic: the checker panics.  busy: the database refuses
\* a write.  missing: a selector finds nothing on a page that loads.
FaultKinds == {"crash", "hangup", "panic", "busy", "missing"}

ASSUME MonitorAssumption ==
    /\ IsFiniteSet(Selectors) /\ Selectors # {} /\ None \notin Targets
    /\ Cadence \in Nat \ {0} /\ Period \in Nat \ {0} /\ Cadence >= Period
    /\ MaxEdits \in Nat /\ MaxOutages \in Nat /\ MaxFaults \in Nat
    /\ MaxLag \in Nat /\ Faults \subseteq FaultKinds
    /\ None \notin Int \cup {"unchanged", "changed", "up", "error", "down", "stale",
                            "checking", "panic"}

Lanes == {"tick", "request"}
Floor == 1                     \* MIN_CHECK_INTERVAL_MS is the unit of time
Contents == 0..MaxEdits
AgeCap == 3 * Period + MaxLag  \* past every threshold, by every lane's clock

VARIABLES
    kind,           \* targets.check_type
    page, up,       \* what each site serves, and whether it answers
    outages,        \* times it went down
    state, isUp,    \* monitor_state.state, monitor_state.is_up
    age,            \* None while checked_at is empty
    due,
    base,           \* target_selectors.baseline_hash
    changes,        \* rows of the changes table, by selector
    lane,           \* where each lane is
    told,           \* the last health event the automations of a monitor saw
    news,           \* what they should have seen: the health its row showed last,
                    \* and the last change of it
    notices,        \* times its change_detected automations were dispatched
    faults

site == <<kind, page, up, outages>>
row == <<state, isUp, age, news>>
vars == <<site, row, due, base, changes, lane, told, notices, faults>>

Content == {t \in Targets : kind[t] = "content"}

Healthy == {"unchanged", "changed", "up"}
Unhealthy == {"error", "down", "stale"}
States == Healthy \cup Unhealthy \cup {"checking", None}

Idle == [pc |-> "idle", target |-> None, lag |-> 0, prior |-> None,
         base |-> None, seen |-> None, hit |-> {}, changed |-> FALSE,
         result |-> None, queue |-> {}, snap |-> None]

\* What the checks compare with, and what the sweep loads.
Baseline == [Selectors -> Contents \cup {None}]
Loaded == UNION {[ts -> [isUp : BOOLEAN \cup {None}, elapsed : 0..AgeCap]] :
                    ts \in SUBSET Targets}

LaneState ==
    [pc : {"idle", "pick", "prior", "mark", "fetch", "save", "publish",
           "notify", "edge", "stale", "alarm", "probe", "capture"},
     target : Targets \cup {None}, lag : 0..MaxLag, prior : States,
     base : Baseline \cup {None},
     seen : Contents \cup {None}, hit : SUBSET Selectors, changed : BOOLEAN,
     result : {"unchanged", "changed", "error", "up", "down", "panic", None},
     queue : SUBSET Targets,
     snap : Loaded \cup {None}]

TypeOK ==
    /\ kind \in [Targets -> {"content", "uptime"}]
    /\ page \in [Targets -> Contents] /\ up \in [Targets -> BOOLEAN]
    /\ outages \in [Targets -> 0..MaxOutages]
    /\ state \in [Targets -> States]
    /\ isUp \in [Targets -> BOOLEAN \cup {None}]
    /\ age \in [Targets -> 0..AgeCap \cup {None}]
    /\ due \in [Targets -> 0..Cadence]
    /\ base \in [Targets -> Baseline]
    /\ changes \in [Targets -> [Selectors -> Nat]]
    /\ lane \in [Lanes -> LaneState]
    /\ told \in [Targets -> {"none", "bad", "fine", "cut", "overlapped"}]
    /\ news \in [Targets -> [last : {"new", "bad", "fine"}, owed : {"none", "bad", "fine"}]]
    /\ notices \in [Targets -> Nat]
    /\ faults \in 0..MaxFaults

\* Monitors that were created and never checked.
Init ==
    /\ kind \in [Targets -> {"content", "uptime"}]
    /\ page = [t \in Targets |-> 0] /\ up \in [Targets -> BOOLEAN]
    /\ outages = [t \in Targets |-> 0]
    /\ state = [t \in Targets |-> None] /\ isUp = [t \in Targets |-> None]
    /\ age = [t \in Targets |-> None] /\ due = [t \in Targets |-> 0]
    /\ base = [t \in Targets |-> [s \in Selectors |-> None]]
    /\ changes = [t \in Targets |-> [s \in Selectors |-> 0]]
    /\ lane = [l \in Lanes |-> Idle]
    /\ told = [t \in Targets |-> "none"]
    /\ news = [t \in Targets |-> [last |-> "new", owed |-> "none"]]
    /\ notices = [t \in Targets |-> 0]
    /\ faults = 0

\* The monitors lane l reads or writes at the moment.
Working(l) ==
    IF lane[l].pc \in {"stale", "alarm"} THEN lane[l].queue
    ELSE IF lane[l].target = None THEN {} ELSE {lane[l].target}

\* told says no more of a monitor once two lanes work on it at once, or once a
\* check of it is cut short or loses a write.
Overlap(l, ts) ==
    told' = [t \in Targets |->
               IF t \in ts \cap UNION {Working(m) : m \in Lanes \ {l}}
               THEN "overlapped" ELSE told[t]]
Cut(ts) ==
    told' = [t \in Targets |-> IF t \in ts /\ told[t] # "overlapped"
                               THEN "cut" ELSE told[t]]
Undisturbed == {t \in Targets : told[t] \notin {"cut", "overlapped"}}

Goto(l, pc) == lane' = [lane EXCEPT ![l].pc = pc]

\* Whether a write goes through.  The code logs or drops the error.
Writes == {TRUE} \cup IF "busy" \in Faults /\ faults < MaxFaults
                      THEN {FALSE} ELSE {}
Wrote(t, ok) ==
    /\ faults' = IF ok THEN faults ELSE faults + 1
    /\ Cut(IF ok THEN {} ELSE {t})

\* The row of t, if it is written, shows the health h.
Health(s) == IF s \in Healthy THEN "fine" ELSE "bad"
Shows(t, h, ok) ==
    news' = IF ok THEN [news EXCEPT ![t] =
                           [last |-> h, owed |-> IF news[t].last \in {"new", h}
                                                 THEN news[t].owed ELSE h]]
            ELSE news

\* Lane l has a result and forgets what it compared.
Conclude(l, result) ==
    [Idle EXCEPT !.pc = "publish", !.target = lane[l].target,
                 !.lag = lane[l].lag, !.prior = lane[l].prior,
                 !.queue = lane[l].queue, !.result = result]

\* The next selector, or the result of a check that reached its selectors.
Onward(l, s, new) ==
    IF lane[l].hit = {s}
    THEN Conclude(l, IF lane[l].changed \/ new THEN "changed" ELSE "unchanged")
    ELSE [lane[l] EXCEPT !.hit = @ \ {s}, !.changed = @ \/ new]

\* floor_cleared, for a lane that read its clock lag ago.
FloorCleared(t, lag) == age[t] # None => age[t] - lag >= Floor

-----------------------------------------------------------------------------
(* Faults of the code.                                                     *)

\* The baseline is written before, and apart from, the change it belongs to.
Save_Split(l, s) ==
    LET t == lane[l].target
        b == lane[l].base[s]
        new == b # None /\ b # lane[l].seen
    IN  /\ lane[l].pc = "save" /\ s \in lane[l].hit
        /\ \E ok \in Writes :
              /\ base' = IF ok THEN [base EXCEPT ![t][s] = lane[l].seen]
                         ELSE base
              /\ changes' = IF new THEN [changes EXCEPT ![t][s] = @ + 1]
                            ELSE changes
              /\ lane' = [lane EXCEPT ![l] = Onward(l, s, new)]
              /\ Wrote(t, ok)
        /\ UNCHANGED <<site, row, due, notices>>

\* The first check does not seed a baseline.
Save_NoSeed(l, s) ==
    LET t == lane[l].target
        b == lane[l].base[s]
        new == b # None /\ b # lane[l].seen
    IN  /\ lane[l].pc = "save" /\ s \in lane[l].hit
        /\ \E ok \in Writes :
              /\ base' = IF ok /\ new
                         THEN [base EXCEPT ![t][s] = lane[l].seen] ELSE base
              /\ changes' = IF ok /\ new THEN [changes EXCEPT ![t][s] = @ + 1]
                            ELSE changes
              /\ lane' = [lane EXCEPT ![l] = Onward(l, s, ok /\ new)]
              /\ Wrote(t, ok)
        /\ UNCHANGED <<site, row, due, notices>>

\* A stale monitor that is checked again did not recover.
Classify_NoStale(prior, result) ==
    IF result \in {"error", "down"} /\ prior \in Healthy THEN "bad"
    ELSE IF result \notin {"error", "down"} /\ prior \in Unhealthy \ {"stale"}
    THEN "fine" ELSE "same"

-----------------------------------------------------------------------------
(* The sites.                                                              *)

Edit(t) ==
    /\ t \in Content /\ page[t] < MaxEdits
    /\ page' = [page EXCEPT ![t] = @ + 1]
    /\ UNCHANGED <<kind, up, outages, row, due, base, changes, lane, told,
                   notices, faults>>

GoDown(t) ==
    /\ up[t] /\ outages[t] < MaxOutages
    /\ up' = [up EXCEPT ![t] = FALSE]
    /\ outages' = [outages EXCEPT ![t] = @ + 1]
    /\ UNCHANGED <<kind, page, row, due, base, changes, lane, told, notices,
                   faults>>

ComeUp(t) ==
    /\ ~up[t]
    /\ up' = [up EXCEPT ![t] = TRUE]
    /\ UNCHANGED <<kind, page, outages, row, due, base, changes, lane, told,
                   notices, faults>>

\* One unit of time; no tick or request outlives MaxLag.
Elapse ==
    /\ \A l \in Lanes : lane[l].pc # "idle" => lane[l].lag < MaxLag
    /\ age' = [t \in Targets |-> IF age[t] = None \/ age[t] = AgeCap
                                 THEN age[t] ELSE age[t] + 1]
    /\ due' = [t \in Targets |-> IF due[t] = 0 THEN 0 ELSE due[t] - 1]
    /\ lane' = [l \in Lanes |-> IF lane[l].pc = "idle" THEN lane[l]
                                ELSE [lane[l] EXCEPT !.lag = @ + 1]]
    /\ UNCHANGED <<site, state, isUp, news, base, changes, told, notices, faults>>

-----------------------------------------------------------------------------
(* The entry points.                                                       *)

\* run_due_checks selects the due monitors.
TickStart ==
    /\ lane["tick"].pc = "idle"
    /\ lane' = [lane EXCEPT !["tick"] =
                   [Idle EXCEPT !.pc = "pick",
                                !.queue = {t \in Targets : due[t] = 0}]]
    /\ UNCHANGED <<site, row, due, base, changes, told, notices, faults>>

\* The next due monitor, unless the floor holds it back.
Pick ==
    /\ lane["tick"].pc = "pick"
    /\ \E t \in lane["tick"].queue :
          IF FloorCleared(t, lane["tick"].lag)
          THEN /\ lane' = [lane EXCEPT !["tick"].pc = "prior",
                                       !["tick"].target = t,
                                       !["tick"].queue = @ \ {t}]
               /\ Overlap("tick", {t})
          ELSE /\ lane' = [lane EXCEPT !["tick"].queue = @ \ {t}]
               /\ UNCHANGED told
    /\ UNCHANGED <<site, row, due, base, changes, notices, faults>>

\* POST /v1/monitors/:id/run.
RequestCheck(t) ==
    /\ lane["request"].pc = "idle"
    /\ FloorCleared(t, 0)
    /\ lane' = [lane EXCEPT !["request"].pc = "prior",
                            !["request"].target = t]
    /\ Overlap("request", {t})
    /\ UNCHANGED <<site, row, due, base, changes, notices, faults>>

\* POST .../set-baseline and .../set-all-baselines.
RequestCapture(t) ==
    /\ t \in Content
    /\ lane["request"].pc = "idle"
    /\ lane' = [lane EXCEPT !["request"].pc = "probe",
                            !["request"].target = t]
    /\ Overlap("request", {t})
    /\ UNCHANGED <<site, row, due, base, changes, notices, faults>>

\* Where a lane goes after a check: the rest of the tick, or the response.
Rest(l) == IF l = "tick"
           THEN [Idle EXCEPT !.pc = "pick", !.lag = lane[l].lag,
                             !.queue = lane[l].queue]
           ELSE Idle

-----------------------------------------------------------------------------
(* One check.                                                              *)

\* check_one reads the state before the marker replaces it.
ReadPrior(l) ==
    /\ lane[l].pc = "prior"
    /\ lane' = [lane EXCEPT ![l].pc = "mark",
                            ![l].prior = state[lane[l].target]]
    /\ UNCHANGED <<site, row, due, base, changes, told, notices, faults>>

\* Advance the schedule, publish the marker, read the baselines.
MarkChecking(l) ==
    LET t == lane[l].target
    IN  /\ lane[l].pc = "mark"
        /\ \E ok \in Writes :
              /\ due' = IF ok /\ lane[l].lag <= Cadence
                        THEN [due EXCEPT ![t] = Cadence - lane[l].lag] ELSE due
              /\ state' = IF ok THEN [state EXCEPT ![t] = "checking"] ELSE state
              /\ Wrote(t, ok)
        /\ lane' = [lane EXCEPT ![l].pc = "fetch",
                                ![l].base = IF t \in Content THEN base[t]
                                            ELSE None]
        /\ UNCHANGED <<site, isUp, age, news, base, changes, notices>>

\* What the checker can report of t: a result, or the selectors it found.
Reports(t) ==
    (IF up[t] /\ t \in Content THEN {[hit |-> Selectors, result |-> None]}
     ELSE IF up[t] THEN {[hit |-> {}, result |-> "up"]}
     ELSE IF t \in Content THEN {[hit |-> {}, result |-> "error"]}
     ELSE {[hit |-> {}, result |-> "down"], [hit |-> {}, result |-> "error"]})

\* What it reports when something goes wrong.
BadReports(t) ==
    (IF "panic" \in Faults THEN {[hit |-> {}, result |-> "panic"]} ELSE {})
    \cup
    (IF "missing" \in Faults /\ up[t] /\ t \in Content
     THEN {[hit |-> h, result |-> IF h = {} THEN "error" ELSE None] :
              h \in (SUBSET Selectors) \ {Selectors}}
     ELSE {})

\* check_target under its timeout, which is reported as a failed fetch is.
Fetch(l) ==
    LET t == lane[l].target
    IN  /\ lane[l].pc = "fetch"
        /\ \E r \in Reports(t) \cup BadReports(t) :
              /\ r \notin Reports(t) => faults < MaxFaults
              /\ faults' = IF r \in Reports(t) THEN faults ELSE faults + 1
              /\ Cut(IF r.result = "panic" THEN {t} ELSE {})
              /\ lane' = [lane EXCEPT ![l] =
                             IF r.hit = {} THEN Conclude(l, r.result)
                             ELSE [@ EXCEPT !.pc = "save", !.hit = r.hit,
                                            !.seen = page[t]]]
        /\ UNCHANGED <<site, row, due, base, changes, notices>>

\* finalize_content, one selector: seed the baseline, or record the change and
\* the new baseline in one transaction.
Save(l, s) ==
    LET t == lane[l].target
        b == lane[l].base[s]
        new == b # None /\ b # lane[l].seen
    IN  /\ lane[l].pc = "save" /\ s \in lane[l].hit
        /\ \E ok \in Writes :
              /\ base' = IF ok /\ b # lane[l].seen
                         THEN [base EXCEPT ![t][s] = lane[l].seen] ELSE base
              /\ changes' = IF ok /\ new THEN [changes EXCEPT ![t][s] = @ + 1]
                            ELSE changes
              /\ lane' = [lane EXCEPT ![l] = Onward(l, s, ok /\ new)]
              /\ Wrote(t, ok)
        /\ UNCHANGED <<site, row, due, notices>>

\* The state finalize_content, finalize_uptime or persist_error writes.
Published(l) ==
    CASE lane[l].result = "panic" -> "error"
      [] lane[l].result = "up" /\ isUp[lane[l].target] # FALSE -> "unchanged"
      [] OTHER -> lane[l].result

\* The check's upsert; a panic is caught outside check_one, past the edge.
Publish(l) ==
    LET t == lane[l].target
    IN  /\ lane[l].pc = "publish"
        /\ \E ok \in Writes :
              /\ state' = IF ok THEN [state EXCEPT ![t] = Published(l)]
                          ELSE state
              /\ isUp' = IF ok THEN [isUp EXCEPT ![t] =
                                        Published(l) \in Healthy] ELSE isUp
              /\ age' = IF ok THEN [age EXCEPT ![t] = lane[l].lag] ELSE age
              /\ Shows(t, Health(Published(l)), ok)
              /\ Wrote(t, ok)
        /\ IF lane[l].result = "panic" THEN lane' = [lane EXCEPT ![l] = Rest(l)]
           ELSE Goto(l, IF lane[l].result = "changed" THEN "notify" ELSE "edge")
        /\ UNCHANGED <<site, due, base, changes, notices>>

\* dispatch_change_automations and the monitor's direct notifications.
Notify(l) ==
    /\ lane[l].pc = "notify"
    /\ notices' = [notices EXCEPT ![lane[l].target] = @ + 1]
    /\ Goto(l, "edge")
    /\ UNCHANGED <<site, row, due, base, changes, told, faults>>

\* classify_health_edge.
Classify(prior, result) ==
    IF result \in {"error", "down"} /\ prior \in Healthy THEN "bad"
    ELSE IF result \notin {"error", "down"} /\ prior \in Unhealthy THEN "fine"
    ELSE "same"

\* maybe_dispatch_health_edge.
Edge(l) ==
    LET e == Classify(lane[l].prior, lane[l].result)
    IN  /\ lane[l].pc = "edge"
        /\ told' = IF e = "same" \/ lane[l].target \notin Undisturbed THEN told
                   ELSE [told EXCEPT ![lane[l].target] = e]
        /\ lane' = [lane EXCEPT ![l] = Rest(l)]
        /\ UNCHANGED <<site, row, due, base, changes, notices, faults>>

-----------------------------------------------------------------------------
(* The sweep for stale monitors, and the capture of a baseline.            *)

\* Well past the expected cadence, and not known to be unhealthy.
Overdue(st, elapsed) ==
    /\ st \notin Unhealthy \cup {None}
    /\ elapsed # None
    /\ 2 * elapsed > 5 * Period

\* sweep_stale_health loads every row at once, after the due checks.
SweepRead ==
    LET elapsed == [t \in Targets |-> IF age[t] = None THEN None
                                      ELSE age[t] - lane["tick"].lag]
        overdue == {t \in Targets : Overdue(state[t], elapsed[t])}
    IN  /\ lane["tick"].pc = "pick" /\ lane["tick"].queue = {}
        /\ lane' = [lane EXCEPT !["tick"] =
                       IF overdue = {} THEN Idle
                       ELSE [@ EXCEPT !.pc = "stale", !.queue = overdue,
                                      !.snap = [t \in overdue |->
                                         [isUp |-> isUp[t],
                                          elapsed |-> elapsed[t]]]]]
        /\ Overlap("tick", overdue)
        /\ UNCHANGED <<site, row, due, base, changes, notices, faults>>

\* One overdue monitor of the snapshot is marked; whether the write went
\* through is not looked at.
SweepMark(t) ==
    LET then == lane["tick"].snap[t].elapsed + lane["tick"].lag
    IN  /\ lane["tick"].pc = "stale" /\ t \in lane["tick"].queue
        /\ \E ok \in Writes :
              /\ state' = IF ok THEN [state EXCEPT ![t] = "stale"] ELSE state
              /\ isUp' = IF ok THEN [isUp EXCEPT ![t] = lane["tick"].snap[t].isUp]
                         ELSE isUp
              /\ age' = IF ok THEN [age EXCEPT ![t] = IF then > AgeCap
                                                      THEN AgeCap ELSE then]
                        ELSE age
              /\ Shows(t, "bad", ok)
              /\ Wrote(t, ok)
        /\ lane' = [lane EXCEPT !["tick"].pc = "alarm", !["tick"].target = t]
        /\ UNCHANGED <<site, due, base, changes, notices>>

\* Its monitor_stale automations are dispatched and awaited.
Alarm ==
    LET t == lane["tick"].target
    IN  /\ lane["tick"].pc = "alarm"
        /\ told' = IF t \in Undisturbed THEN [told EXCEPT ![t] = "bad"]
                   ELSE told
        /\ lane' = [lane EXCEPT !["tick"] =
                       IF lane["tick"].queue = {t} THEN Idle
                       ELSE [lane["tick"] EXCEPT !.pc = "stale", !.target = None,
                                                 !.queue = @ \ {t}]]
        /\ UNCHANGED <<site, row, due, base, changes, notices, faults>>

\* check_selectors_now, for a baseline capture.
Probe ==
    LET t == lane["request"].target
    IN  /\ lane["request"].pc = "probe"
        /\ lane' = [lane EXCEPT !["request"] =
                       IF up[t] THEN [@ EXCEPT !.pc = "capture",
                                               !.hit = Selectors,
                                               !.seen = page[t]]
                       ELSE Idle]
        /\ UNCHANGED <<site, row, due, base, changes, told, notices, faults>>

\* set_baseline with what the probe saw.
Capture(s) ==
    LET r == lane["request"]
    IN  /\ r.pc = "capture" /\ s \in r.hit
        /\ base' = [base EXCEPT ![r.target][s] = r.seen]
        /\ lane' = [lane EXCEPT !["request"] =
                       IF r.hit = {s} THEN Idle ELSE [r EXCEPT !.hit = @ \ {s}]]
        /\ UNCHANGED <<site, row, due, changes, told, notices, faults>>

\* The daemon stops, or the client of the request goes away.
Interrupt ==
    \E f \in Faults \cap {"crash", "hangup"} :
       LET ls == IF f = "crash" THEN Lanes ELSE {"request"}
       IN  /\ faults < MaxFaults
           /\ \E l \in ls : lane[l].pc # "idle"
           /\ lane' = [l \in Lanes |-> IF l \in ls THEN Idle ELSE lane[l]]
           /\ Cut(UNION {Working(l) : l \in ls})
           /\ faults' = faults + 1
           /\ UNCHANGED <<site, row, due, base, changes, notices>>

-----------------------------------------------------------------------------
Check(l) ==
    \/ ReadPrior(l) \/ MarkChecking(l) \/ Fetch(l)
    \/ \E s \in Selectors : Save(l, s)
    \/ Publish(l) \/ Notify(l) \/ Edge(l)

Tick ==
    \/ TickStart \/ Pick \/ Check("tick") \/ SweepRead \/ Alarm
    \/ \E t \in Targets : SweepMark(t)

Request == Check("request") \/ Probe \/ \E s \in Selectors : Capture(s)

Next ==
    \/ Tick \/ Request \/ Interrupt \/ Elapse
    \/ \E t \in Targets : Edit(t) \/ GoDown(t) \/ ComeUp(t)
    \/ \E t \in Targets : RequestCheck(t) \/ RequestCapture(t)

Spec == Init /\ [][Next]_vars

\* Lane l dispatches automations, and awaits the runs they start.
Awaiting(l) ==
    \/ lane[l].pc \in {"notify", "alarm"}
    \/ lane[l].pc = "edge" /\ Classify(lane[l].prior, lane[l].result) # "same"

\* The scheduler keeps ticking, every fetch is bounded by its timeout, and time
\* passes however fast the ticks follow each other.  Nothing makes a dispatched
\* run end, a request come, a site come back or a fault happen.
FairSpec ==
    /\ Spec
    /\ WF_vars(Tick /\ ~Awaiting("tick")) /\ WF_vars(Request /\ ~Awaiting("request"))
    /\ SF_vars(Elapse)

-----------------------------------------------------------------------------
(* Properties.                                                             *)

Resting(t) == \A l \in Lanes : t \notin Working(l)

\* Every change of health is told: while no check or sweep of it was cut short,
\* overlapped another or lost a write, the last event that the automations of a
\* monitor at rest were sent is the last change its row went through, from
\* healthy to unhealthy (monitor_down, monitor_stale) or back
\* (monitor_recovered), and none if it went through none.
HealthTold == \A t \in Undisturbed : Resting(t) => told[t] = news[t].owed

\* A page that changed once is recorded at most once by a selector, whatever
\* crashes, refused writes or panics cut the checks short, as long as no two
\* lanes worked on the monitor at once; and no dispatch lacks a recorded change.
NoRenotify ==
    \A t \in {t \in Content : told[t] # "overlapped"} :
       /\ \A s \in Selectors : changes[t][s] <= page[t]
       /\ notices[t] > 0 => \E s \in Selectors : changes[t][s] > 0
       /\ Cardinality(Selectors) = 1 =>
             \A s \in Selectors : notices[t] <= changes[t][s]

\* However checks fail, overlap or are cut short, a site that stays up and
\* stops changing has its content taken as the baseline of every selector,
\* unless a lane awaits for ever the runs that it dispatched.
CaughtUp ==
    \A t \in Targets :
       \/ []<>(t \in Content /\ up[t] => \A s \in Selectors : base[t][s] = page[t])
       \/ \E l \in Lanes : <>[]Awaiting(l)
=============================================================================
