--------------------------- MODULE Monitor_proofs ---------------------------
(***************************************************************************)
(* Proofs about Monitor, for any monitors, selectors, cadences and bounds. *)
(***************************************************************************)
EXTENDS Monitor, FiniteSetTheorems, TLAPS

Failure == {"error", "down"}

\* The monitors that a lane in state x works on.
WorkOf(x) ==
    IF x.pc \in {"stale", "alarm"} THEN x.queue
    ELSE IF x.target = None THEN {} ELSE {x.target}

News == [last : {"new", "bad", "fine"}, owed : {"none", "bad", "fine"}]

\* The half of the type invariant that is not about the lanes.
RowType ==
    /\ kind \in [Targets -> {"content", "uptime"}]
    /\ page \in [Targets -> Contents] /\ up \in [Targets -> BOOLEAN]
    /\ outages \in [Targets -> 0..MaxOutages]
    /\ state \in [Targets -> States]
    /\ isUp \in [Targets -> BOOLEAN \cup {None}]
    /\ age \in [Targets -> 0..AgeCap \cup {None}]
    /\ due \in [Targets -> 0..Cadence]
    /\ base \in [Targets -> Baseline]
    /\ changes \in [Targets -> [Selectors -> Nat]]
    /\ told \in [Targets -> {"none", "bad", "fine", "cut", "overlapped"}]
    /\ news \in [Targets -> News]
    /\ notices \in [Targets -> Nat]
    /\ faults \in 0..MaxFaults

LaneType == lane \in [Lanes -> LaneState]

\* Where a lane is tells what it holds.
Shape(l, x) ==
    /\ x.pc = "idle" => x = Idle
    /\ x.target = None <=> x.pc \in {"idle", "pick", "stale"}
    /\ x.changed => x.pc = "save"
    /\ x.result # None <=> x.pc \in {"publish", "notify", "edge"}
    /\ x.pc \in {"notify", "edge"} => x.result # "panic"
    /\ x.pc = "notify" => x.result = "changed"
    /\ x.pc = "save" => x.seen # None /\ x.hit # {}
    /\ x.pc = "capture" => x.seen # None
    /\ x.pc \in {"stale", "alarm"} => x.snap \in Loaded /\ x.queue \subseteq DOMAIN x.snap
    /\ x.pc = "alarm" => x.target \in x.queue

Shapes == \A l \in Lanes : Shape(l, lane[l])

\* A state of health, the last event told of it, and what the row went through,
\* that fit.
Agree(s, v, w) ==
    /\ s # "checking"
    /\ s \in Healthy => w.last = "fine"
    /\ s \in Unhealthy => w.last = "bad"
    /\ s = None => w.last = "new"
    /\ v = w.owed

\* How the health of monitor t, s in its row, v as told and w as it was, stands
\* to the lane x at work on it: what was read before the marker is what v has to
\* fit, until the edge makes v fit the row again.
HealthAt(x, t, s, v, w) ==
    /\ x.pc \in {"prior", "probe", "capture"} => Agree(s, v, w)
    /\ x.pc \in {"stale", "alarm"} /\ x.target # t => Agree(s, v, w) /\ s \in Healthy
    /\ x.pc = "alarm" /\ x.target = t => s \in Unhealthy /\ w.last = "bad" /\ w.owed = "bad"
    /\ x.pc \in {"mark", "fetch", "save", "publish"} =>
          Agree(x.prior, v, w) /\ x.result # "panic"
    /\ x.pc \in {"notify", "edge"} =>
          /\ x.result \in Failure => s \in Unhealthy /\ w.last = "bad"
          /\ x.result \notin Failure => s \in Healthy /\ w.last = "fine"
          /\ w.owed = IF Classify(x.prior, x.result) = "same" THEN v
                      ELSE Classify(x.prior, x.result)

\* The changes c recorded so far are no more than the contents published up to
\* the baseline b, and no more dispatches n than changes.
Recorded(b, c, n, p) ==
    /\ \A s \in Selectors :
          /\ b[s] = None => c[s] = 0
          /\ b[s] # None => c[s] <= b[s] /\ b[s] <= p
    /\ n > 0 => \E s \in Selectors : c[s] > 0
    /\ Cardinality(Selectors) = 1 => \A s \in Selectors : n <= c[s]

\* Lane x has recorded a change that it has not dispatched.
Owes(x) == x.changed \/ (x.pc \in {"publish", "notify"} /\ x.result = "changed")

\* How they stand to the lane x at work on the monitor: what it compares with
\* is the baseline still, and what it saw is no older.
CompareAt(x, b, c, n, p) ==
    /\ x.pc = "fetch" => x.base = b
    /\ x.pc = "save" => /\ x.seen <= p
                        /\ \A s \in x.hit : /\ x.base[s] = b[s]
                                            /\ b[s] # None => b[s] <= x.seen
    /\ x.pc = "capture" => /\ x.seen <= p
                           /\ \A s \in Selectors : b[s] # None => b[s] <= x.seen
    /\ Owes(x) => /\ \E s \in Selectors : c[s] > 0
                  /\ Cardinality(Selectors) = 1 => \A s \in Selectors : n < c[s]

\* Of a monitor that no two lanes worked on at once: one lane is at work on it,
\* and its health and its changes stand as they should.
Sole(t) ==
    \A l, m \in Lanes : t \in WorkOf(lane[l]) /\ t \in WorkOf(lane[m]) => l = m

HealthOf(t) ==
    /\ (\A l \in Lanes : t \notin WorkOf(lane[l])) => Agree(state[t], told[t], news[t])
    /\ \A l \in Lanes : t \in WorkOf(lane[l]) =>
          HealthAt(lane[l], t, state[t], told[t], news[t])

ChangesOf(t) ==
    /\ Recorded(base[t], changes[t], notices[t], page[t])
    /\ \A l \in Lanes : t \in WorkOf(lane[l]) =>
          CompareAt(lane[l], base[t], changes[t], notices[t], page[t])

TargetInv(t) ==
    told[t] # "overlapped" =>
       /\ Sole(t)
       /\ told[t] # "cut" => HealthOf(t)
       /\ kind[t] = "content" => ChangesOf(t)

IInv == RowType /\ LaneType /\ Shapes /\ \A t \in Targets : TargetInv(t)

-----------------------------------------------------------------------------
(* The states of a lane.                                                   *)

Results == {"unchanged", "changed", "error", "up", "down", "panic", None}

\* A lane at rest.
LEMMA IdleType ==
    /\ Idle \in LaneState /\ WorkOf(Idle) = {} /\ Idle.pc = "idle" /\ Idle.target = None
    /\ Idle.changed = FALSE /\ Idle.queue = {} /\ Idle.lag = 0 /\ Idle.result = None
    /\ \A l : Shape(l, Idle)
<1>1. /\ Idle.pc = "idle" /\ Idle.target = None /\ Idle.changed = FALSE /\ Idle.queue = {}
      /\ Idle.lag = 0 /\ Idle.result = None
  BY DEF Idle
<1>2. Idle \in LaneState
  BY MonitorAssumption DEF Idle, LaneState, States
<1> QED BY <1>1, <1>2 DEF WorkOf, Shape

\* A lane whose check has a result.
LEMMA ConcludeType ==
    ASSUME NEW l, lane[l] \in LaneState, NEW r \in Results
    PROVE  /\ Conclude(l, r) \in LaneState /\ Conclude(l, r).pc = "publish"
           /\ Conclude(l, r).target = lane[l].target /\ Conclude(l, r).prior = lane[l].prior
           /\ Conclude(l, r).changed = FALSE /\ Conclude(l, r).result = r
BY IdleType DEF Conclude, Idle, LaneState, Results

\* A lane that is done with a check.
LEMMA RestType ==
    ASSUME NEW l, lane[l] \in LaneState
    PROVE  /\ Rest(l) \in LaneState /\ Rest(l).pc \in {"idle", "pick"} /\ Rest(l).target = None
           /\ Rest(l).changed = FALSE /\ WorkOf(Rest(l)) = {} /\ Shape(l, Rest(l))
<1>1. CASE l = "tick"
  <2> DEFINE x == [Idle EXCEPT !.pc = "pick", !.lag = lane[l].lag, !.queue = lane[l].queue]
  <2>1. x \in LaneState /\ x.pc = "pick" /\ x.target = None /\ x.changed = FALSE
        /\ x.result = None
    BY IdleType DEF Idle, LaneState
  <2>2. Rest(l) = x
    BY <1>1 DEF Rest
  <2> HIDE DEF x
  <2> QED BY <2>1, <2>2 DEF WorkOf, Shape
<1>2. CASE l # "tick"
  BY <1>2, IdleType DEF Rest
<1> QED BY <1>1, <1>2

\* Lane l, between two selectors or past the last, is x next.
WalksOn(x, l, s, new) ==
    /\ x \in LaneState /\ x.target = lane[l].target /\ x.prior = lane[l].prior
    /\ \/ /\ lane[l].hit = {s} /\ x.pc = "publish" /\ x.changed = FALSE
          /\ x.result = IF lane[l].changed \/ new THEN "changed" ELSE "unchanged"
       \/ /\ lane[l].hit # {s} /\ x.pc = "save" /\ x.changed = (lane[l].changed \/ new)
          /\ x.hit = lane[l].hit \ {s} /\ x.base = lane[l].base /\ x.seen = lane[l].seen
          /\ x.result = lane[l].result

\* Onward takes the next selector, or concludes.
LEMMA OnwardType ==
    ASSUME NEW l, lane[l] \in LaneState, NEW s, NEW new \in BOOLEAN, lane[l].pc = "save"
    PROVE  WalksOn(Onward(l, s, new), l, s, new)
<1> USE DEF WalksOn
<1>1. CASE lane[l].hit = {s}
  <2> DEFINE r == IF lane[l].changed \/ new THEN "changed" ELSE "unchanged"
  <2>1. r \in Results
    BY DEF Results
  <2>2. Onward(l, s, new) = Conclude(l, r)
    BY <1>1 DEF Onward
  <2> HIDE DEF r
  <2>3. /\ Conclude(l, r) \in LaneState /\ Conclude(l, r).pc = "publish"
        /\ Conclude(l, r).target = lane[l].target /\ Conclude(l, r).prior = lane[l].prior
        /\ Conclude(l, r).changed = FALSE /\ Conclude(l, r).result = r
    BY <2>1, ConcludeType
  <2> QED BY <1>1, <2>2, <2>3 DEF r
<1>2. CASE lane[l].hit # {s}
  <2> DEFINE ch == lane[l].changed \/ new
             x == [lane[l] EXCEPT !.hit = lane[l].hit \ {s}, !.changed = ch]
  <2>1. ch \in BOOLEAN
    OBVIOUS
  <2>2. Onward(l, s, new) = x
    BY <1>2 DEF Onward
  <2> HIDE DEF ch
  <2>3. /\ x \in LaneState /\ x.pc = "save" /\ x.target = lane[l].target /\ x.prior = lane[l].prior
        /\ x.changed = ch /\ x.hit = lane[l].hit \ {s} /\ x.base = lane[l].base
        /\ x.seen = lane[l].seen /\ x.result = lane[l].result
    BY <2>1 DEF LaneState
  <2> HIDE DEF x
  <2> QED BY <1>2, <2>2, <2>3 DEF ch
<1> QED BY <1>1, <1>2

-----------------------------------------------------------------------------
(* How a step of one lane bears on a monitor.                              *)

\* Lane l becomes x, and what the sites are stays.
Becomes(l, x) == lane' = [lane EXCEPT ![l] = x] /\ UNCHANGED site

\* What the rows and the automations say of t stays.
Same(t) ==
    /\ state'[t] = state[t] /\ base'[t] = base[t] /\ changes'[t] = changes[t]
    /\ notices'[t] = notices[t] /\ news'[t] = news[t]

\* What holds of t for a lane x at work on it, or for none.
HealthWith(x, t) ==
    IF t \in WorkOf(x) THEN HealthAt(x, t, state'[t], told'[t], news'[t])
    ELSE Agree(state'[t], told'[t], news'[t])

ChangesWith(x, t) ==
    /\ Recorded(base'[t], changes'[t], notices'[t], page[t])
    /\ t \in WorkOf(x) => CompareAt(x, base'[t], changes'[t], notices'[t], page[t])

\* The other lanes do not move.
LEMMA LaneMoves ==
    ASSUME lane \in [Lanes -> LaneState], NEW l \in Lanes, NEW x, Becomes(l, x)
    PROVE  /\ lane'[l] = x /\ \A m \in Lanes \ {l} : lane'[m] = lane[m]
           /\ page' = page /\ kind' = kind
BY DEF Becomes, site

\* A monitor that lane l neither was nor is at work on, or that it still has to
\* sweep.
LEMMA Far ==
    ASSUME lane \in [Lanes -> LaneState], NEW t \in Targets, TargetInv(t), NEW l \in Lanes, NEW x,
           Becomes(l, x), Same(t), told'[t] = told[t],
           \/ t \notin WorkOf(lane[l]) /\ t \notin WorkOf(x)
           \/ /\ t \in WorkOf(lane[l]) /\ t \in WorkOf(x)
              /\ lane[l].pc \in {"stale", "alarm"} /\ x.pc \in {"stale", "alarm"}
              /\ lane[l].target # t /\ x.target # t /\ (x.changed => lane[l].changed)
    PROVE  TargetInv(t)'
<1>1. /\ page' = page /\ kind' = kind /\ lane'[l] = x
      /\ \A m \in Lanes \ {l} : lane'[m] = lane[m]
  BY LaneMoves
<1>2. \A m \in Lanes : t \in WorkOf(lane'[m]) <=> t \in WorkOf(lane[m])
  BY <1>1
<1> SUFFICES ASSUME told'[t] # "overlapped" PROVE TargetInv(t)'
    BY DEF TargetInv
<1>3. Sole(t)'
  BY <1>2 DEF TargetInv, Sole
<1>4. ASSUME NEW m \in Lanes, NEW s, NEW v, NEW w, HealthAt(lane[m], t, s, v, w),
             t \in WorkOf(lane[m])
      PROVE  HealthAt(lane'[m], t, s, v, w)
  BY <1>1, <1>4 DEF HealthAt
<1>5. ASSUME NEW m \in Lanes, NEW b, NEW c, NEW n, NEW p, CompareAt(lane[m], b, c, n, p),
             t \in WorkOf(lane[m])
      PROVE  CompareAt(lane'[m], b, c, n, p)
  BY <1>1, <1>5 DEF CompareAt, Owes
<1>6. told'[t] # "cut" => HealthOf(t)'
  BY <1>1, <1>2, <1>4 DEF TargetInv, HealthOf, Same
<1>7. kind'[t] = "content" => ChangesOf(t)'
  BY <1>1, <1>2, <1>5 DEF TargetInv, ChangesOf, Same
<1> QED BY <1>3, <1>6, <1>7 DEF TargetInv

\* The monitor lane l is at work on.
LEMMA Near ==
    ASSUME lane \in [Lanes -> LaneState], NEW t \in Targets, TargetInv(t), NEW l \in Lanes, NEW x,
           Becomes(l, x), t \in WorkOf(lane[l]),
           told'[t] # "overlapped" => told[t] # "overlapped",
           told'[t] \notin {"cut", "overlapped"} => HealthWith(x, t),
           told'[t] # "overlapped" /\ kind[t] = "content" => ChangesWith(x, t)
    PROVE  TargetInv(t)'
<1>1. /\ page' = page /\ kind' = kind /\ lane'[l] = x
      /\ \A m \in Lanes \ {l} : lane'[m] = lane[m]
  BY LaneMoves
<1> SUFFICES ASSUME told'[t] # "overlapped" PROVE TargetInv(t)'
    BY DEF TargetInv
<1>2. \A m \in Lanes \ {l} : t \notin WorkOf(lane'[m])
  BY <1>1 DEF TargetInv, Sole
<1>3. Sole(t)'
  BY <1>2 DEF Sole
<1>4. told'[t] # "cut" => HealthOf(t)'
  BY <1>1, <1>2 DEF HealthOf, HealthWith
<1>5. kind'[t] = "content" => ChangesOf(t)'
  BY <1>1, <1>2 DEF ChangesOf, ChangesWith
<1> QED BY <1>3, <1>4, <1>5 DEF TargetInv

\* A monitor that lane l starts to work on.
LEMMA Enter ==
    ASSUME lane \in [Lanes -> LaneState], NEW t \in Targets, TargetInv(t), NEW l \in Lanes, NEW x,
           Becomes(l, x), Same(t), NEW ts, t \in ts, Overlap(l, ts), t \notin WorkOf(lane[l]),
           t \in WorkOf(x),
           Agree(state[t], told[t], news[t]) => HealthAt(x, t, state[t], told[t], news[t]),
           x.pc \notin {"fetch", "save", "capture", "publish", "notify"}, x.changed = FALSE
    PROVE  TargetInv(t)'
<1>1. /\ page' = page /\ kind' = kind /\ lane'[l] = x
      /\ \A m \in Lanes \ {l} : lane'[m] = lane[m]
  BY LaneMoves
<1> SUFFICES ASSUME told'[t] # "overlapped" PROVE TargetInv(t)'
    BY DEF TargetInv
<1>2. told'[t] = told[t] /\ \A m \in Lanes \ {l} : t \notin WorkOf(lane[m])
  BY DEF Overlap, Working, WorkOf
<1>3. \A m \in Lanes : t \notin WorkOf(lane[m])
  BY <1>2
<1>4. \A m \in Lanes \ {l} : t \notin WorkOf(lane'[m])
  BY <1>1, <1>2
<1>5. Sole(t)'
  BY <1>4 DEF Sole
<1>6. told'[t] # "cut" => HealthOf(t)'
  BY <1>1, <1>2, <1>3, <1>4 DEF HealthOf, TargetInv, Same
<1>7. \A b, c, n, p : CompareAt(x, b, c, n, p)
  BY DEF CompareAt, Owes
<1>8. kind'[t] = "content" => ChangesOf(t)'
  BY <1>1, <1>2, <1>4, <1>7 DEF ChangesOf, TargetInv, Same
<1> QED BY <1>5, <1>6, <1>8 DEF TargetInv

-----------------------------------------------------------------------------
(* The steps of a lane.                                                    *)

\* A lane in the middle of a check or a capture works on its target alone.
LEMMA AtWork ==
    ASSUME IInv, NEW l \in Lanes, lane[l].pc \notin {"idle", "pick", "stale", "alarm"}
    PROVE  /\ lane[l] \in LaneState /\ lane[l].target \in Targets
           /\ WorkOf(lane[l]) = {lane[l].target} /\ Shape(l, lane[l])
<1>1. lane[l] \in LaneState /\ Shape(l, lane[l])
  BY DEF IInv, LaneType, Shapes
<1>2. lane[l].target \in Targets
  BY <1>1 DEF Shape, LaneState
<1> QED BY <1>1, <1>2, MonitorAssumption DEF WorkOf

\* A lane that rests or picks works on none.
LEMMA NotAtWork ==
    ASSUME IInv, NEW l \in Lanes, lane[l].pc \in {"idle", "pick"}
    PROVE  /\ lane[l] \in LaneState /\ Shape(l, lane[l]) /\ lane[l].target = None
           /\ WorkOf(lane[l]) = {} /\ lane[l].changed = FALSE /\ lane[l].result = None
<1>1. lane[l] \in LaneState /\ Shape(l, lane[l])
  BY DEF IInv, LaneType, Shapes
<1>2. lane[l].changed \in BOOLEAN
  BY <1>1 DEF LaneState
<1> QED BY <1>1, <1>2 DEF WorkOf, Shape

\* The lanes have their type and shape after the step of one.
LEMMA LaneKept ==
    ASSUME IInv, NEW l \in Lanes, NEW x \in LaneState, Shape(l, x), Becomes(l, x)
    PROVE  LaneType' /\ Shapes'
<1>1. lane' \in [Lanes -> LaneState]
  BY DEF IInv, LaneType, Becomes
<1>2. ASSUME NEW m \in Lanes PROVE Shape(m, lane[m])'
  <2>1. CASE m = l
    <3>1. lane'[m] = x /\ kind' = kind
      BY <2>1, LaneMoves DEF IInv, LaneType
    <3> QED BY <2>1, <3>1 DEF Shape
  <2>2. CASE m # l
    <3>1. lane'[m] = lane[m] /\ kind' = kind
      BY <2>2, LaneMoves DEF IInv, LaneType
    <3> QED BY <3>1 DEF Shape, IInv, Shapes
  <2> QED BY <2>1, <2>2
<1> QED BY <1>1, <1>2 DEF LaneType, Shapes

\* A step of lane l that bears on monitor t alone.
LEMMA OneTarget ==
    ASSUME IInv, NEW l \in Lanes, NEW x \in LaneState, Shape(l, x), Becomes(l, x), NEW t \in Targets,
           WorkOf(lane[l]) \subseteq {t}, WorkOf(x) \subseteq {t},
           \A u \in Targets \ {t} : Same(u) /\ told'[u] = told[u],
           TargetInv(t)', RowType'
    PROVE  IInv'
<1>1. LaneType' /\ Shapes'
  BY LaneKept
<1>2. ASSUME NEW u \in Targets PROVE TargetInv(u)'
  BY Far DEF IInv, LaneType
<1> QED BY <1>1, <1>2 DEF IInv

\* A write that is refused is a fault; it cuts the check of the lane's target.
LEMMA WroteIs ==
    ASSUME RowType, NEW t \in Targets, NEW ok \in Writes, Wrote(t, ok)
    PROVE  /\ ok \in BOOLEAN /\ faults' \in 0..MaxFaults
           /\ told' \in [Targets -> {"none", "bad", "fine", "cut", "overlapped"}]
           /\ \A u \in Targets \ {t} : told'[u] = told[u]
           /\ told'[t] # "overlapped" => told[t] # "overlapped"
           /\ told'[t] \notin {"cut", "overlapped"} =>
                ok /\ told'[t] = told[t]
<1>1. CASE ok = TRUE
  <2>1. told' = [u \in Targets |-> told[u]] /\ faults' = faults
    BY <1>1 DEF Wrote, Cut
  <2> QED BY <1>1, <2>1 DEF RowType
<1>2. CASE ok # TRUE
  <2>1. ok = FALSE /\ faults < MaxFaults
    BY <1>2 DEF Writes
  <2>2. faults < MaxFaults
    BY <2>1
  <2>3. /\ told' = [u \in Targets |-> IF u \in {t} /\ told[u] # "overlapped"
                                      THEN "cut" ELSE told[u]]
        /\ faults' = faults + 1
    BY <2>1 DEF Wrote, Cut
  <2>4. faults' \in 0..MaxFaults
    BY <2>2, <2>3, MonitorAssumption DEF RowType
  <2>5. /\ told' \in [Targets -> {"none", "bad", "fine", "cut", "overlapped"}]
        /\ \A u \in Targets \ {t} : told'[u] = told[u]
        /\ told'[t] # "overlapped" => told[t] # "overlapped"
        /\ told'[t] \in {"cut", "overlapped"}
    BY <2>3 DEF RowType
  <2> QED BY <2>1, <2>4, <2>5
<1> QED BY <1>1, <1>2

\* What the row shows.
LEMMA ShowsIs ==
    ASSUME RowType, NEW t \in Targets, NEW h \in {"bad", "fine"}, NEW ok \in BOOLEAN, Shows(t, h, ok)
    PROVE  /\ news' \in [Targets -> News] /\ \A u \in Targets \ {t} : news'[u] = news[u]
           /\ ok => /\ news'[t].last = h
                    /\ news'[t].owed = IF news[t].last \in {"new", h} THEN news[t].owed ELSE h
<1> DEFINE o == IF news[t].last \in {"new", h} THEN news[t].owed ELSE h
<1>1. news \in [Targets -> News] /\ news' = IF ok THEN [news EXCEPT ![t] = [last |-> h, owed |-> o]]
                                             ELSE news
  BY DEF RowType, Shows
<1>2. o \in {"none", "bad", "fine"}
  BY <1>1 DEF News
<1> HIDE DEF o
<1>3. [last |-> h, owed |-> o] \in News
  BY <1>2 DEF News
<1>4. news' \in [Targets -> News] /\ \A u \in Targets \ {t} : news'[u] = news[u]
  BY <1>1, <1>3
<1>5. ok => news'[t] = [last |-> h, owed |-> o]
  BY <1>1
<1> QED BY <1>4, <1>5 DEF o

\* Two lanes on one monitor: nothing more is said of it.
LEMMA OverlapIs ==
    ASSUME RowType, NEW l, NEW ts, Overlap(l, ts)
    PROVE  /\ told' \in [Targets -> {"none", "bad", "fine", "cut", "overlapped"}]
           /\ \A u \in Targets \ ts : told'[u] = told[u]
BY DEF RowType, Overlap

\* run_due_checks starts.
LEMMA TickStartStep == IInv /\ TickStart => IInv'
<1> SUFFICES ASSUME IInv, TickStart PROVE IInv'
    OBVIOUS
<1> DEFINE x == [Idle EXCEPT !.pc = "pick", !.queue = {t \in Targets : due[t] = 0}]
<1>1. "tick" \in Lanes /\ lane["tick"].pc = "idle" /\ WorkOf(lane["tick"]) = {}
  BY NotAtWork DEF TickStart, Lanes
<1>2. /\ Becomes("tick", x) /\ UNCHANGED <<told, state, news, base, changes, notices>> /\ RowType'
  BY DEF TickStart, Becomes, row, site, RowType, IInv
<1>3. x \in LaneState /\ x.pc = "pick" /\ x.target = None /\ x.changed = FALSE /\ x.result = None
  BY IdleType DEF Idle, LaneState
<1> HIDE DEF x
<1>4. Shape("tick", x) /\ WorkOf(x) = {}
  BY <1>3 DEF Shape, WorkOf
<1>5. LaneType' /\ Shapes'
  BY <1>1, <1>2, <1>3, <1>4, LaneKept
<1>6. ASSUME NEW u \in Targets PROVE TargetInv(u)'
  BY <1>1, <1>2, <1>4, Far DEF IInv, LaneType, Same
<1> QED BY <1>2, <1>5, <1>6 DEF IInv

\* A lane starts a check or a capture of t.
LEMMA StartsOn ==
    ASSUME IInv, NEW l \in Lanes, NEW t \in Targets, lane[l].pc \in {"idle", "pick"},
           NEW x \in LaneState, x.pc \in {"prior", "probe"}, x.target = t,
           x.changed = FALSE, x.result = None, Becomes(l, x), Overlap(l, {t}),
           UNCHANGED <<row, due, base, changes, notices, faults>>
    PROVE  IInv'
<1>1. WorkOf(lane[l]) = {}
  BY NotAtWork
<1>2. WorkOf(x) = {t} /\ Shape(l, x)
  BY MonitorAssumption DEF WorkOf, Shape
<1>3. RowType'
  BY OverlapIs DEF RowType, IInv, Becomes, site, row
<1>4. \A u \in Targets : Same(u)
  BY DEF Same, row
<1>5. \A u \in Targets \ {t} : told'[u] = told[u]
  BY OverlapIs DEF IInv
<1>6. Agree(state[t], told[t], news[t]) => HealthAt(x, t, state[t], told[t], news[t])
  BY DEF HealthAt
<1>7. TargetInv(t)'
  BY <1>1, <1>2, <1>4, <1>6, Enter DEF IInv, LaneType
<1> QED BY <1>1, <1>2, <1>3, <1>4, <1>5, <1>7, OneTarget

\* The next due monitor.
LEMMA PickStep == IInv /\ Pick => IInv'
<1> SUFFICES ASSUME IInv, Pick PROVE IInv'
    OBVIOUS
<1>0. "tick" \in Lanes /\ lane["tick"].pc = "pick"
  BY DEF Pick, Lanes
<1>1. /\ lane["tick"] \in LaneState /\ lane["tick"].target = None
      /\ WorkOf(lane["tick"]) = {} /\ lane["tick"].changed = FALSE /\ lane["tick"].result = None
  BY <1>0, NotAtWork
<1>2. PICK t \in lane["tick"].queue :
        \/ /\ lane' = [lane EXCEPT !["tick"] = [lane["tick"] EXCEPT !.pc = "prior", !.target = t,
                                                    !.queue = lane["tick"].queue \ {t}]]
           /\ Overlap("tick", {t})
        \/ /\ lane' = [lane EXCEPT !["tick"] = [lane["tick"] EXCEPT !.queue = lane["tick"].queue \ {t}]]
           /\ UNCHANGED told
  BY <1>0 DEF Pick, IInv, LaneType
<1>3. t \in Targets /\ UNCHANGED <<site, row, due, base, changes, notices, faults>>
  BY <1>1 DEF LaneState, Pick
<1> DEFINE x == [lane["tick"] EXCEPT !.pc = "prior", !.target = t, !.queue = lane["tick"].queue \ {t}]
           y == [lane["tick"] EXCEPT !.queue = lane["tick"].queue \ {t}]
<1>4. x \in LaneState /\ x.pc = "prior" /\ x.target = t /\ x.changed = FALSE /\ x.result = None
  BY <1>1, <1>3 DEF LaneState
<1>5. y \in LaneState /\ y.pc = "pick" /\ y.target = None /\ y.changed = FALSE /\ y.result = None
  BY <1>0, <1>1, <1>3 DEF LaneState
<1> HIDE DEF x, y
<1>6. CASE lane' = [lane EXCEPT !["tick"] = x] /\ Overlap("tick", {t})
  BY <1>0, <1>3, <1>4, <1>6, StartsOn DEF Becomes
<1>7. CASE lane' = [lane EXCEPT !["tick"] = y] /\ UNCHANGED told
  <2>1. Becomes("tick", y) /\ \A u \in Targets : Same(u)
    BY <1>3, <1>7 DEF Becomes, Same, row
  <2>2. RowType'
    BY <1>3, <1>7 DEF RowType, IInv, site, row
  <2>3. Shape("tick", y) /\ WorkOf(y) = {}
    BY <1>5 DEF Shape, WorkOf
  <2>4. LaneType' /\ Shapes'
    BY <1>0, <1>5, <2>1, <2>3, LaneKept
  <2>5. ASSUME NEW u \in Targets PROVE TargetInv(u)'
    BY <1>0, <1>1, <1>7, <2>1, <2>3, Far DEF IInv, LaneType
  <2> QED BY <2>2, <2>4, <2>5 DEF IInv
<1> QED BY <1>2, <1>6, <1>7 DEF x, y

\* The requests.
LEMMA RequestStep ==
    ASSUME IInv, NEW t \in Targets, RequestCheck(t) \/ RequestCapture(t)
    PROVE  IInv'
<1>0. "request" \in Lanes /\ lane["request"].pc = "idle"
  BY DEF RequestCheck, RequestCapture, Lanes
<1>1. /\ lane["request"] \in LaneState /\ lane["request"].changed = FALSE
      /\ lane["request"].result = None
  BY <1>0, NotAtWork
<1>2. PICK pc \in {"prior", "probe"} :
         lane' = [lane EXCEPT !["request"] = [lane["request"] EXCEPT !.pc = pc, !.target = t]]
  BY <1>0 DEF RequestCheck, RequestCapture, IInv, LaneType
<1> DEFINE x == [lane["request"] EXCEPT !.pc = pc, !.target = t]
<1>3. x \in LaneState /\ x.pc = pc /\ x.target = t /\ x.changed = FALSE /\ x.result = None
  BY <1>1 DEF LaneState
<1> HIDE DEF x
<1>4. Becomes("request", x) /\ Overlap("request", {t})
      /\ UNCHANGED <<row, due, base, changes, notices, faults>>
  BY <1>2 DEF Becomes, RequestCheck, RequestCapture, x
<1> QED BY <1>0, <1>3, <1>4, StartsOn

-----------------------------------------------------------------------------
(* The steps of a check.                                                   *)

\* check_one reads the state before the marker.
LEMMA ReadPriorStep ==
    ASSUME IInv, NEW l \in Lanes, ReadPrior(l)
    PROVE  IInv'
<1> DEFINE t == lane[l].target
           x == [lane[l] EXCEPT !.pc = "mark", !.prior = state[t]]
<1>1. lane[l].pc = "prior" /\ UNCHANGED <<site, row, due, base, changes, told, notices, faults>>
  BY DEF ReadPrior
<1>2. lane[l] \in LaneState /\ t \in Targets /\ WorkOf(lane[l]) = {t} /\ Shape(l, lane[l])
  BY <1>1, AtWork
<1>3. Becomes(l, x)
  BY <1>1 DEF ReadPrior, Becomes, IInv, LaneType
<1>4. state[t] \in States
  BY <1>2 DEF IInv, RowType
<1>5. /\ x \in LaneState /\ x.pc = "mark" /\ x.target = t /\ x.prior = state[t]
      /\ x.changed = lane[l].changed /\ x.result = lane[l].result
  BY <1>2, <1>4 DEF LaneState
<1> HIDE DEF x
<1>6. x.changed = FALSE /\ x.result = None
  BY <1>1, <1>2, <1>5 DEF Shape, LaneState
<1>7. Shape(l, x) /\ WorkOf(x) = {t}
  BY <1>2, <1>5, <1>6, MonitorAssumption DEF Shape, WorkOf
<1>8. RowType'
  BY <1>1 DEF RowType, IInv, site, row
<1>9. TargetInv(t) /\ (\A u \in Targets : Same(u) /\ told'[u] = told[u])
  BY <1>1, <1>2 DEF IInv, Same, row
<1> HIDE DEF t
<1>a. PICK u \in Targets : u = t
  BY <1>2
<1>b. told'[u] \notin {"cut", "overlapped"} => HealthWith(x, u)
  BY <1>1, <1>2, <1>5, <1>6, <1>7, <1>9, <1>a, MonitorAssumption
     DEF TargetInv, HealthOf, HealthWith, HealthAt, Same
<1>c. told'[u] # "overlapped" /\ kind[u] = "content" => ChangesWith(x, u)
  BY <1>5, <1>6, <1>7, <1>9, <1>a DEF TargetInv, ChangesOf, ChangesWith, CompareAt, Owes, Same
<1>d. TargetInv(u)'
  BY <1>2, <1>3, <1>9, <1>a, <1>b, <1>c, Near DEF IInv, LaneType
<1> QED BY <1>2, <1>3, <1>5, <1>7, <1>8, <1>9, <1>a, <1>d, OneTarget

\* The marker.
LEMMA MarkCheckingStep ==
    ASSUME IInv, NEW l \in Lanes, MarkChecking(l)
    PROVE  IInv'
<1> DEFINE t == lane[l].target
           b == IF t \in Content THEN base[t] ELSE None
           x == [lane[l] EXCEPT !.pc = "fetch", !.base = b]
<1>1. lane[l].pc = "mark" /\ UNCHANGED <<site, isUp, age, news, base, changes, notices>>
  BY DEF MarkChecking
<1>2. lane[l] \in LaneState /\ t \in Targets /\ WorkOf(lane[l]) = {t} /\ Shape(l, lane[l])
  BY <1>1, AtWork
<1>3. PICK ok \in Writes :
        /\ due' = IF ok /\ lane[l].lag <= Cadence
                  THEN [due EXCEPT ![t] = Cadence - lane[l].lag] ELSE due
        /\ state' = IF ok THEN [state EXCEPT ![t] = "checking"] ELSE state
        /\ Wrote(t, ok)
  BY DEF MarkChecking
<1>4. Becomes(l, x)
  BY <1>1 DEF MarkChecking, Becomes, IInv, LaneType
<1>5. b \in Baseline \cup {None}
  BY <1>2 DEF IInv, RowType
<1> HIDE DEF b
<1>6. /\ x \in LaneState /\ x.pc = "fetch" /\ x.target = t /\ x.prior = lane[l].prior
      /\ x.changed = lane[l].changed /\ x.result = lane[l].result /\ x.base = b
  BY <1>2, <1>5 DEF LaneState
<1> HIDE DEF x
<1>7. x.changed = FALSE /\ x.result = None
  BY <1>1, <1>2, <1>6 DEF Shape, LaneState
<1>8. Shape(l, x) /\ WorkOf(x) = {t}
  BY <1>2, <1>6, <1>7, MonitorAssumption DEF Shape, WorkOf
<1>9. /\ faults' \in 0..MaxFaults /\ told' \in [Targets -> {"none", "bad", "fine", "cut", "overlapped"}]
      /\ \A u \in Targets \ {t} : told'[u] = told[u]
      /\ told'[t] # "overlapped" => told[t] # "overlapped"
      /\ told'[t] \notin {"cut", "overlapped"} => told'[t] = told[t]
  BY <1>2, <1>3, WroteIs DEF IInv
<1>10. due' \in [Targets -> 0..Cadence]
  <2>1. lane[l].lag \in Nat /\ due \in [Targets -> 0..Cadence] /\ Cadence \in Nat
    BY <1>2, MonitorAssumption DEF LaneState, IInv, RowType
  <2> QED BY <1>2, <1>3, <2>1
<1>11. state' \in [Targets -> States] /\ \A u \in Targets \ {t} : state'[u] = state[u]
  BY <1>2, <1>3 DEF IInv, RowType, States
<1>12. RowType'
  BY <1>1, <1>9, <1>10, <1>11 DEF RowType, IInv, site
<1>13. TargetInv(t) /\ (\A u \in Targets \ {t} : Same(u) /\ told'[u] = told[u])
  BY <1>1, <1>2, <1>9, <1>11 DEF IInv, Same
<1>14. /\ base' = base /\ changes' = changes /\ notices' = notices /\ news' = news
       /\ kind[t] = "content" => x.base = base[t]
  BY <1>1, <1>2, <1>6 DEF Content, b
<1> HIDE DEF t
<1>a. PICK u \in Targets : u = t
  BY <1>2
<1>b. told'[u] \notin {"cut", "overlapped"} => HealthWith(x, u)
  BY <1>1, <1>2, <1>6, <1>7, <1>8, <1>9, <1>13, <1>14, <1>a, MonitorAssumption
     DEF TargetInv, HealthOf, HealthWith, HealthAt
<1>c. told'[u] # "overlapped" /\ kind[u] = "content" => ChangesWith(x, u)
  BY <1>6, <1>7, <1>8, <1>9, <1>13, <1>14, <1>a
     DEF TargetInv, ChangesOf, ChangesWith, CompareAt, Owes
<1>d. TargetInv(u)'
  BY <1>2, <1>4, <1>9, <1>13, <1>a, <1>b, <1>c, Near DEF IInv, LaneType
<1> QED BY <1>2, <1>4, <1>6, <1>8, <1>12, <1>13, <1>a, <1>d, OneTarget

\* What a checker reports: some selectors, or a result.
LEMMA ReportsAre ==
    ASSUME NEW t, NEW r \in Reports(t) \cup BadReports(t)
    PROVE  /\ r.hit \in SUBSET Selectors /\ r.result \in Results
           /\ r.hit = {} => r.result # None
           /\ r.hit # {} => r.result = None
<1> DEFINE ok(h, s) == h \in SUBSET Selectors /\ s \in Results /\ (h = {} <=> s # None)
<1>0. /\ ok(Selectors, None) /\ ok({}, "up") /\ ok({}, "error") /\ ok({}, "down") /\ ok({}, "panic")
      /\ \A h \in SUBSET Selectors : ok(h, IF h = {} THEN "error" ELSE None)
  BY MonitorAssumption DEF Results
<1> HIDE DEF ok
<1>1. CASE r \in Reports(t)
  <2>1. \/ r = [hit |-> Selectors, result |-> None] \/ r = [hit |-> {}, result |-> "up"]
        \/ r = [hit |-> {}, result |-> "error"] \/ r = [hit |-> {}, result |-> "down"]
    BY <1>1 DEF Reports
  <2> QED BY <1>0, <2>1 DEF ok
<1>2. CASE r \in BadReports(t)
  <2>1. \/ r = [hit |-> {}, result |-> "panic"]
        \/ \E h \in SUBSET Selectors : r = [hit |-> h, result |-> IF h = {} THEN "error" ELSE None]
    BY <1>2 DEF BadReports
  <2> QED BY <1>0, <2>1 DEF ok
<1> QED BY <1>1, <1>2

\* check_target.
LEMMA FetchStep ==
    ASSUME IInv, NEW l \in Lanes, Fetch(l)
    PROVE  IInv'
<1> DEFINE t == lane[l].target
<1>1. lane[l].pc = "fetch" /\ UNCHANGED <<site, row, due, base, changes, notices>>
  BY DEF Fetch
<1>2. lane[l] \in LaneState /\ t \in Targets /\ WorkOf(lane[l]) = {t} /\ Shape(l, lane[l])
  BY <1>1, AtWork
<1>3. PICK r \in Reports(t) \cup BadReports(t) :
        /\ r \notin Reports(t) => faults < MaxFaults
        /\ faults' = IF r \in Reports(t) THEN faults ELSE faults + 1
        /\ Cut(IF r.result = "panic" THEN {t} ELSE {})
        /\ lane' = [lane EXCEPT ![l] =
                      IF r.hit = {} THEN Conclude(l, r.result)
                      ELSE [lane[l] EXCEPT !.pc = "save", !.hit = r.hit, !.seen = page[t]]]
  BY DEF Fetch, IInv, LaneType
<1>4. /\ r.hit \in SUBSET Selectors /\ r.result \in Results /\ (r.hit = {} => r.result # None)
      /\ (r.hit # {} => r.result = None)
  BY ReportsAre
<1>5. page[t] \in Contents /\ page[t] \in Nat /\ page[t] # None
  BY <1>2, MonitorAssumption DEF IInv, RowType, Contents
<1> DEFINE x == IF r.hit = {} THEN Conclude(l, r.result)
                ELSE [lane[l] EXCEPT !.pc = "save", !.hit = r.hit, !.seen = page[t]]
<1>6. Becomes(l, x)
  BY <1>1, <1>3 DEF Becomes
<1>7. lane[l].changed = FALSE /\ lane[l].result = None
  BY <1>1, <1>2 DEF Shape, LaneState
<1>8. /\ x \in LaneState /\ x.target = t /\ x.prior = lane[l].prior /\ x.changed = FALSE
      /\ \/ r.hit = {} /\ x.pc = "publish" /\ x.result = r.result
         \/ /\ r.hit # {} /\ x.pc = "save" /\ x.result = None /\ x.hit = r.hit
            /\ x.seen = page[t] /\ x.base = lane[l].base
  <2>1. CASE r.hit = {}
    BY <1>2, <1>4, <2>1, ConcludeType
  <2>2. CASE r.hit # {}
    <3> DEFINE y == [lane[l] EXCEPT !.pc = "save", !.hit = r.hit, !.seen = page[t]]
    <3>1. /\ y \in LaneState /\ y.pc = "save" /\ y.target = t /\ y.prior = lane[l].prior
          /\ y.changed = lane[l].changed /\ y.result = lane[l].result /\ y.hit = r.hit
          /\ y.seen = page[t] /\ y.base = lane[l].base
      BY <1>2, <1>4, <1>5 DEF LaneState
    <3>2. x = y
      BY <2>2
    <3> HIDE DEF x, y
    <3> QED BY <1>7, <2>2, <3>1, <3>2
  <2> QED BY <2>1, <2>2
<1> HIDE DEF x
<1>9. Shape(l, x) /\ WorkOf(x) = {t}
  BY <1>2, <1>4, <1>5, <1>8, MonitorAssumption DEF Shape, WorkOf
<1>10. faults' \in 0..MaxFaults
  BY <1>3, MonitorAssumption DEF IInv, RowType
<1>11. /\ told' \in [Targets -> {"none", "bad", "fine", "cut", "overlapped"}]
       /\ \A u \in Targets \ {t} : told'[u] = told[u]
       /\ told'[t] # "overlapped" => told[t] # "overlapped"
       /\ told'[t] \notin {"cut", "overlapped"} => told'[t] = told[t] /\ r.result # "panic"
  BY <1>2, <1>3 DEF IInv, RowType, Cut
<1>12. RowType'
  BY <1>1, <1>10, <1>11 DEF RowType, IInv, site, row
<1>13. TargetInv(t) /\ (\A u \in Targets : Same(u)) /\ (\A u \in Targets \ {t} : told'[u] = told[u])
  BY <1>1, <1>2, <1>11 DEF IInv, Same, row
<1> HIDE DEF t
<1>a. PICK u \in Targets : u = t
  BY <1>2
<1>b. told'[u] \notin {"cut", "overlapped"} => HealthWith(x, u)
  BY <1>1, <1>2, <1>8, <1>9, <1>11, <1>13, <1>a, MonitorAssumption
     DEF TargetInv, HealthOf, HealthWith, HealthAt, Same
<1>c. told'[u] # "overlapped" /\ kind[u] = "content" => ChangesWith(x, u)
  <2> SUFFICES ASSUME told'[u] # "overlapped", kind[u] = "content" PROVE ChangesWith(x, u)
      OBVIOUS
  <2>1. /\ Recorded(base[u], changes[u], notices[u], page[u])
        /\ lane[l].base = base[u]
    BY <1>1, <1>2, <1>11, <1>13, <1>a DEF TargetInv, ChangesOf, CompareAt
  <2>2. r.result # "changed"
    <3>1. CASE r \in Reports(t)
      BY <3>1, MonitorAssumption DEF Reports
    <3>2. CASE r \in BadReports(t)
      BY <3>2, MonitorAssumption DEF BadReports
    <3> QED BY <3>1, <3>2
  <2>3. ~Owes(x)
    BY <1>8, <2>2 DEF Owes
  <2>4. CompareAt(x, base[u], changes[u], notices[u], page[u])
    <3>1. \A s \in Selectors : base[u][s] # None => base[u][s] <= page[u]
      BY <2>1 DEF Recorded
    <3> QED BY <1>4, <1>5, <1>8, <2>1, <2>3, <3>1, <1>a DEF CompareAt
  <2> QED BY <1>13, <2>1, <2>4 DEF ChangesWith, Same
<1>d. TargetInv(u)'
  BY <1>2, <1>6, <1>11, <1>13, <1>a, <1>b, <1>c, Near DEF IInv, LaneType
<1> QED BY <1>2, <1>6, <1>8, <1>9, <1>12, <1>13, <1>a, <1>d, OneTarget

\* finalize_content writes the state of a selector.
LEMMA SaveStep ==
    ASSUME IInv, NEW l \in Lanes, NEW s \in Selectors, Save(l, s)
    PROVE  IInv'
<1> DEFINE t == lane[l].target
           b == lane[l].base[s]
           new == b # None /\ b # lane[l].seen
<1>1. lane[l].pc = "save" /\ s \in lane[l].hit /\ UNCHANGED <<site, row, due, notices>>
  BY DEF Save
<1>2. lane[l] \in LaneState /\ t \in Targets /\ WorkOf(lane[l]) = {t} /\ Shape(l, lane[l])
  BY <1>1, AtWork
<1>3. PICK ok \in Writes :
        /\ base' = IF ok /\ b # lane[l].seen
                   THEN [base EXCEPT ![t] = [base[t] EXCEPT ![s] = lane[l].seen]] ELSE base
        /\ changes' = IF ok /\ new
                      THEN [changes EXCEPT ![t] = [changes[t] EXCEPT ![s] = changes[t][s] + 1]]
                      ELSE changes
        /\ lane' = [lane EXCEPT ![l] = Onward(l, s, ok /\ new)]
        /\ Wrote(t, ok)
  <2>1. base \in [Targets -> Baseline] /\ changes \in [Targets -> [Selectors -> Nat]]
    BY DEF IInv, RowType
  <2> QED BY <1>2, <2>1 DEF Save, Baseline
<1>4. /\ faults' \in 0..MaxFaults /\ told' \in [Targets -> {"none", "bad", "fine", "cut", "overlapped"}]
      /\ \A u \in Targets \ {t} : told'[u] = told[u]
      /\ told'[t] # "overlapped" => told[t] # "overlapped"
      /\ told'[t] \notin {"cut", "overlapped"} => told'[t] = told[t]
  BY <1>2, <1>3, WroteIs DEF IInv
<1>5. lane[l].seen \in Contents /\ lane[l].seen \in Nat /\ lane[l].seen # None
  BY <1>1, <1>2, MonitorAssumption DEF Shape, LaneState, Contents
<1> DEFINE did == ok /\ new
           x == Onward(l, s, did)
<1>6. did \in BOOLEAN /\ Becomes(l, x)
  BY <1>1, <1>3 DEF Becomes
<1>7. did <=> ok = TRUE /\ new
  <2>1. ok \in BOOLEAN
    BY <1>2, <1>3, WroteIs DEF IInv
  <2> QED BY <2>1
<1> HIDE DEF did
<1>w. WalksOn(x, l, s, did)
  BY <1>1, <1>2, <1>6, OnwardType
<1> HIDE DEF x
<1>8. /\ x \in LaneState /\ x.target = lane[l].target /\ x.prior = lane[l].prior
      /\ \/ /\ lane[l].hit = {s} /\ x.pc = "publish" /\ x.changed = FALSE
            /\ x.result = IF lane[l].changed \/ did THEN "changed" ELSE "unchanged"
         \/ /\ lane[l].hit # {s} /\ x.pc = "save" /\ x.changed = (lane[l].changed \/ did)
            /\ x.hit = lane[l].hit \ {s} /\ x.base = lane[l].base /\ x.seen = lane[l].seen
            /\ x.result = lane[l].result
  BY <1>w DEF WalksOn
<1>9. Owes(x) <=> lane[l].changed \/ did
  BY <1>8 DEF Owes
<1>10. lane[l].result = None
  BY <1>1, <1>2 DEF Shape
<1>11. Shape(l, x) /\ WorkOf(x) = {t}
  <2>1. CASE x.pc = "publish"
    BY <1>2, <1>8, <2>1, MonitorAssumption DEF Shape, WorkOf
  <2>2. CASE x.pc = "save"
    BY <1>1, <1>2, <1>5, <1>8, <1>10, <2>2, MonitorAssumption DEF Shape, WorkOf
  <2> QED BY <1>8, <2>1, <2>2
<1>12. /\ base' \in [Targets -> Baseline] /\ changes' \in [Targets -> [Selectors -> Nat]]
       /\ \A u \in Targets \ {t} : base'[u] = base[u] /\ changes'[u] = changes[u]
  <2>1. base \in [Targets -> Baseline] /\ changes \in [Targets -> [Selectors -> Nat]]
    BY DEF IInv, RowType
  <2>2. [base[t] EXCEPT ![s] = lane[l].seen] \in Baseline
    BY <1>2, <1>5, <2>1 DEF Baseline
  <2>3. [changes[t] EXCEPT ![s] = changes[t][s] + 1] \in [Selectors -> Nat]
    BY <1>2, <2>1
  <2> QED BY <1>2, <1>3, <2>1, <2>2, <2>3
<1>13. RowType'
  BY <1>1, <1>4, <1>12 DEF RowType, IInv, site, row
<1>14. /\ TargetInv(t) /\ (\A u \in Targets \ {t} : Same(u))
       /\ state' = state /\ notices' = notices /\ news' = news
  BY <1>1, <1>2, <1>12 DEF IInv, Same, row
<1>15. /\ \/ base'[t] = base[t] /\ (did => b = lane[l].seen)
          \/ b # lane[l].seen /\ base'[t] = [base[t] EXCEPT ![s] = lane[l].seen]
       /\ \/ did /\ new /\ changes'[t] = [changes[t] EXCEPT ![s] = changes[t][s] + 1]
                 /\ base'[t] = [base[t] EXCEPT ![s] = lane[l].seen]
          \/ ~did /\ changes'[t] = changes[t]
  <2>1. base \in [Targets -> Baseline] /\ changes \in [Targets -> [Selectors -> Nat]]
    BY DEF IInv, RowType
  <2> QED BY <1>2, <1>3, <1>7, <2>1
<1>16. /\ base[t] \in [Selectors -> Contents \cup {None}] /\ changes[t] \in [Selectors -> Nat]
       /\ notices[t] \in Nat /\ page[t] \in Nat /\ lane[l].hit \subseteq Selectors
  BY <1>2 DEF IInv, RowType, Baseline, Contents, LaneState
<1> HIDE DEF t
<1>a. PICK u \in Targets : u = t
  BY <1>2
<1>b. told'[u] \notin {"cut", "overlapped"} => HealthWith(x, u)
  BY <1>1, <1>2, <1>4, <1>8, <1>11, <1>14, <1>a, <1>10, MonitorAssumption
     DEF TargetInv, HealthOf, HealthWith, HealthAt
<1>c. ASSUME told'[u] # "overlapped", kind[u] = "content" PROVE ChangesWith(x, u)
  <2> DEFINE B == base[u]
             C == changes[u]
             B2 == base'[u]
             C2 == changes'[u]
             n == notices[u]
             p == page[u]
             seen == lane[l].seen
  <2>1. Recorded(B, C, n, p) /\ CompareAt(lane[l], B, C, n, p)
    BY <1>2, <1>4, <1>14, <1>a, <1>c DEF TargetInv, ChangesOf
  <2>2. /\ seen <= p /\ \A q \in lane[l].hit : B[q] # None => B[q] <= seen
        /\ b = B[s]
    BY <1>1, <2>1 DEF CompareAt
  <2>3. /\ B \in [Selectors -> Contents \cup {None}] /\ C \in [Selectors -> Nat]
        /\ n \in Nat /\ p \in Nat /\ lane[l].hit \subseteq Selectors
    BY <1>16, <1>a
  <2>4. /\ B2 = B \/ B2 = [B EXCEPT ![s] = seen]
        /\ \/ did /\ B[s] # None /\ B[s] # seen /\ C2 = [C EXCEPT ![s] = C[s] + 1]
                  /\ B2 = [B EXCEPT ![s] = seen]
           \/ ~did /\ C2 = C
    BY <1>15, <1>a, <2>2
  <2>5. notices'[u] = n
    BY <1>14
  <2> HIDE DEF B, C, B2, C2, n, p, b, new
  <2>6. \A q \in Selectors : B[q] # None => B[q] \in Nat
    BY <2>3 DEF Contents
  <2>7. \A q \in Selectors : C[q] <= C2[q] /\ C2[q] \in Nat
    BY <2>3, <2>4
  <2>8. ASSUME NEW q \in Selectors
        PROVE  /\ B2[q] = None => C2[q] = 0
               /\ B2[q] # None => C2[q] <= B2[q] /\ B2[q] <= p
    <3>1. /\ B[q] = None => C[q] = 0
          /\ B[q] # None => C[q] <= B[q] /\ B[q] <= p
      BY <2>1 DEF Recorded
    <3>2. CASE q # s
      BY <2>3, <2>4, <3>1, <3>2
    <3>3. CASE q = s
      <4>1. B[s] # None => B[s] <= seen
        BY <1>1, <2>2
      <4>2. CASE did
        BY <1>5, <2>2, <2>3, <2>4, <2>6, <3>1, <3>3, <4>1, <4>2
      <4>3. CASE ~did
        BY <1>5, <2>2, <2>3, <2>4, <2>6, <3>1, <3>3, <4>1, <4>3
      <4> QED BY <4>2, <4>3
    <3> QED BY <3>2, <3>3
  <2>9. n > 0 => \E q \in Selectors : C2[q] > 0
    BY <2>1, <2>3, <2>7 DEF Recorded
  <2>10. Cardinality(Selectors) = 1 => \A q \in Selectors : n <= C2[q]
    BY <2>1, <2>3, <2>7 DEF Recorded
  <2>11. Recorded(B2, C2, n, p)
    BY <2>8, <2>9, <2>10 DEF Recorded
  <2>12. Owes(x) => /\ \E q \in Selectors : C2[q] > 0
                    /\ Cardinality(Selectors) = 1 => \A q \in Selectors : n < C2[q]
    <3>1. CASE lane[l].changed
      <4>1. /\ \E q \in Selectors : C[q] > 0
            /\ Cardinality(Selectors) = 1 => \A q \in Selectors : n < C[q]
        BY <2>1, <3>1 DEF CompareAt, Owes
      <4> QED BY <2>3, <2>7, <4>1
    <3>2. CASE did
      <4>1. C2[s] = C[s] + 1
        BY <2>3, <2>4, <3>2
      <4>2. C2[s] > 0
        BY <2>3, <4>1
      <4>3. ASSUME Cardinality(Selectors) = 1, NEW q \in Selectors PROVE n < C2[q]
        <5>1. q = s
          BY <4>3, FS_Singleton, MonitorAssumption
        <5>2. n <= C[s]
          BY <2>1, <4>3 DEF Recorded
        <5> QED BY <2>3, <4>1, <5>1, <5>2
      <4> QED BY <4>2, <4>3
    <3> QED BY <1>9, <3>1, <3>2
  <2>13. x.pc = "save" => /\ x.seen <= p
                          /\ \A q \in x.hit : x.base[q] = B2[q] /\ (B2[q] # None => B2[q] <= x.seen)
    <3> SUFFICES ASSUME x.pc = "save", NEW q \in x.hit
                 PROVE  x.base[q] = B2[q] /\ (B2[q] # None => B2[q] <= x.seen)
        BY <1>8, <2>2
    <3>1. x.seen = seen /\ x.base = lane[l].base /\ q \in lane[l].hit /\ q # s
      BY <1>8
    <3>2. B2[q] = B[q]
      BY <2>3, <2>4, <3>1
    <3>3. x.base[q] = B[q]
      BY <1>1, <2>1, <3>1 DEF CompareAt
    <3> QED BY <2>2, <3>1, <3>2, <3>3
  <2>14. CompareAt(x, B2, C2, n, p)
    BY <1>8, <2>12, <2>13 DEF CompareAt
  <2> QED BY <2>5, <2>11, <2>14 DEF ChangesWith, B2, C2, n, p
<1>d. TargetInv(u)'
  BY <1>2, <1>4, <1>6, <1>14, <1>a, <1>b, <1>c, Near DEF IInv, LaneType
<1> QED BY <1>2, <1>4, <1>6, <1>8, <1>11, <1>13, <1>14, <1>a, <1>d, OneTarget

\* The check's upsert.
LEMMA PublishStep ==
    ASSUME IInv, NEW l \in Lanes, Publish(l)
    PROVE  IInv'
<1> DEFINE t == lane[l].target
           p == Published(l)
<1>1. lane[l].pc = "publish" /\ UNCHANGED <<site, due, base, changes, notices>>
  BY DEF Publish
<1>2. lane[l] \in LaneState /\ t \in Targets /\ WorkOf(lane[l]) = {t} /\ Shape(l, lane[l])
  BY <1>1, AtWork
<1>3. PICK ok \in Writes :
        /\ state' = IF ok THEN [state EXCEPT ![t] = p] ELSE state
        /\ isUp' = IF ok THEN [isUp EXCEPT ![t] = p \in Healthy] ELSE isUp
        /\ age' = IF ok THEN [age EXCEPT ![t] = lane[l].lag] ELSE age
        /\ Shows(t, Health(p), ok)
        /\ Wrote(t, ok)
  BY DEF Publish
<1>4. /\ faults' \in 0..MaxFaults /\ told' \in [Targets -> {"none", "bad", "fine", "cut", "overlapped"}]
      /\ \A u \in Targets \ {t} : told'[u] = told[u]
      /\ told'[t] # "overlapped" => told[t] # "overlapped"
      /\ told'[t] \notin {"cut", "overlapped"} => ok /\ told'[t] = told[t]
  BY <1>2, <1>3, WroteIs DEF IInv
<1>5. /\ lane[l].result \in Results \ {None} /\ lane[l].changed = FALSE
      /\ p \in Healthy \cup Unhealthy /\ p \in States
      /\ lane[l].result \in Failure => p \in Unhealthy
      /\ lane[l].result \notin Failure \cup {"panic"} => p \in Healthy
  <2>1. lane[l].result \in Results \ {None} /\ lane[l].changed = FALSE
    BY <1>1, <1>2 DEF Shape, LaneState, Results
  <2>2. \/ lane[l].result = "panic" /\ p = "error"
        \/ lane[l].result = "up" /\ p \in {"unchanged", "up"}
        \/ lane[l].result \in {"unchanged", "changed", "error", "down"} /\ p = lane[l].result
    BY <2>1 DEF Published, Results
  <2> QED BY <2>1, <2>2 DEF Healthy, Unhealthy, Failure, States
<1>s. /\ news' \in [Targets -> News] /\ \A u \in Targets \ {t} : news'[u] = news[u]
      /\ ok => /\ news'[t].last = Health(p)
               /\ news'[t].owed = IF news[t].last \in {"new", Health(p)} THEN news[t].owed
                                  ELSE Health(p)
  <2>1. Health(p) \in {"bad", "fine"} /\ ok \in BOOLEAN
    BY <1>2, <1>3, WroteIs DEF Health, IInv
  <2> QED BY <1>2, <1>3, <2>1, ShowsIs DEF IInv
<1>6. RowType'
  <2> DEFINE h == p \in Healthy
  <2>1. h \in BOOLEAN
    OBVIOUS
  <2>2. isUp' = IF ok THEN [isUp EXCEPT ![t] = h] ELSE isUp
    BY <1>3
  <2> HIDE DEF h
  <2>3. isUp' \in [Targets -> BOOLEAN \cup {None}]
    BY <1>2, <2>1, <2>2 DEF IInv, RowType
  <2>4. state' \in [Targets -> States]
    BY <1>2, <1>3, <1>5 DEF IInv, RowType
  <2>5. lane[l].lag \in 0..AgeCap
    BY <1>2, MonitorAssumption DEF LaneState, AgeCap
  <2>6. age' \in [Targets -> 0..AgeCap \cup {None}]
    BY <1>2, <1>3, <2>5 DEF IInv, RowType
  <2> QED BY <1>1, <1>4, <1>s, <2>3, <2>4, <2>6 DEF RowType, IInv, site
<1> DEFINE next == IF lane[l].result = "changed" THEN "notify" ELSE "edge"
           x == IF lane[l].result = "panic" THEN Rest(l) ELSE [lane[l] EXCEPT !.pc = next]
<1>7. Becomes(l, x)
  BY <1>1 DEF Publish, Goto, Becomes, IInv, LaneType
<1>8. /\ x \in LaneState /\ Shape(l, x) /\ x.changed = FALSE
      /\ \/ lane[l].result = "panic" /\ WorkOf(x) = {} /\ x.pc \in {"idle", "pick"}
         \/ /\ lane[l].result # "panic" /\ WorkOf(x) = {t} /\ x.pc = next /\ x.prior = lane[l].prior
            /\ x.result = lane[l].result
  <2>1. CASE lane[l].result = "panic"
    BY <1>2, <2>1, RestType
  <2>2. CASE lane[l].result # "panic"
    <3> DEFINE y == [lane[l] EXCEPT !.pc = next]
    <3>0. next \in {"notify", "edge"} /\ (next = "notify" <=> lane[l].result = "changed")
      OBVIOUS
    <3>1. x = y
      BY <2>2
    <3> HIDE DEF next
    <3>2. /\ y \in LaneState /\ y.pc = next /\ y.target = t /\ y.prior = lane[l].prior
          /\ y.changed = lane[l].changed /\ y.result = lane[l].result
      BY <1>2, <3>0 DEF LaneState
    <3> HIDE DEF x, y
    <3>3. Shape(l, x) /\ WorkOf(x) = {t}
      BY <1>2, <1>5, <2>2, <3>0, <3>1, <3>2, MonitorAssumption DEF Shape, WorkOf
    <3> QED BY <1>5, <2>2, <3>1, <3>2, <3>3
  <2> QED BY <2>1, <2>2
<1>9. next \in {"notify", "edge"}
  OBVIOUS
<1> HIDE DEF x, p
<1>10. \A u \in Targets \ {t} : Same(u)
  BY <1>1, <1>2, <1>3, <1>s DEF Same, IInv, RowType
<1>11. ok => state'[t] = p
  BY <1>2, <1>3 DEF IInv, RowType
<1>12. TargetInv(t) /\ base' = base /\ changes' = changes /\ notices' = notices
  BY <1>1, <1>2 DEF IInv
<1> HIDE DEF t, next
<1>a. PICK u \in Targets : u = t
  BY <1>2
<1>b. ASSUME told'[u] \notin {"cut", "overlapped"} PROVE HealthWith(x, u)
  <2>1. /\ Agree(lane[l].prior, told[u], news[u]) /\ lane[l].result # "panic"
        /\ told'[u] = told[u] /\ ok
    BY <1>1, <1>2, <1>4, <1>12, <1>a, <1>b DEF TargetInv, HealthOf, HealthAt
  <2>2. /\ state'[u] = p /\ news'[u].last = Health(p)
        /\ news'[u].owed = IF news[u].last \in {"new", Health(p)} THEN news[u].owed ELSE Health(p)
    BY <1>11, <1>a, <1>s, <2>1
  <2>3. lane[l].prior \in States
    BY <1>2 DEF LaneState
  <2>4. CASE lane[l].result \in Failure
    <3>1. /\ p \in Unhealthy /\ p \notin Healthy /\ Health(p) = "bad"
      BY <1>5, <2>4 DEF Unhealthy, Healthy, Health
    <3>2. news'[u].owed = IF lane[l].prior \in Healthy THEN "bad" ELSE told[u]
      BY <2>1, <2>2, <2>3, <3>1 DEF Agree, States
    <3>3. Classify(lane[l].prior, lane[l].result) = IF lane[l].prior \in Healthy THEN "bad" ELSE "same"
      BY <2>4 DEF Classify, Failure
    <3> QED BY <1>8, <1>9, <1>a, <2>1, <2>2, <2>4, <3>1, <3>2, <3>3 DEF HealthWith, HealthAt
  <2>5. CASE lane[l].result \notin Failure
    <3>1. /\ p \in Healthy /\ Health(p) = "fine"
      BY <1>5, <2>1, <2>5 DEF Health
    <3>2. news'[u].owed = IF lane[l].prior \in Unhealthy THEN "fine" ELSE told[u]
      BY <2>1, <2>2, <2>3, <3>1 DEF Agree, States
    <3>3. Classify(lane[l].prior, lane[l].result) = IF lane[l].prior \in Unhealthy THEN "fine" ELSE "same"
      BY <2>5 DEF Classify, Failure
    <3> QED BY <1>8, <1>9, <1>a, <2>1, <2>2, <2>5, <3>1, <3>2, <3>3 DEF HealthWith, HealthAt
  <2> QED BY <2>4, <2>5
<1>c. ASSUME told'[u] # "overlapped", kind[u] = "content" PROVE ChangesWith(x, u)
  <2>1. /\ Recorded(base[u], changes[u], notices[u], page[u])
        /\ CompareAt(lane[l], base[u], changes[u], notices[u], page[u])
    BY <1>2, <1>4, <1>12, <1>a, <1>c DEF TargetInv, ChangesOf
  <2>2. Owes(x) /\ u \in WorkOf(x) => Owes(lane[l])
    BY <1>1, <1>8, <1>9 DEF Owes
  <2>3. u \in WorkOf(x) => CompareAt(x, base[u], changes[u], notices[u], page[u])
    BY <1>8, <1>9, <2>1, <2>2 DEF CompareAt
  <2> QED BY <1>12, <2>1, <2>3 DEF ChangesWith
<1>d. TargetInv(u)'
  BY <1>2, <1>4, <1>7, <1>12, <1>a, <1>b, <1>c, Near DEF IInv, LaneType
<1>13. WorkOf(x) \subseteq {t}
  BY <1>8
<1> QED BY <1>2, <1>4, <1>6, <1>7, <1>8, <1>10, <1>13, <1>a, <1>d, OneTarget

\* The dispatch for a change.
LEMMA NotifyStep ==
    ASSUME IInv, NEW l \in Lanes, Notify(l)
    PROVE  IInv'
<1> DEFINE t == lane[l].target
           x == [lane[l] EXCEPT !.pc = "edge"]
<1>1. /\ lane[l].pc = "notify" /\ UNCHANGED <<site, row, due, base, changes, told, faults>>
      /\ notices' = [notices EXCEPT ![t] = notices[t] + 1]
  BY DEF Notify
<1>2. lane[l] \in LaneState /\ t \in Targets /\ WorkOf(lane[l]) = {t} /\ Shape(l, lane[l])
  BY <1>1, AtWork
<1>3. Becomes(l, x)
  BY <1>1 DEF Notify, Goto, Becomes, IInv, LaneType
<1>4. /\ x \in LaneState /\ x.pc = "edge" /\ x.target = t /\ x.prior = lane[l].prior
      /\ x.changed = lane[l].changed /\ x.result = lane[l].result
  BY <1>2 DEF LaneState
<1> HIDE DEF x
<1>5. x.changed = FALSE /\ x.result = "changed"
  BY <1>1, <1>2, <1>4 DEF Shape, LaneState
<1>6. Shape(l, x) /\ WorkOf(x) = {t}
  BY <1>2, <1>4, <1>5, MonitorAssumption DEF Shape, WorkOf
<1>7. /\ notices' \in [Targets -> Nat] /\ \A u \in Targets \ {t} : notices'[u] = notices[u]
      /\ notices'[t] = notices[t] + 1 /\ notices[t] \in Nat /\ changes[t] \in [Selectors -> Nat]
  BY <1>1, <1>2 DEF IInv, RowType
<1>8. RowType'
  BY <1>1, <1>7 DEF RowType, IInv, site, row
<1>9. /\ TargetInv(t) /\ (\A u \in Targets \ {t} : Same(u)) /\ state' = state /\ told' = told
      /\ news' = news
      /\ base' = base /\ changes' = changes
  BY <1>1, <1>2, <1>7 DEF IInv, Same, row
<1> HIDE DEF t
<1>a. PICK u \in Targets : u = t
  BY <1>2
<1>b. told'[u] \notin {"cut", "overlapped"} => HealthWith(x, u)
  BY <1>1, <1>2, <1>4, <1>6, <1>9, <1>a DEF TargetInv, HealthOf, HealthWith, HealthAt
<1>c. ASSUME told'[u] # "overlapped", kind[u] = "content" PROVE ChangesWith(x, u)
  <2>1. /\ Recorded(base[u], changes[u], notices[u], page[u])
        /\ CompareAt(lane[l], base[u], changes[u], notices[u], page[u])
    BY <1>2, <1>9, <1>a, <1>c DEF TargetInv, ChangesOf
  <2>2. /\ \E s \in Selectors : changes[u][s] > 0
        /\ Cardinality(Selectors) = 1 => \A s \in Selectors : notices[u] < changes[u][s]
    BY <1>1, <1>4, <1>5, <2>1 DEF CompareAt, Owes
  <2>3. Cardinality(Selectors) = 1 => \A s \in Selectors : notices'[u] <= changes[u][s]
    BY <1>7, <1>a, <2>2
  <2>4. Recorded(base[u], changes[u], notices'[u], page[u])
    BY <2>1, <2>2, <2>3 DEF Recorded
  <2>5. CompareAt(x, base[u], changes[u], notices'[u], page[u])
    BY <1>4, <1>5 DEF CompareAt, Owes
  <2> QED BY <1>9, <2>4, <2>5 DEF ChangesWith
<1>d. TargetInv(u)'
  BY <1>2, <1>3, <1>9, <1>a, <1>b, <1>c, Near DEF IInv, LaneType
<1> QED BY <1>2, <1>3, <1>4, <1>6, <1>8, <1>9, <1>a, <1>d, OneTarget

\* The health edge.
LEMMA EdgeStep ==
    ASSUME IInv, NEW l \in Lanes, Edge(l)
    PROVE  IInv'
<1> DEFINE t == lane[l].target
           e == Classify(lane[l].prior, lane[l].result)
           x == Rest(l)
<1>1. /\ lane[l].pc = "edge" /\ UNCHANGED <<site, row, due, base, changes, notices, faults>>
      /\ told' = IF e = "same" \/ t \notin Undisturbed THEN told ELSE [told EXCEPT ![t] = e]
  BY DEF Edge
<1>2. lane[l] \in LaneState /\ t \in Targets /\ WorkOf(lane[l]) = {t} /\ Shape(l, lane[l])
  BY <1>1, AtWork
<1>3. Becomes(l, x)
  BY <1>1 DEF Edge, Becomes
<1>4. x \in LaneState /\ Shape(l, x) /\ WorkOf(x) = {}
  BY <1>2, RestType
<1>5. e \in {"same", "bad", "fine"}
  BY DEF Classify
<1> HIDE DEF x, e
<1>6. /\ told' \in [Targets -> {"none", "bad", "fine", "cut", "overlapped"}]
      /\ \A u \in Targets \ {t} : told'[u] = told[u]
      /\ told'[t] \in {"cut", "overlapped"} <=> told[t] \in {"cut", "overlapped"}
      /\ told[t] \in {"cut", "overlapped"} => told'[t] = told[t]
      /\ told[t] \notin {"cut", "overlapped"} => told'[t] = IF e = "same" THEN told[t] ELSE e
  BY <1>1, <1>2, <1>5 DEF IInv, RowType, Undisturbed
<1>7. RowType'
  BY <1>1, <1>6 DEF RowType, IInv, site, row
<1>8. TargetInv(t) /\ (\A u \in Targets : Same(u)) /\ lane[l].prior \in States
  BY <1>1, <1>2 DEF IInv, Same, row, LaneState
<1> HIDE DEF t
<1>a. PICK u \in Targets : u = t
  BY <1>2
<1>b. ASSUME told'[u] \notin {"cut", "overlapped"} PROVE HealthWith(x, u)
  <2>1. /\ lane[l].result \in Failure => state[u] \in Unhealthy /\ news[u].last = "bad"
        /\ lane[l].result \notin Failure => state[u] \in Healthy /\ news[u].last = "fine"
        /\ news[u].owed = IF e = "same" THEN told[u] ELSE e
    BY <1>1, <1>2, <1>6, <1>8, <1>a, <1>b DEF TargetInv, HealthOf, HealthAt, e
  <2>2. told'[u] = IF e = "same" THEN told[u] ELSE e
    BY <1>6, <1>a, <1>b
  <2>3. state'[u] = state[u] /\ news'[u] = news[u]
    BY <1>8, <1>a DEF Same
  <2>4. Agree(state[u], told'[u], news[u])
    BY <2>1, <2>2, MonitorAssumption DEF Agree, Healthy, Unhealthy
  <2> QED BY <1>4, <2>3, <2>4 DEF HealthWith
<1>c. told'[u] # "overlapped" /\ kind[u] = "content" => ChangesWith(x, u)
  BY <1>4, <1>6, <1>8, <1>a DEF TargetInv, ChangesOf, ChangesWith, Same
<1>d. TargetInv(u)'
  BY <1>2, <1>3, <1>6, <1>8, <1>a, <1>b, <1>c, Near DEF IInv, LaneType
<1> QED BY <1>2, <1>3, <1>4, <1>6, <1>7, <1>8, <1>a, <1>d, OneTarget

-----------------------------------------------------------------------------
(* The sweep, the captures and the rest.                                   *)

\* sweep_stale_health loads the rows.
LEMMA SweepReadStep == IInv /\ SweepRead => IInv'
<1> SUFFICES ASSUME IInv, SweepRead PROVE IInv'
    OBVIOUS
<1> DEFINE elapsed == [t \in Targets |-> IF age[t] = None THEN None ELSE age[t] - lane["tick"].lag]
           overdue == {t \in Targets : Overdue(state[t], elapsed[t])}
           snap == [t \in overdue |-> [isUp |-> isUp[t], elapsed |-> elapsed[t]]]
           y == [lane["tick"] EXCEPT !.pc = "stale", !.queue = overdue, !.snap = snap]
           x == IF overdue = {} THEN Idle ELSE y
<1>1. /\ "tick" \in Lanes /\ lane["tick"].pc = "pick"
      /\ UNCHANGED <<site, row, due, base, changes, notices, faults>> /\ Overlap("tick", overdue)
  BY DEF SweepRead, Lanes
<1>2. /\ lane["tick"] \in LaneState /\ Shape("tick", lane["tick"]) /\ lane["tick"].target = None
      /\ WorkOf(lane["tick"]) = {} /\ lane["tick"].changed = FALSE /\ lane["tick"].result = None
  BY <1>1, NotAtWork
<1>3. Becomes("tick", x)
  BY <1>1 DEF SweepRead, Becomes, IInv, LaneType
<1>4. overdue \subseteq Targets
  OBVIOUS
<1>5. snap \in Loaded
  <2>1. ASSUME NEW t \in overdue PROVE elapsed[t] \in 0..AgeCap /\ isUp[t] \in BOOLEAN \cup {None}
    <3>1. Overdue(state[t], elapsed[t]) /\ t \in Targets
      OBVIOUS
    <3>2. age[t] # None /\ elapsed[t] = age[t] - lane["tick"].lag /\ 2 * elapsed[t] > 5 * Period
      BY <3>1 DEF Overdue
    <3>3. /\ age[t] \in 0..AgeCap /\ lane["tick"].lag \in Nat /\ Period \in Nat /\ AgeCap \in Nat
          /\ isUp[t] \in BOOLEAN \cup {None}
      BY <1>2, <3>1, <3>2, MonitorAssumption DEF IInv, RowType, LaneState, AgeCap
    <3> HIDE DEF elapsed, overdue
    <3>4. elapsed[t] \in 0..AgeCap
      BY <3>2, <3>3
    <3> QED BY <3>3, <3>4
  <2> HIDE DEF elapsed, overdue
  <2>2. snap \in [overdue -> [isUp : BOOLEAN \cup {None}, elapsed : 0..AgeCap]]
    BY <2>1
  <2> HIDE DEF snap
  <2> QED BY <1>4, <2>2 DEF Loaded
<1>6. DOMAIN snap = overdue
  OBVIOUS
<1> HIDE DEF overdue, snap
<1>7. /\ y \in LaneState /\ y.pc = "stale" /\ y.queue = overdue /\ y.snap = snap /\ y.target = None
      /\ y.changed = FALSE /\ y.result = None
  BY <1>2, <1>4, <1>5 DEF LaneState
<1>8. Shape("tick", y)
  BY <1>5, <1>6, <1>7 DEF Shape
<1>9. WorkOf(y) = overdue
  BY <1>7 DEF WorkOf
<1> HIDE DEF y
<1>10. RowType'
  BY <1>1, OverlapIs DEF RowType, IInv, site, row
<1>11. \A u \in Targets : Same(u)
  BY <1>1 DEF Same, row
<1>12. \A u \in Targets \ overdue : told'[u] = told[u]
  BY <1>1, OverlapIs DEF IInv
<1>13. x \in LaneState /\ WorkOf(x) = overdue /\ (overdue # {} => x = y) /\ Shape("tick", x)
  BY <1>7, <1>8, <1>9, IdleType
<1> HIDE DEF x
<1>14. LaneType' /\ Shapes'
  BY <1>1, <1>3, <1>13, LaneKept
<1>15. ASSUME NEW u \in Targets PROVE TargetInv(u)'
  <2>1. CASE u \notin overdue
    BY <1>1, <1>2, <1>3, <1>11, <1>12, <1>13, <2>1, Far DEF IInv, LaneType
  <2>2. CASE u \in overdue
    <3>1. x.pc = "stale" /\ x.changed = FALSE
      BY <1>7, <1>13, <2>2
    <3>2. Agree(state[u], told[u], news[u]) => HealthAt(x, u, state[u], told[u], news[u])
      <4>1. state[u] \in States /\ state[u] \notin Unhealthy \cup {None}
        BY <2>2 DEF overdue, Overdue, IInv, RowType
      <4> QED BY <3>1, <4>1 DEF HealthAt, Agree, States
    <3> QED BY <1>1, <1>2, <1>3, <1>11, <1>13, <2>2, <3>1, <3>2, Enter DEF IInv, LaneType
  <2> QED BY <2>1, <2>2
<1> QED BY <1>10, <1>14, <1>15 DEF IInv

\* One overdue monitor is marked, or its write is refused.
LEMMA SweepMarkStep ==
    ASSUME IInv, NEW t \in Targets, SweepMark(t)
    PROVE  IInv'
<1> DEFINE w == lane["tick"]
           then == w.snap[t].elapsed + w.lag
           x == [w EXCEPT !.pc = "alarm", !.target = t]
<1>1. /\ "tick" \in Lanes /\ w.pc = "stale" /\ t \in w.queue
      /\ UNCHANGED <<site, due, base, changes, notices>>
  BY DEF SweepMark, Lanes
<1>e. PICK ok \in Writes :
        /\ state' = IF ok THEN [state EXCEPT ![t] = "stale"] ELSE state
        /\ isUp' = IF ok THEN [isUp EXCEPT ![t] = w.snap[t].isUp] ELSE isUp
        /\ age' = IF ok THEN [age EXCEPT ![t] = IF then > AgeCap THEN AgeCap ELSE then] ELSE age
        /\ Shows(t, "bad", ok)
        /\ Wrote(t, ok)
  BY DEF SweepMark
<1>2. w \in LaneState /\ Shape("tick", w)
  BY <1>1 DEF IInv, LaneType, Shapes
<1>3. Becomes("tick", x)
  BY <1>1 DEF SweepMark, Becomes, IInv, LaneType
<1>4. w.snap[t].isUp \in BOOLEAN \cup {None} /\ w.snap[t].elapsed \in 0..AgeCap
  <2>1. w.snap \in Loaded /\ t \in DOMAIN w.snap
    BY <1>1, <1>2 DEF Shape
  <2>2. PICK ts \in SUBSET Targets : w.snap \in [ts -> [isUp : BOOLEAN \cup {None}, elapsed : 0..AgeCap]]
    BY <2>1 DEF Loaded
  <2>3. w.snap[t] \in [isUp : BOOLEAN \cup {None}, elapsed : 0..AgeCap]
    BY <2>1, <2>2
  <2> QED BY <2>3
<1>o. /\ ok \in BOOLEAN /\ faults' \in 0..MaxFaults
      /\ told' \in [Targets -> {"none", "bad", "fine", "cut", "overlapped"}]
      /\ \A u \in Targets \ {t} : told'[u] = told[u]
      /\ told'[t] # "overlapped" => told[t] # "overlapped"
      /\ told'[t] \notin {"cut", "overlapped"} => ok /\ told'[t] = told[t]
  BY <1>e, WroteIs DEF IInv
<1>s. /\ news' \in [Targets -> News] /\ \A u \in Targets \ {t} : news'[u] = news[u]
      /\ ok => /\ news'[t].last = "bad"
               /\ news'[t].owed = IF news[t].last \in {"new", "bad"} THEN news[t].owed ELSE "bad"
  BY <1>e, <1>o, ShowsIs DEF IInv
<1>5. RowType'
  <2> DEFINE v == w.snap[t].isUp
  <2>1. isUp' = (IF ok THEN [isUp EXCEPT ![t] = v] ELSE isUp) /\ v \in BOOLEAN \cup {None}
    BY <1>e, <1>4
  <2> HIDE DEF v
  <2>2. isUp' \in [Targets -> BOOLEAN \cup {None}]
    BY <2>1 DEF IInv, RowType
  <2> DEFINE a == IF then > AgeCap THEN AgeCap ELSE then
  <2>3. w.lag \in Nat /\ AgeCap \in Nat
    BY <1>2, MonitorAssumption DEF LaneState, AgeCap
  <2>4. a \in 0..AgeCap /\ age' = IF ok THEN [age EXCEPT ![t] = a] ELSE age
    BY <1>e, <1>4, <2>3
  <2> HIDE DEF a
  <2>5. age' \in [Targets -> 0..AgeCap \cup {None}]
    BY <2>4 DEF IInv, RowType
  <2>6. state' \in [Targets -> States]
    BY <1>e DEF IInv, RowType, States, Unhealthy
  <2> QED BY <1>1, <1>o, <1>s, <2>2, <2>5, <2>6 DEF RowType, IInv, site
<1>6. w.changed = FALSE /\ w.result = None /\ w.target = None
  BY <1>1, <1>2 DEF Shape, LaneState
<1>7. /\ x \in LaneState /\ x.pc = "alarm" /\ x.queue = w.queue /\ x.snap = w.snap
      /\ x.target = t /\ x.changed = FALSE /\ x.result = None
  BY <1>1, <1>2, <1>6 DEF LaneState
<1> HIDE DEF x
<1>8. Shape("tick", x) /\ WorkOf(x) = w.queue /\ WorkOf(w) = w.queue
  BY <1>1, <1>2, <1>7, MonitorAssumption DEF Shape, WorkOf
<1>9. LaneType' /\ Shapes'
  BY <1>1, <1>3, <1>7, <1>8, LaneKept
<1>10. ASSUME NEW u \in Targets PROVE TargetInv(u)'
  <2>1. CASE u # t
    <3>1. Same(u) /\ told'[u] = told[u]
      BY <1>1, <1>e, <1>o, <1>s, <2>1 DEF Same, IInv, RowType
    <3>2. w.target # u /\ x.target # u
      BY <1>6, <1>7, <2>1, MonitorAssumption
    <3> QED BY <1>1, <1>3, <1>7, <1>8, <3>1, <3>2, Far DEF IInv, LaneType
  <2>2. CASE u = t
    <3>1. /\ TargetInv(u) /\ u \in WorkOf(w) /\ u \in WorkOf(x) /\ w.target # u
          /\ base' = base /\ changes' = changes /\ notices' = notices
      BY <1>1, <1>6, <1>8, <2>2, MonitorAssumption DEF IInv
    <3>2. ASSUME told'[u] \notin {"cut", "overlapped"} PROVE HealthWith(x, u)
      <4>1. ok /\ told[u] \notin {"cut", "overlapped"}
        BY <1>o, <2>2, <3>2
      <4>2. Agree(state[u], told[u], news[u]) /\ state[u] \in Healthy
        BY <1>1, <3>1, <4>1 DEF TargetInv, HealthOf, HealthAt
      <4>3. state'[u] = "stale" /\ news'[u].last = "bad" /\ news'[u].owed = "bad"
        BY <1>e, <1>s, <2>2, <4>1, <4>2 DEF Agree, IInv, RowType
      <4> QED BY <1>7, <2>2, <3>1, <4>3 DEF HealthWith, HealthAt, Unhealthy
    <3>3. told'[u] # "overlapped" /\ kind[u] = "content" => ChangesWith(x, u)
      <4>1. \A b, c, n, p : CompareAt(x, b, c, n, p)
        BY <1>7 DEF CompareAt, Owes
      <4> QED BY <1>o, <2>2, <3>1, <4>1 DEF TargetInv, ChangesOf, ChangesWith
    <3> QED BY <1>1, <1>3, <1>o, <2>2, <3>1, <3>2, <3>3, Near DEF IInv, LaneType
  <2> QED BY <2>1, <2>2
<1> QED BY <1>5, <1>9, <1>10 DEF IInv

\* Its automations are told.
LEMMA AlarmStep == IInv /\ Alarm => IInv'
<1> SUFFICES ASSUME IInv, Alarm PROVE IInv'
    OBVIOUS
<1> DEFINE w == lane["tick"]
           t == w.target
           y == [w EXCEPT !.pc = "stale", !.target = None, !.queue = w.queue \ {t}]
           x == IF w.queue = {t} THEN Idle ELSE y
<1>1. /\ "tick" \in Lanes /\ w.pc = "alarm"
      /\ told' = IF t \in Undisturbed THEN [told EXCEPT ![t] = "bad"] ELSE told
      /\ UNCHANGED <<site, row, due, base, changes, notices, faults>>
  BY DEF Alarm, Lanes
<1>2. w \in LaneState /\ Shape("tick", w)
  BY <1>1 DEF IInv, LaneType, Shapes
<1>3. Becomes("tick", x)
  BY <1>1 DEF Alarm, Becomes, IInv, LaneType
<1>4. t \in Targets /\ t \in w.queue
  BY <1>1, <1>2 DEF Shape, LaneState
<1>5. RowType'
  <2>1. told' \in [Targets -> {"none", "bad", "fine", "cut", "overlapped"}]
    BY <1>1 DEF IInv, RowType
  <2> QED BY <1>1, <2>1 DEF RowType, IInv, site, row
<1>6. w.changed = FALSE /\ w.result = None
  BY <1>1, <1>2 DEF Shape, LaneState
<1>7. /\ y \in LaneState /\ y.pc = "stale" /\ y.queue = w.queue \ {t} /\ y.snap = w.snap
      /\ y.target = None /\ y.changed = FALSE /\ y.result = None
  BY <1>1, <1>2, <1>6 DEF LaneState
<1> HIDE DEF y
<1>8. Shape("tick", y) /\ WorkOf(y) = w.queue \ {t} /\ WorkOf(w) = w.queue
  BY <1>1, <1>2, <1>7 DEF Shape, WorkOf
<1>9. /\ x \in LaneState /\ Shape("tick", x) /\ WorkOf(x) = w.queue \ {t} /\ x.changed = FALSE
      /\ WorkOf(x) # {} => x.pc = "stale" /\ x.target = None
  BY <1>7, <1>8, IdleType
<1> HIDE DEF x
<1>10. LaneType' /\ Shapes'
  BY <1>1, <1>3, <1>9, LaneKept
<1>11. \A u \in Targets : Same(u)
  BY <1>1 DEF Same, row
<1> HIDE DEF t
<1>12. ASSUME NEW u \in Targets PROVE TargetInv(u)'
  <2>1. CASE u # t
    <3>1. told'[u] = told[u]
      BY <1>1, <1>4, <2>1 DEF IInv, RowType
    <3>2. w.target # u /\ (u \in WorkOf(x) => x.target # u)
      BY <1>9, <2>1, MonitorAssumption DEF t
    <3>3. \/ u \notin WorkOf(w) /\ u \notin WorkOf(x)
          \/ u \in WorkOf(w) /\ u \in WorkOf(x) /\ x.pc = "stale"
      BY <1>8, <1>9, <2>1
    <3> QED BY <1>1, <1>3, <1>9, <1>11, <3>1, <3>2, <3>3, Far DEF IInv, LaneType
  <2>2. CASE u = t
    <3>1. told'[u] = IF told[u] \notin {"cut", "overlapped"} THEN "bad" ELSE told[u]
      BY <1>1, <1>4, <2>2 DEF IInv, RowType, Undisturbed
    <3>2. TargetInv(u) /\ u \in WorkOf(w) /\ u \notin WorkOf(x) /\ Same(u)
      BY <1>4, <1>8, <1>9, <1>11, <2>2 DEF IInv
    <3>3. ASSUME told'[u] \notin {"cut", "overlapped"} PROVE HealthWith(x, u)
      <4>1. state[u] \in Unhealthy /\ news[u].last = "bad" /\ news[u].owed = "bad"
        BY <1>1, <2>2, <3>1, <3>2, <3>3 DEF TargetInv, HealthOf, HealthAt, t
      <4> QED BY <3>1, <3>2, <3>3, <4>1, MonitorAssumption
              DEF HealthWith, Agree, Same, Healthy, Unhealthy
    <3>4. told'[u] # "overlapped" /\ kind[u] = "content" => ChangesWith(x, u)
      BY <3>1, <3>2 DEF TargetInv, ChangesOf, ChangesWith, Same
    <3> QED BY <1>1, <1>3, <3>1, <3>2, <3>3, <3>4, Near DEF IInv, LaneType
  <2> QED BY <2>1, <2>2
<1> QED BY <1>5, <1>10, <1>12 DEF IInv

\* check_selectors_now.
LEMMA ProbeStep == IInv /\ Probe => IInv'
<1> SUFFICES ASSUME IInv, Probe PROVE IInv'
    OBVIOUS
<1> DEFINE w == lane["request"]
           t == w.target
           y == [w EXCEPT !.pc = "capture", !.hit = Selectors, !.seen = page[t]]
           x == IF up[t] THEN y ELSE Idle
<1>1. /\ "request" \in Lanes /\ w.pc = "probe"
      /\ UNCHANGED <<site, row, due, base, changes, told, notices, faults>>
  BY DEF Probe, Lanes
<1>2. w \in LaneState /\ t \in Targets /\ WorkOf(w) = {t} /\ Shape("request", w)
  BY <1>1, AtWork
<1>3. Becomes("request", x)
  BY <1>1 DEF Probe, Becomes, IInv, LaneType
<1>4. page[t] \in Contents /\ page[t] \in Nat /\ page[t] # None
  BY <1>2, MonitorAssumption DEF IInv, RowType, Contents
<1>5. w.changed = FALSE /\ w.result = None
  BY <1>1, <1>2 DEF Shape, LaneState
<1>6. /\ y \in LaneState /\ y.pc = "capture" /\ y.target = t /\ y.seen = page[t]
      /\ y.changed = FALSE /\ y.result = None
  BY <1>2, <1>4, <1>5 DEF LaneState
<1> HIDE DEF y
<1>7. Shape("request", y) /\ WorkOf(y) = {t}
  BY <1>2, <1>4, <1>6, MonitorAssumption DEF Shape, WorkOf
<1>8. /\ x \in LaneState /\ Shape("request", x) /\ (x = y \/ (x = Idle /\ WorkOf(x) = {}))
      /\ WorkOf(x) \subseteq {t}
  BY <1>6, <1>7, IdleType
<1> HIDE DEF x
<1>9. RowType'
  BY <1>1 DEF RowType, IInv, site, row
<1>10. TargetInv(t) /\ \A u \in Targets : Same(u) /\ told'[u] = told[u]
  BY <1>1, <1>2 DEF IInv, Same, row
<1> HIDE DEF t
<1>a. PICK u \in Targets : u = t
  BY <1>2
<1>b. ASSUME told'[u] \notin {"cut", "overlapped"} PROVE HealthWith(x, u)
  <2>1. Agree(state'[u], told'[u], news'[u])
    BY <1>1, <1>2, <1>10, <1>a, <1>b DEF TargetInv, HealthOf, HealthAt, Same
  <2> QED BY <1>6, <1>7, <1>8, <1>a, <2>1 DEF HealthWith, HealthAt
<1>c. ASSUME told'[u] # "overlapped", kind[u] = "content" PROVE ChangesWith(x, u)
  <2>1. Recorded(base[u], changes[u], notices[u], page[u])
    BY <1>2, <1>10, <1>a, <1>c DEF TargetInv, ChangesOf
  <2>2. page[u] <= page[u]
    BY <1>4, <1>a
  <2>3. CompareAt(y, base[u], changes[u], notices[u], page[u])
    BY <1>6, <1>a, <2>1, <2>2 DEF CompareAt, Owes, Recorded
  <2> QED BY <1>8, <1>10, <1>a, <2>1, <2>3 DEF ChangesWith, Same
<1>d. TargetInv(u)'
  BY <1>1, <1>2, <1>3, <1>10, <1>a, <1>b, <1>c, Near DEF IInv, LaneType
<1> QED BY <1>1, <1>2, <1>3, <1>8, <1>9, <1>10, <1>a, <1>d, OneTarget

\* set_baseline.
LEMMA CaptureStep ==
    ASSUME IInv, NEW s \in Selectors, Capture(s)
    PROVE  IInv'
<1> DEFINE w == lane["request"]
           t == w.target
           y == [w EXCEPT !.hit = w.hit \ {s}]
           x == IF w.hit = {s} THEN Idle ELSE y
<1>1. /\ "request" \in Lanes /\ w.pc = "capture"
      /\ UNCHANGED <<site, row, due, changes, told, notices, faults>>
  BY DEF Capture, Lanes
<1>2. w \in LaneState /\ t \in Targets /\ WorkOf(w) = {t} /\ Shape("request", w)
  BY <1>1, AtWork
<1>3. Becomes("request", x)
  BY <1>1 DEF Capture, Becomes, IInv, LaneType
<1>4. w.seen \in Contents /\ w.seen \in Nat /\ w.seen # None
  BY <1>1, <1>2, MonitorAssumption DEF Shape, LaneState, Contents
<1>5. w.changed = FALSE /\ w.result = None
  BY <1>1, <1>2 DEF Shape, LaneState
<1>6. /\ y \in LaneState /\ y.pc = "capture" /\ y.target = t /\ y.seen = w.seen
      /\ y.changed = FALSE /\ y.result = None
  BY <1>1, <1>2, <1>5 DEF LaneState
<1> HIDE DEF y
<1>7. Shape("request", y) /\ WorkOf(y) = {t}
  BY <1>2, <1>4, <1>6, MonitorAssumption DEF Shape, WorkOf
<1>8. /\ x \in LaneState /\ Shape("request", x) /\ (x = y \/ (x = Idle /\ WorkOf(x) = {}))
      /\ WorkOf(x) \subseteq {t}
  BY <1>6, <1>7, IdleType
<1> HIDE DEF x
<1>9. /\ base' = [base EXCEPT ![t] = [base[t] EXCEPT ![s] = w.seen]]
      /\ base[t] \in Baseline /\ [base[t] EXCEPT ![s] = w.seen] \in Baseline
  <2>1. base \in [Targets -> Baseline]
    BY DEF IInv, RowType
  <2> QED BY <1>2, <1>4, <2>1 DEF Capture, Baseline
<1>10. /\ base' \in [Targets -> Baseline] /\ (\A u \in Targets \ {t} : base'[u] = base[u])
       /\ base'[t] = [base[t] EXCEPT ![s] = w.seen]
  <2>1. base \in [Targets -> Baseline]
    BY DEF IInv, RowType
  <2> QED BY <1>2, <1>9, <2>1
<1>11. RowType'
  BY <1>1, <1>10 DEF RowType, IInv, site, row
<1>12. /\ TargetInv(t) /\ told' = told /\ state' = state /\ news' = news /\ changes' = changes
       /\ notices' = notices /\ (\A u \in Targets \ {t} : Same(u))
  BY <1>1, <1>2, <1>10 DEF IInv, Same, row
<1>13. page[t] \in Nat /\ changes[t] \in [Selectors -> Nat]
  BY <1>2 DEF IInv, RowType, Contents
<1> HIDE DEF t
<1>a. PICK u \in Targets : u = t
  BY <1>2
<1>b. ASSUME told'[u] \notin {"cut", "overlapped"} PROVE HealthWith(x, u)
  <2>1. Agree(state'[u], told'[u], news'[u])
    BY <1>1, <1>2, <1>12, <1>a, <1>b DEF TargetInv, HealthOf, HealthAt
  <2> QED BY <1>6, <1>7, <1>8, <1>a, <2>1 DEF HealthWith, HealthAt
<1>c. ASSUME told'[u] # "overlapped", kind[u] = "content" PROVE ChangesWith(x, u)
  <2> DEFINE B == base[u]
             B2 == base'[u]
             C == changes[u]
             n == notices[u]
             p == page[u]
             seen == w.seen
  <2>1. Recorded(B, C, n, p) /\ CompareAt(w, B, C, n, p)
    BY <1>1, <1>2, <1>12, <1>a, <1>c DEF TargetInv, ChangesOf
  <2>2. seen <= p /\ \A q \in Selectors : B[q] # None => B[q] <= seen
    BY <1>1, <2>1 DEF CompareAt
  <2>3. /\ B2 = [B EXCEPT ![s] = seen] /\ B \in [Selectors -> Contents \cup {None}]
        /\ C \in [Selectors -> Nat] /\ p \in Nat /\ seen \in Nat
    BY <1>4, <1>9, <1>10, <1>13, <1>a DEF Baseline
  <2> HIDE DEF B, B2, C, n, p, seen
  <2>4. seen # None /\ \A q \in Selectors : B[q] # None => B[q] \in Nat
    BY <1>4, <2>3 DEF Contents, seen
  <2>5. ASSUME NEW q \in Selectors
        PROVE  /\ B2[q] = None => C[q] = 0
               /\ B2[q] # None => C[q] <= B2[q] /\ B2[q] <= p /\ B2[q] <= seen
    <3>1. /\ B[q] = None => C[q] = 0
          /\ B[q] # None => C[q] <= B[q] /\ B[q] <= p
      BY <2>1 DEF Recorded
    <3>2. CASE q # s
      BY <2>2, <2>3, <3>1, <3>2
    <3>3. CASE q = s
      BY <2>2, <2>3, <2>4, <3>1, <3>3
    <3> QED BY <3>2, <3>3
  <2>6. Recorded(B2, C, n, p)
    BY <2>1, <2>5 DEF Recorded
  <2>7. CompareAt(y, B2, C, n, p)
    BY <1>6, <2>2, <2>5 DEF CompareAt, Owes, seen
  <2> QED BY <1>8, <1>12, <1>a, <2>6, <2>7 DEF ChangesWith, B2, C, n, p
<1>d. TargetInv(u)'
  BY <1>1, <1>2, <1>3, <1>12, <1>a, <1>b, <1>c, Near DEF IInv, LaneType
<1> QED BY <1>1, <1>2, <1>3, <1>8, <1>11, <1>12, <1>a, <1>d, OneTarget

\* A crash or a hangup cuts the checks of the lanes that go.
LEMMA InterruptStep == IInv /\ Interrupt => IInv'
<1> SUFFICES ASSUME IInv, Interrupt PROVE IInv'
    OBVIOUS
<1>1. \E ls \in SUBSET Lanes :
        /\ lane' = [l \in Lanes |-> IF l \in ls THEN Idle ELSE lane[l]]
        /\ Cut(UNION {Working(l) : l \in ls})
  BY DEF Interrupt, Lanes
<1>2. PICK ls \in SUBSET Lanes :
        /\ lane' = [l \in Lanes |-> IF l \in ls THEN Idle ELSE lane[l]]
        /\ Cut(UNION {Working(l) : l \in ls})
  BY <1>1
<1>3. /\ faults < MaxFaults /\ faults' = faults + 1
      /\ UNCHANGED <<site, row, due, base, changes, notices>>
  BY DEF Interrupt
<1>4. LaneType' /\ Shapes'
  <2>1. lane' \in [Lanes -> LaneState]
    BY <1>2, IdleType DEF IInv, LaneType
  <2>2. ASSUME NEW m \in Lanes PROVE Shape(m, lane[m])'
    <3>1. (lane'[m] = Idle \/ lane'[m] = lane[m]) /\ kind' = kind
      BY <1>2, <1>3 DEF site
    <3> QED BY <3>1, IdleType DEF Shape, IInv, Shapes
  <2> QED BY <2>1, <2>2 DEF LaneType, Shapes
<1>5. faults' \in 0..MaxFaults
  BY <1>3, MonitorAssumption DEF IInv, RowType
<1>6. told' \in [Targets -> {"none", "bad", "fine", "cut", "overlapped"}]
  BY <1>2 DEF Cut, IInv, RowType
<1>7. RowType'
  BY <1>3, <1>5, <1>6 DEF RowType, IInv, site, row
<1>8. ASSUME NEW t \in Targets PROVE TargetInv(t)'
  <2>1. /\ told'[t] # "overlapped" => told[t] # "overlapped"
        /\ told'[t] \notin {"cut", "overlapped"} =>
              told'[t] = told[t] /\ \A l \in ls : t \notin WorkOf(lane[l])
    BY <1>2 DEF Cut, Working, WorkOf
  <2>2. \A m \in Lanes : lane'[m] = IF m \in ls THEN Idle ELSE lane[m]
    BY <1>2
  <2>3. \A m \in Lanes : t \in WorkOf(lane'[m]) => m \notin ls /\ t \in WorkOf(lane[m]) /\ lane'[m] = lane[m]
    BY <2>2, IdleType
  <2>4. Same(t) /\ page' = page /\ kind' = kind /\ TargetInv(t)
    BY <1>3 DEF Same, site, row, IInv
  <2> SUFFICES ASSUME told'[t] # "overlapped" PROVE TargetInv(t)'
      BY DEF TargetInv
  <2>5. Sole(t)'
    BY <2>1, <2>3, <2>4 DEF Sole, TargetInv
  <2>6. ASSUME told'[t] # "cut" PROVE HealthOf(t)'
    <3>1. HealthOf(t) /\ told'[t] = told[t] /\ state'[t] = state[t] /\ news'[t] = news[t]
      BY <2>1, <2>4, <2>6 DEF TargetInv, Same
    <3>2. \A m \in Lanes : t \in WorkOf(lane[m]) <=> t \in WorkOf(lane'[m])
      BY <2>1, <2>2, <2>3, <2>6
    <3> QED BY <2>3, <3>1, <3>2 DEF HealthOf
  <2>7. kind'[t] = "content" => ChangesOf(t)'
    BY <2>1, <2>3, <2>4 DEF TargetInv, ChangesOf, Same
  <2> QED BY <2>5, <2>6, <2>7 DEF TargetInv
<1> QED BY <1>4, <1>7, <1>8 DEF IInv

\* Lanes that only grow older keep what they hold of a monitor.
LEMMA Older ==
    ASSUME NEW t \in Targets, TargetInv(t), Same(t), told'[t] = told[t], page' = page, kind' = kind,
           \A m \in Lanes :
              /\ lane'[m].pc = lane[m].pc /\ lane'[m].target = lane[m].target
              /\ lane'[m].queue = lane[m].queue /\ lane'[m].prior = lane[m].prior
              /\ lane'[m].result = lane[m].result /\ lane'[m].changed = lane[m].changed
              /\ lane'[m].base = lane[m].base /\ lane'[m].seen = lane[m].seen
              /\ lane'[m].hit = lane[m].hit
    PROVE  TargetInv(t)'
<1>1. \A m \in Lanes : WorkOf(lane'[m]) = WorkOf(lane[m])
  BY DEF WorkOf
<1>2. \A m \in Lanes : \A s, v, w : HealthAt(lane[m], t, s, v, w) => HealthAt(lane'[m], t, s, v, w)
  BY DEF HealthAt
<1>3. \A m \in Lanes : \A b, c, n, p : CompareAt(lane[m], b, c, n, p) => CompareAt(lane'[m], b, c, n, p)
  BY DEF CompareAt, Owes
<1>4. Sole(t) => Sole(t)'
  BY <1>1 DEF Sole
<1>5. HealthOf(t) => HealthOf(t)'
  BY <1>1, <1>2 DEF HealthOf, Same
<1>6. ChangesOf(t) => ChangesOf(t)'
  BY <1>1, <1>3 DEF ChangesOf, Same
<1> QED BY <1>4, <1>5, <1>6 DEF TargetInv

\* Time passes.
LEMMA ElapseStep == IInv /\ Elapse => IInv'
<1> SUFFICES ASSUME IInv, Elapse PROVE IInv'
    OBVIOUS
<1>1. /\ \A l \in Lanes : lane[l].pc # "idle" => lane[l].lag < MaxLag
      /\ age' = [t \in Targets |-> IF age[t] = None \/ age[t] = AgeCap THEN age[t] ELSE age[t] + 1]
      /\ due' = [t \in Targets |-> IF due[t] = 0 THEN 0 ELSE due[t] - 1]
      /\ lane' = [l \in Lanes |-> IF lane[l].pc = "idle" THEN lane[l]
                                  ELSE [lane[l] EXCEPT !.lag = lane[l].lag + 1]]
      /\ UNCHANGED <<site, state, isUp, news, base, changes, told, notices, faults>>
  BY DEF Elapse
<1>2. ASSUME NEW m \in Lanes
      PROVE  /\ lane'[m] \in LaneState /\ lane'[m].pc = lane[m].pc /\ lane'[m].target = lane[m].target
             /\ lane'[m].queue = lane[m].queue /\ lane'[m].prior = lane[m].prior
             /\ lane'[m].result = lane[m].result /\ lane'[m].changed = lane[m].changed
             /\ lane'[m].base = lane[m].base /\ lane'[m].seen = lane[m].seen
             /\ lane'[m].hit = lane[m].hit /\ lane'[m].snap = lane[m].snap
             /\ (lane[m].pc = "idle" => lane'[m] = lane[m])
  <2>1. lane[m] \in LaneState
    BY DEF IInv, LaneType
  <2>2. CASE lane[m].pc = "idle"
    <3>1. lane'[m] = lane[m]
      BY <1>1, <2>2
    <3> QED BY <2>1, <3>1
  <2>3. CASE lane[m].pc # "idle"
    <3> DEFINE n == lane[m].lag + 1
    <3>1. lane[m].lag \in 0..MaxLag /\ lane[m].lag < MaxLag /\ MaxLag \in Nat
      BY <1>1, <2>1, <2>3, MonitorAssumption DEF LaneState
    <3>2. n \in 0..MaxLag
      BY <3>1
    <3>3. lane'[m] = [lane[m] EXCEPT !.lag = n]
      BY <1>1, <2>3
    <3> HIDE DEF n
    <3>4. [lane[m] EXCEPT !.lag = n] \in LaneState
      BY <2>1, <3>2 DEF LaneState
    <3> QED BY <2>1, <2>3, <3>3, <3>4 DEF LaneState
  <2> QED BY <2>2, <2>3
<1>3. kind' = kind /\ page' = page
  BY <1>1 DEF site
<1>4. LaneType' /\ Shapes'
  <2>1. lane' \in [Lanes -> LaneState]
    BY <1>1, <1>2
  <2>2. ASSUME NEW m \in Lanes PROVE Shape(m, lane[m])'
    <3>1. Shape(m, lane[m])
      BY DEF IInv, Shapes
    <3> QED BY <1>2, <1>3, <3>1 DEF Shape
  <2> QED BY <2>1, <2>2 DEF LaneType, Shapes
<1>5. age' \in [Targets -> 0..AgeCap \cup {None}] /\ due' \in [Targets -> 0..Cadence]
  <2>1. AgeCap \in Nat /\ Cadence \in Nat
    BY MonitorAssumption DEF AgeCap
  <2>2. age \in [Targets -> 0..AgeCap \cup {None}] /\ due \in [Targets -> 0..Cadence]
    BY DEF IInv, RowType
  <2> QED BY <1>1, <2>1, <2>2
<1>6. RowType'
  BY <1>1, <1>5 DEF RowType, IInv, site
<1>7. ASSUME NEW t \in Targets PROVE TargetInv(t)'
  <2>1. TargetInv(t) /\ Same(t) /\ told'[t] = told[t]
    BY <1>1 DEF IInv, Same
  <2> QED BY <1>2, <1>3, <2>1, Older
<1> QED BY <1>4, <1>6, <1>7 DEF IInv

\* A page changes: what was recorded of it is no more than before.
LEMMA EditStep ==
    ASSUME IInv, NEW e \in Targets, Edit(e)
    PROVE  IInv'
<1>1. /\ page[e] < MaxEdits /\ page' = [page EXCEPT ![e] = page[e] + 1]
      /\ UNCHANGED <<kind, up, outages, row, due, base, changes, lane, told, notices, faults>>
  BY DEF Edit
<1>2. LaneType' /\ Shapes'
  BY <1>1 DEF IInv, LaneType, Shapes, Shape
<1>3. page' \in [Targets -> Contents]
  BY <1>1, MonitorAssumption DEF IInv, RowType, Contents
<1>4. RowType'
  BY <1>1, <1>3 DEF RowType, IInv, row
<1>5. ASSUME NEW t \in Targets PROVE TargetInv(t)'
  <2>1. page[t] \in Nat /\ page'[t] \in Nat /\ page[t] <= page'[t]
    BY <1>1 DEF IInv, RowType, Contents
  <2>2. \A s \in Selectors : base[t][s] # None => base[t][s] \in Nat
    BY DEF IInv, RowType, Baseline, Contents
  <2>3. \A m \in Lanes : lane[m].pc \in {"save", "capture"} => lane[m].seen \in Nat
    BY DEF IInv, LaneType, LaneState, Shapes, Shape, Contents
  <2>4. Recorded(base[t], changes[t], notices[t], page[t]) =>
          Recorded(base[t], changes[t], notices[t], page'[t])
    <3> SUFFICES ASSUME Recorded(base[t], changes[t], notices[t], page[t])
                 PROVE  \A s \in Selectors : base[t][s] # None => base[t][s] <= page'[t]
        BY DEF Recorded
    <3> QED BY <2>1, <2>2 DEF Recorded
  <2>5. ASSUME NEW m \in Lanes, CompareAt(lane[m], base[t], changes[t], notices[t], page[t])
        PROVE  CompareAt(lane[m], base[t], changes[t], notices[t], page'[t])
    <3>1. lane[m].pc \in {"save", "capture"} => lane[m].seen <= page'[t]
      BY <2>1, <2>3, <2>5 DEF CompareAt
    <3> QED BY <2>5, <3>1 DEF CompareAt
  <2>6. TargetInv(t) /\ state' = state /\ news' = news
    BY <1>1 DEF IInv, row
  <2> QED BY <1>1, <2>4, <2>5, <2>6 DEF TargetInv, Sole, HealthOf, ChangesOf
<1> QED BY <1>2, <1>4, <1>5 DEF IInv

\* A site goes down or comes up.
LEMMA OutageStep ==
    ASSUME IInv, NEW e \in Targets, GoDown(e) \/ ComeUp(e)
    PROVE  IInv'
<1>1. /\ UNCHANGED <<kind, page, row, due, base, changes, lane, told, notices, faults>>
      /\ up' \in [Targets -> BOOLEAN] /\ outages' \in [Targets -> 0..MaxOutages]
  <2>1. up \in [Targets -> BOOLEAN] /\ outages \in [Targets -> 0..MaxOutages]
    BY DEF IInv, RowType
  <2>2. UNCHANGED <<kind, page, row, due, base, changes, lane, told, notices, faults>>
    BY DEF GoDown, ComeUp
  <2>3. \E b \in BOOLEAN : up' = [up EXCEPT ![e] = b]
    BY Zenon DEF GoDown, ComeUp
  <2>4. up' \in [Targets -> BOOLEAN]
    BY <2>1, <2>3
  <2>5. \/ outages[e] < MaxOutages /\ outages' = [outages EXCEPT ![e] = @ + 1]
        \/ outages' = outages
    BY DEF GoDown, ComeUp
  <2>6. outages' \in [Targets -> 0..MaxOutages]
    BY <2>1, <2>5, MonitorAssumption
  <2> QED BY <2>2, <2>4, <2>6
<1>2. LaneType' /\ Shapes'
  BY <1>1 DEF IInv, LaneType, Shapes, Shape
<1>3. RowType'
  BY <1>1 DEF RowType, IInv, row
<1>4. ASSUME NEW t \in Targets PROVE TargetInv(t)'
  BY <1>1, Older DEF IInv, Same, row
<1> QED BY <1>2, <1>3, <1>4 DEF IInv

-----------------------------------------------------------------------------
(* The theorems.                                                           *)

\* The inductive invariant holds at the start.
LEMMA InitIInv == Init => IInv
<1> SUFFICES ASSUME Init PROVE IInv
    OBVIOUS
<1> USE DEF Init
<1>1. RowType
  <2>1. AgeCap \in Nat /\ Cadence \in Nat /\ 0 \in Contents
    BY MonitorAssumption DEF AgeCap, Contents
  <2>2. [s \in Selectors |-> None] \in Baseline
    BY DEF Baseline
  <2>3. base \in [Targets -> Baseline]
    BY <2>2
  <2>4. None \in States
    BY DEF States
  <2>5. news \in [Targets -> News]
    BY DEF News
  <2>6. changes \in [Targets -> [Selectors -> Nat]]
    OBVIOUS
  <2>7. /\ state \in [Targets -> States] /\ isUp \in [Targets -> BOOLEAN \cup {None}]
        /\ age \in [Targets -> 0..AgeCap \cup {None}] /\ due \in [Targets -> 0..Cadence]
        /\ page \in [Targets -> Contents] /\ outages \in [Targets -> 0..MaxOutages]
    BY <2>1, <2>4, MonitorAssumption
  <2>8. /\ told \in [Targets -> {"none", "bad", "fine", "cut", "overlapped"}]
        /\ notices \in [Targets -> Nat] /\ faults \in 0..MaxFaults
    BY MonitorAssumption
  <2> HIDE DEF Init
  <2>9. kind \in [Targets -> {"content", "uptime"}] /\ up \in [Targets -> BOOLEAN]
    BY DEF Init
  <2> QED BY <2>3, <2>5, <2>6, <2>7, <2>8, <2>9 DEF RowType
<1>2. \A l \in Lanes : lane[l] = Idle
  OBVIOUS
<1>3. LaneType /\ Shapes
  BY <1>2, IdleType DEF LaneType, Shapes
<1>4. ASSUME NEW t \in Targets PROVE TargetInv(t)
  <2>1. \A l \in Lanes : t \notin WorkOf(lane[l])
    BY <1>2, IdleType
  <2>2. Agree(None, "none", news[t])
    BY MonitorAssumption DEF Agree, Healthy, Unhealthy
  <2>3. state[t] = None /\ told[t] = "none" /\ notices[t] = 0
    OBVIOUS
  <2>4. \A s \in Selectors : base[t][s] = None /\ changes[t][s] = 0
    OBVIOUS
  <2>5. Recorded(base[t], changes[t], notices[t], page[t])
    BY <2>3, <2>4 DEF Recorded
  <2> QED BY <2>1, <2>2, <2>3, <2>5 DEF TargetInv, Sole, HealthOf, ChangesOf
<1> QED BY <1>1, <1>3, <1>4 DEF IInv

\* Every step keeps it.
LEMMA NextIInv == IInv /\ [Next]_vars => IInv'
<1> SUFFICES ASSUME IInv, [Next]_vars PROVE IInv'
    OBVIOUS
<1>1. CASE UNCHANGED vars
  <2>1. UNCHANGED <<kind, page, up, outages, state, isUp, age, news, due, base, changes, lane, told,
                    notices, faults>>
    BY <1>1 DEF vars, site, row
  <2>2. RowType' /\ LaneType' /\ Shapes'
    BY <2>1 DEF IInv, RowType, LaneType, Shapes, Shape
  <2>3. ASSUME NEW t \in Targets PROVE TargetInv(t)'
    BY <2>1, Older DEF IInv, Same
  <2> QED BY <2>2, <2>3 DEF IInv
<1>2. ASSUME NEW l \in Lanes, Check(l) PROVE IInv'
  BY <1>2, ReadPriorStep, MarkCheckingStep, FetchStep, SaveStep, PublishStep, NotifyStep, EdgeStep
     DEF Check
<1>3. "tick" \in Lanes /\ "request" \in Lanes
  BY DEF Lanes
<1>4. CASE Tick
  BY <1>2, <1>3, <1>4, TickStartStep, PickStep, SweepReadStep, SweepMarkStep, AlarmStep DEF Tick
<1>5. CASE Request
  BY <1>2, <1>3, <1>5, ProbeStep, CaptureStep DEF Request
<1>6. CASE Interrupt \/ Elapse
  BY <1>6, InterruptStep, ElapseStep
<1>7. ASSUME NEW t \in Targets, Edit(t) \/ GoDown(t) \/ ComeUp(t) \/ RequestCheck(t) \/ RequestCapture(t)
      PROVE  IInv'
  BY <1>7, EditStep, OutageStep, RequestStep
<1> QED BY <1>1, <1>4, <1>5, <1>6, <1>7 DEF Next

\* It holds throughout.
LEMMA Inductive == Spec => []IInv
BY InitIInv, NextIInv, PTL DEF Spec

\* Every variable has its type: no age, lag or schedule leaves its range.
THEOREM TypeCorrect == Spec => []TypeOK
<1>1. IInv => TypeOK
  BY DEF IInv, RowType, LaneType, TypeOK, News
<1> QED BY <1>1, Inductive, PTL

\* What maybe_dispatch_health_edge and sweep_stale_health told last of a monitor
\* at rest is the last change of health of its row, for any number of monitors,
\* cadences and edits, as long as no check or sweep of it was cut short,
\* overlapped or lost a write.
THEOREM HealthIsTold == Spec => []HealthTold
<1>1. IInv => HealthTold
  <2> SUFFICES ASSUME IInv, NEW t \in Undisturbed, Resting(t)
               PROVE  told[t] = news[t].owed
      BY DEF HealthTold
  <2>1. t \in Targets /\ told[t] \notin {"cut", "overlapped"} /\ TargetInv(t)
    BY DEF IInv, Undisturbed
  <2>2. \A l \in Lanes : t \notin WorkOf(lane[l])
    BY DEF Resting, Working, WorkOf
  <2> QED BY <2>1, <2>2 DEF TargetInv, HealthOf, Agree
<1> QED BY <1>1, Inductive, PTL

\* finalize_content records no change twice, whatever is cut short or refused,
\* and dispatch_change_automations is not called without one, for any number of
\* selectors and edits, as long as no two lanes worked on the monitor at once.
THEOREM ChangesRecordedOnce == Spec => []NoRenotify
<1>1. IInv => NoRenotify
  <2> SUFFICES ASSUME IInv, NEW t \in Content, told[t] # "overlapped"
               PROVE  /\ \A s \in Selectors : changes[t][s] <= page[t]
                      /\ notices[t] > 0 => \E s \in Selectors : changes[t][s] > 0
                      /\ Cardinality(Selectors) = 1 =>
                            \A s \in Selectors : notices[t] <= changes[t][s]
      BY DEF NoRenotify
  <2>1. t \in Targets /\ Recorded(base[t], changes[t], notices[t], page[t])
    BY DEF IInv, Content, TargetInv, ChangesOf
  <2>2. /\ page[t] \in Nat /\ changes[t] \in [Selectors -> Nat]
        /\ base[t] \in [Selectors -> Contents \cup {None}]
    BY <2>1 DEF IInv, RowType, Contents, Baseline
  <2>3. ASSUME NEW s \in Selectors PROVE changes[t][s] <= page[t]
    <3>1. /\ base[t][s] = None => changes[t][s] = 0
          /\ base[t][s] # None => changes[t][s] <= base[t][s] /\ base[t][s] <= page[t]
      BY <2>1 DEF Recorded
    <3>2. base[t][s] # None => base[t][s] \in Nat
      BY <2>2 DEF Contents
    <3> QED BY <2>2, <3>1, <3>2
  <2> QED BY <2>1, <2>3 DEF Recorded
<1> QED BY <1>1, Inductive, PTL
=============================================================================
