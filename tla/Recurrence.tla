----------------------------- MODULE Recurrence -----------------------------
(***************************************************************************)
(* The structured schedules of src/src/local/scheduler/recurrence.rs: the  *)
(* next fire after an instant, the latest occurrence before it, and the    *)
(* due check of the automation lane, for interval, daily and weekly        *)
(* schedules in a time zone whose clock moves once.                        *)
(*                                                                         *)
(* An instant is a number of hours (UTC); a local day has DayLen of them   *)
(* and a week WeekLen days, so that a model covers several weeks.  A zone  *)
(* is its offset before the instant `at`, changed by `shift` from then on: *)
(* 1 skips a local hour (spring forward), -1 repeats one (fall back).      *)
(***************************************************************************)
EXTENDS Integers, FiniteSets, FiniteSetsExt

CONSTANTS
    DayLen, WeekLen,  \* hours of a day, days of a week
    SearchDays,       \* RECURRENCE_SEARCH_DAYS
    Null              \* the NULL of the schedule columns

ASSUME RecurrenceAssumption ==
    /\ DayLen \in Nat \ {0, 1} /\ WeekLen \in Nat \ {0} /\ SearchDays \in Nat
    /\ SearchDays > WeekLen
    /\ Null \notin Int

\* The local clock of zone z at instant u.
Offset(z, u) == z.base + IF u >= z.at THEN z.shift ELSE 0
LocalOf(z, u) == u + Offset(z, u)
DateOf(z, u) == LocalOf(z, u) \div DayLen

\* with_ymd_and_hms: the instants at which the local clock reads hour h of day d.
Instants(z, d, h) ==
    LET wall == d * DayLen + h
    IN  {u \in {wall - z.base, wall - z.base - z.shift} : LocalOf(z, u) = wall}

\* The earliest on an ambiguous hour, one hour on in a gap, else the same
\* wall clock in UTC.
LocalAtUtc(z, d, h) ==
    LET later == Instants(z, d, Min({h + 1, DayLen - 1}))
    IN  CASE Instants(z, d, h) # {} -> Min(Instants(z, d, h))
          [] Instants(z, d, h) = {} /\ later # {} -> Min(later)
          [] OTHER -> d * DayLen + h

\* A schedule p has a kind, and `every` (interval) or `hour` and `days`.
Matches(p, d) == p.kind = "daily" \/ d % WeekLen \in p.days
Candidate(p, z, d) == LocalAtUtc(z, d, p.hour)

-----------------------------------------------------------------------------
(* Faults.                                                                 *)

\* A day forward is 24 hours of absolute time, which on a 25-hour day can
\* leave the candidate where it was.
NextRun_By24h(p, z, t) ==
    IF p.kind = "interval" THEN t + p.every
    ELSE LET Day(o) == DateOf(z, t + o * DayLen)
             ahead == {o \in 0..SearchDays :
                         Matches(p, Day(o)) /\ (o > 0 \/ Candidate(p, z, Day(o)) > t)}
         IN  IF ahead = {} THEN t + DayLen ELSE Candidate(p, z, Day(Min(ahead)))

\* The walk back covers a week less a day: the same day a week ago is missed.
Behind_Week(p, z, t) ==
    {o \in 0..(WeekLen - 1) :
        Matches(p, DateOf(z, t) - o) /\ Candidate(p, z, DateOf(z, t) - o) <= t}

-----------------------------------------------------------------------------
\* Next fire strictly after t: the first matching calendar day from today on
\* whose candidate is in the future.
NextRun(p, z, t) ==
    IF p.kind = "interval" THEN t + p.every
    ELSE LET today == DateOf(z, t)
             ahead == {o \in 0..SearchDays :
                         Matches(p, today + o) /\ Candidate(p, z, today + o) > t}
         IN  IF ahead = {} THEN t + DayLen ELSE Candidate(p, z, today + Min(ahead))

\* prev_occurrence: how many days back the latest occurrence may be.
Behind(p, z, t) ==
    {o \in 0..SearchDays :
        Matches(p, DateOf(z, t) - o) /\ Candidate(p, z, DateOf(z, t) - o) <= t}

\* is_due: the interval has elapsed, or an occurrence has passed since `last`.
IsDue(p, z, last, t) ==
    IF p.kind = "interval" THEN last # Null => t - last >= p.every
    ELSE /\ Behind(p, z, t) # {}
         /\ last # Null => last < Candidate(p, z, DateOf(z, t) - Min(Behind(p, z, t)))

-----------------------------------------------------------------------------
(* What a daily or weekly schedule means, independently of the search: on  *)
(* each of its days, the first instant at which the local clock has        *)
(* reached the scheduled hour.                                             *)

Occurrences(p, z, span) ==
    LET reached(d) == {u \in span : LocalOf(z, u) >= d * DayLen + p.hour}
        dates == {d \in {DateOf(z, u) : u \in span} : Matches(p, d)}
    IN  {Min(reached(d)) : d \in {e \in dates : reached(e) # {}}}
=============================================================================
