---------------------------- MODULE Subscriptions ----------------------------
(***************************************************************************)
(* What a change of an audit schedule, an improvement job or a completion  *)
(* email makes of the setting that is stored (audit/schedules.py,          *)
(* scheduling.py, improvement_jobs.py, application/subscriptions.py), as   *)
(* operators.  A field that is not given is None; a clock time, a timezone *)
(* or a list of days is a name, and the fields that no update can name are *)
(* one field, kept.                                                        *)
(***************************************************************************)

None == "none"
Or(value, default) == IF value = None THEN default ELSE value

Cadences == {"daily", "workdays", "weekly-3x", "weekly-2x", "weekly", "monthly"}

(* One value per reason an argument is turned down for.                    *)
BadCadence == "hourly"
BadTime == "25:00"
BadTimezone == "Mars"

ValidTiming(cadence, time, timezone) ==
    /\ cadence \in Cadences \cup {None}
    /\ time # BadTime
    /\ timezone # BadTimezone

----------------------------------------------------------------------------
(* The clock time and who chose it                                         *)

Timing(time, source) == [time |-> time, source |-> source]

SelectScheduleTime(requested, time, source, autoDefault) ==
    IF requested = "auto" THEN Timing(autoDefault, "auto")
    ELSE IF requested # None THEN Timing(requested, "user")
    ELSE IF source = "user" THEN Timing(Or(time, autoDefault), "user")
    ELSE Timing(autoDefault, "auto")

SelectPreservedAutoTime(requested, time, source, autoDefault) ==
    IF requested = "auto" THEN Timing(Or(time, autoDefault), "auto")
    ELSE SelectScheduleTime(requested, time, source, autoDefault)

----------------------------------------------------------------------------
(* Audit schedules                                                         *)

Schedule(enabled, cadence, time, source, timezone, kept) ==
    [enabled |-> enabled, cadence |-> cadence, time |-> time, source |-> source,
     timezone |-> timezone, kept |-> kept]

NoSchedule == Schedule(None, None, None, None, None, None)

ScheduleUpdate(enabled, cadence, timezone) ==
    [enabled |-> enabled, cadence |-> cadence, time |-> None, timezone |-> timezone]

ValidScheduleUpdate(update) ==
    /\ update # ScheduleUpdate(None, None, None)
    /\ ValidTiming(update.cadence, update.time, update.timezone)

PlanScheduleWithoutDefault(existing, update) ==
    LET timing == SelectScheduleTime(update.time, existing.time, existing.source, "00:00")
    IN  IF existing = NoSchedule /\ update.enabled # "on" THEN NoSchedule
        ELSE Schedule(update.enabled, Or(update.cadence, existing.cadence), timing.time,
                      timing.source, Or(update.timezone, existing.timezone), "first")

PlanScheduleUpdate(existing, update) ==
    LET timing == SelectScheduleTime(update.time, existing.time, existing.source, "00:00")
    IN  IF existing = NoSchedule /\ update.enabled # "on" THEN NoSchedule
        ELSE Schedule(Or(update.enabled, Or(existing.enabled, "off")),
                      Or(update.cadence, Or(existing.cadence, "workdays")),
                      timing.time, timing.source,
                      Or(update.timezone, Or(existing.timezone, "UTC")),
                      IF existing = NoSchedule THEN "first" ELSE existing.kept)

AutoTime(existing) == [existing EXCEPT !.time = "00:00", !.source = "auto"]

----------------------------------------------------------------------------
(* Improvement jobs                                                        *)

Job(enabled, automatic, frequency, days, time, source, timezone, kept) ==
    [enabled |-> enabled, automatic |-> automatic, frequency |-> frequency, days |-> days,
     time |-> time, source |-> source, timezone |-> timezone, kept |-> kept]

NoJob == Job(None, None, None, None, None, None, None, None)
BadJob == [NoJob EXCEPT !.kept = "error"]

JobUpdate(enabled, automatic, frequency, days, time, timezone) ==
    [enabled |-> enabled, automatic |-> automatic, frequency |-> frequency, days |-> days,
     time |-> time, timezone |-> timezone]

ValidJobUpdate(update) ==
    /\ update # JobUpdate(None, None, None, None, None, None)
    /\ ValidTiming(update.frequency, update.time, update.timezone)

(* BadJob is the ValueError that asks for --timezone.                      *)
DesiredJob(existing, update) ==
    LET timezone == Or(update.timezone, existing.timezone)
        timing == SelectPreservedAutoTime(update.time, existing.time, existing.source, "09:00")
    IN  IF existing = NoJob /\ update.enabled # "on" THEN NoJob
        ELSE IF timezone = None THEN BadJob
        ELSE Job(Or(update.enabled, IF existing = NoJob THEN "on" ELSE existing.enabled),
                 Or(update.automatic, IF existing = NoJob THEN "on" ELSE existing.automatic),
                 Or(update.frequency, Or(existing.frequency, "workdays")),
                 Or(update.days, Or(existing.days, "workdays")),
                 timing.time, timing.source, timezone,
                 Or(existing.kept, "first"))

----------------------------------------------------------------------------
(* Completion emails: the request carries only the fields that were given. *)

Email(manual, scheduled) == [manual |-> manual, scheduled |-> scheduled]
NoEmail == Email(None, None)

ValidEmailUpdate(update) == update # Email(None, None)

EmailEffectiveStrict(current, requested) == current = requested

EmailEffective(current, requested) == requested = None \/ current = requested

MergeEmail(current, update) ==
    Email(Or(update.manual, current.manual), Or(update.scheduled, current.scheduled))

----------------------------------------------------------------------------
(* One planned decision of each kind of batch: the value to write, or none *)
(* when the setting is left alone.                                         *)

Unchanged(value) == [status |-> "unchanged", value |-> value]
Changed(value) == [status |-> "changed", value |-> value]

DecideSchedule(current, update) ==
    LET desired == PlanScheduleUpdate(current, update)
    IN  IF desired \in {NoSchedule, current} THEN Unchanged(current) ELSE Changed(desired)

DecideAutoTime(current) ==
    IF AutoTime(current) = current THEN Unchanged(current) ELSE Changed(AutoTime(current))

DecideJob(current, update) ==
    LET desired == DesiredJob(current, update)
    IN  IF desired \in {NoJob, current} THEN Unchanged(current) ELSE Changed(desired)

DecideEmail(current, update) ==
    IF /\ EmailEffective(current.manual, update.manual)
       /\ EmailEffective(current.scheduled, update.scheduled)
    THEN Unchanged(current) ELSE Changed(update)
=============================================================================
