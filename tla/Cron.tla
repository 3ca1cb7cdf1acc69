-------------------------------- MODULE Cron --------------------------------
(***************************************************************************)
(* The schedule of `@cron` (compiler/src/cron.rs) and the calendar it is    *)
(* evaluated on (compiler/src/runtime/timestamp.rs).  Time is in ticks      *)
(* since 1970-01-01; a minute has TicksPerMinute of them, an hour           *)
(* MinutesPerHour minutes, a day HoursPerDay hours.  A field of an          *)
(* expression is the sequence of its parts [range, step]: the range is <<>> *)
(* for `*`, <<v>> or <<lo, hi>>, the step <<>> when none is written.        *)
(***************************************************************************)
EXTENDS Questions, Integers, Sequences

CONSTANTS TicksPerMinute, MinutesPerHour, HoursPerDay,
    YearsAhead   \* the years after that of the question in which Due tells the runs

ASSUME CronAssumption ==
    /\ None \notin Nat
    /\ TicksPerMinute \in Nat \ {0} /\ MinutesPerHour \in Nat \ {0} /\ HoursPerDay \in Nat \ {0}
    /\ YearsAhead \in Nat /\ YearsAhead > 4

MinutesPerDay == MinutesPerHour * HoursPerDay

Fields == {"minute", "hour", "day_of_month", "month", "day_of_week"}
FieldParts == [range : {r \in Seq(Nat) : Len(r) <= 2}, step : {s \in Seq(Nat) : Len(s) <= 1}]

\* Where each field may lie.  Sunday is 0 and 7.
Lowest  == [f \in Fields |-> IF f \in {"day_of_month", "month"} THEN 1 ELSE 0]
Highest == [minute |-> MinutesPerHour - 1, hour |-> HoursPerDay - 1,
            day_of_month |-> 31, month |-> 12, day_of_week |-> 7]

Low(part, f)  == IF part.range = <<>> THEN Lowest[f] ELSE part.range[1]
High(part, f) == IF part.range = <<>> THEN Highest[f] ELSE part.range[Len(part.range)]
Step(part)    == IF part.step = <<>> THEN 1 ELSE part.step[1]

PartOk(part, f) ==
    Step(part) > 0 /\ Low(part, f) <= High(part, f) /\ Low(part, f) >= Lowest[f] /\ High(part, f) <= Highest[f]

ExpressionOk(fields) == \A f \in Fields : \A i \in DOMAIN fields[f] : PartOk(fields[f][i], f)

\* The values a field allows.
parse_field(spec, f) ==
    UNION {{v \in Low(spec[i], f)..High(spec[i], f) : (v - Low(spec[i], f)) % Step(spec[i]) = 0} :
             i \in DOMAIN spec}

\* Only the text `*` leaves a field unrestricted: a list or a step that covers
\* everything restricts it.
Restricted(spec) == spec # <<[range |-> <<>>, step |-> <<>>]>>

\* 7 is folded into 0.
parse_expression(fields) ==
    [minute |-> parse_field(fields.minute, "minute"),
     hour |-> parse_field(fields.hour, "hour"),
     day_of_month |-> parse_field(fields.day_of_month, "day_of_month"),
     month |-> parse_field(fields.month, "month"),
     day_of_week |-> {v % 7 : v \in parse_field(fields.day_of_week, "day_of_week")},
     dom_restricted |-> Restricted(fields.day_of_month),
     dow_restricted |-> Restricted(fields.day_of_week)]

\* Year, month and day of a number of days since 1970-01-01.
civil_from_days(days) ==
    LET z   == days + 719468
        era == z \div 146097
        doe == z - era * 146097
        yoe == (doe - doe \div 1460 + doe \div 36524 - doe \div 146096) \div 365
        doy == doe - (365 * yoe + yoe \div 4 - yoe \div 100)
        mp  == (5 * doy + 2) \div 153
        m   == mp + (IF mp < 10 THEN 3 ELSE -9)
    IN [year |-> yoe + era * 400 + (IF m <= 2 THEN 1 ELSE 0),
        month |-> m,
        day |-> doy - (153 * mp + 2) \div 5 + 1]

\* Two restricted fields are alternatives; one that is restricted decides alone.
DayOk(e, date, weekday) ==
    CASE e.dom_restricted /\ e.dow_restricted -> date.day \in e.day_of_month \/ weekday \in e.day_of_week
      [] e.dom_restricted /\ ~e.dow_restricted -> date.day \in e.day_of_month
      [] ~e.dom_restricted /\ e.dow_restricted -> weekday \in e.day_of_week
      [] ~e.dom_restricted /\ ~e.dow_restricted -> TRUE

\* 1970-01-01 was a Thursday.
OnDay(e, days) ==
    LET date == civil_from_days(days) IN date.month \in e.month /\ DayOk(e, date, (days + 4) % 7)

AtMinute(e, at) == at \div MinutesPerHour \in e.hour /\ at % MinutesPerHour \in e.minute

\* Mutant: the search stops after four years of 365 days.
ShortAhead == 4 * 365 * MinutesPerDay

MaxMinutesAhead == 4 * 366 * MinutesPerDay

\* The minutes the search would stop at, from the one after that of `now` on.
Candidates(e, now) ==
    LET start == now \div TicksPerMinute + 1
    IN {minute \in start..start + MaxMinutesAhead - 1 :
          AtMinute(e, minute % MinutesPerDay) /\ OnDay(e, minute \div MinutesPerDay)}

\* The first of them, None when the search gives up.
next_run_after(e, now) ==
    IF Candidates(e, now) = {} THEN None
    ELSE (CHOOSE first \in Candidates(e, now) : \A other \in Candidates(e, now) : first <= other) * TicksPerMinute
----------------------------------------------------------------------------
\* The calendar, in days since 1970-01-01: a leap year every four years, but for three
\* centuries of four.
LeapYear(y) == y % 4 = 0 /\ (y % 100 = 0 => y % 400 = 0)
LeapYears(y) == y \div 4 - y \div 100 + y \div 400   \* up to the year y

MonthDays(y, m) == CASE m = 2 -> IF LeapYear(y) THEN 29 ELSE 28
                     [] m \in {4, 6, 9, 11} -> 30
                     [] OTHER -> 31

YearStart(y) == 365 * (y - 1970) + LeapYears(y - 1) - LeapYears(1969)
MonthStart(y, m) ==
    <<0, 31, 59, 90, 120, 151, 181, 212, 243, 273, 304, 334>>[m] + (IF m > 2 /\ LeapYear(y) THEN 1 ELSE 0)
DayOf(y, m, d) == YearStart(y) + MonthStart(y, m) + d - 1

\* A schedule, the tick it is asked at and its year.
Today == (question.now.tick \div TicksPerMinute) \div MinutesPerDay
AskSchedule ==
    /\ Asked("schedule") /\ answer = None
    /\ question.fields \in [Fields -> Seq(FieldParts)] /\ \A f \in Fields : question.fields[f] # <<>>
    /\ question.now.tick \in Nat /\ question.now.year \in Nat
    /\ Today \in YearStart(question.now.year)..YearStart(question.now.year + 1) - 1

AnswerSchedule ==
    /\ Asked("schedule") /\ answer = None
    /\ answer' = IF ExpressionOk(question.fields)
                 THEN [accepted |-> TRUE, next |-> next_run_after(parse_expression(question.fields), question.now.tick)]
                 ELSE [accepted |-> FALSE, next |-> None]
    /\ UNCHANGED question

ScheduleSpec == AskSchedule /\ [][AnswerSchedule]_<<question, answer>>

FirstOf(f) == IF f \in {"day_of_month", "month"} THEN 1 ELSE 0
LastOf(f)  == CASE f = "minute" -> MinutesPerHour - 1
              [] f = "hour" -> HoursPerDay - 1
              [] f = "day_of_month" -> 31
              [] f = "month" -> 12
              [] f = "day_of_week" -> 7

Every == <<[range |-> <<>>, step |-> <<>>]>>

InField(v, f) ==
    \E i \in DOMAIN question.fields[f] :
        LET part == question.fields[f][i]
            from == IF part.range = <<>> THEN FirstOf(f) ELSE part.range[1]
        IN /\ part.range # <<>> => from <= v /\ v <= part.range[Len(part.range)]
           /\ part.step # <<>> => (v - from) % part.step[1] = 0
WeekdayIn(v) == InField(v, "day_of_week") \/ (v = 0 /\ InField(7, "day_of_week"))

\* The day n, d-th of its month, is one the expression names.
DueDay(d, n) ==
    LET anyDate == question.fields.day_of_month = Every
        anyWeekday == question.fields.day_of_week = Every
    IN \/ anyDate /\ anyWeekday
       \/ ~anyDate /\ InField(d, "day_of_month")
       \/ ~anyWeekday /\ WeekdayIn((n + 4) % 7)

DueIn(y, m) == {DayOf(y, m, d) : d \in {x \in 1..MonthDays(y, m) : DueDay(x, DayOf(y, m, x))}}
DueDays ==
    UNION {DueIn(y, m) : y \in question.now.year..question.now.year + YearsAhead,
                         m \in {x \in 1..12 : InField(x, "month")}}
DueMinutes ==
    {h * MinutesPerHour + m : h \in {x \in 0..HoursPerDay - 1 : InField(x, "hour")},
                              m \in {x \in 0..MinutesPerHour - 1 : InField(x, "minute")}}

\* The ticks after now at which the expression is due.
Later ==
    {t \in {(d * MinutesPerDay + m) * TicksPerMinute : d \in DueDays, m \in DueMinutes} : t > question.now.tick}

\* Some field has a value outside its domain, a range from back to front or a step of 0.
Unreadable ==
    \E f \in Fields : \E i \in DOMAIN question.fields[f] :
        LET part == question.fields[f][i] IN
        \/ part.step = <<0>>
        \/ \E j \in DOMAIN part.range : part.range[j] \notin FirstOf(f)..LastOf(f)
        \/ Len(part.range) = 2 /\ part.range[1] > part.range[2]

(* A task of `@cron` runs next at the first instant after now that its      *)
(* expression names, on the calendar as it is: leap days, the ends of       *)
(* months, either of two restricted day fields, 7 for Sunday.  The task is  *)
(* given up only when no such instant exists; or, with a leap day that a    *)
(* century leaves out, when it is more than four years away.                *)
NextRunIsFirst ==
    Answered("schedule") =>
        IF Unreadable THEN ~answer.accepted
        ELSE LET fourYears == question.now.tick + 4 * 366 * MinutesPerDay * TicksPerMinute
                 century == \E y \in question.now.year..question.now.year + 4 : y % 100 = 0 /\ ~LeapYear(y)
             IN /\ answer.accepted
                /\ IF answer.next = None
                   THEN Later = {} \/ (century /\ \A t \in Later : t > fourYears)
                   ELSE answer.next \in Later /\ \A t \in Later : answer.next <= t
=============================================================================
