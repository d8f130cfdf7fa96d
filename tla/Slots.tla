------------------------------- MODULE Slots -------------------------------
(* calendar/calendar_service.py: free time in a calendar, and               *)
(* calendar/providers/ics_calendar.py: events as iCalendar text. Times are  *)
(* numbers, of one time zone for the slots; an event of a file has a time   *)
(* and the offset of its zone. Text is a sequence of characters; a line of  *)
(* a file is its key and its value.                                          *)
EXTENDS Integers, Sequences, SequencesExt

(* LocalCalendarProvider.list_events, get_availability                      *)
list_events(busy, start, end) == {b \in busy : b.end >= start /\ b.start <= end}
check_conflicts(busy, start, end) == {b \in list_events(busy, start, end) : b.start < end /\ b.end > start}

Earlier(a, b) == a.start < b.start \/ (a.start = b.start /\ a.end < b.end)
(* mutant: the end of every block is the next candidate *)
Candidate_plain(s, block, duration) ==
    CASE s.found -> s
      [] s.at + duration <= block.start -> [s EXCEPT !.found = TRUE]
      [] OTHER -> [s EXCEPT !.at = block.end]
Candidate(s, block, duration) ==
    CASE s.found -> s
      [] s.at + duration <= block.start -> [s EXCEPT !.found = TRUE]
      [] block.end > s.at -> [s EXCEPT !.at = block.end]
      [] OTHER -> s
(* find_next_available; -1 is None                                          *)
find_next_available(busy, after, duration, horizon) ==
    LET blocks == SetToSortSeq(list_events(busy, after, after + horizon), Earlier)
        last == FoldLeft(LAMBDA s, b : Candidate(s, b, duration), [at |-> after, found |-> FALSE], blocks)
    IN  IF last.found \/ last.at + duration <= after + horizon THEN last.at ELSE -1
-----------------------------------------------------------------------------
(* _escape_ical, and _unescape_ical: four replacements, one after another   *)
_escape_ical(text) ==
    FlattenSeq([i \in DOMAIN text |-> CASE text[i] \in {"\\", ",", ";"} -> <<"\\", text[i]>> [] text[i] = "newline" -> <<"\\", "n">>
                                        [] OTHER -> <<text[i]>>])
RECURSIVE Replace(_, _, _)
Replace(text, c, by) ==
    IF Len(text) < 2 THEN text
    ELSE IF text[1] = "\\" /\ text[2] = c THEN <<by>> \o Replace(SubSeq(text, 3, Len(text)), c, by)
    ELSE <<text[1]>> \o Replace(Tail(text), c, by)
_unescape_ical(text) == Replace(Replace(Replace(Replace(text, "n", "newline"), ",", ","), ";", ";"), "\\", "\\")

(* _to_ical_dt writes the local time as if it were UTC                      *)
_to_ical_dt(t) == t.local
_from_ical_dt(v) == [local |-> v, offset |-> 0]

Line(k, v) == [key |-> k, value |-> v]
_event_to_vevent(e) ==
    <<Line("BEGIN", "VEVENT"), Line("UID", e.id), Line("DTSTART", _to_ical_dt(e.at)), Line("SUMMARY", _escape_ical(e.title))>>
    \o (IF e.description # <<>> THEN <<Line("DESCRIPTION", _escape_ical(e.description))>> ELSE <<>>)
    \o (IF e.reminder THEN <<Line("BEGIN", "VALARM"), Line("DESCRIPTION", <<"R">>), Line("END", "VALARM")>> ELSE <<>>)
    \o <<Line("END", "VEVENT")>>
export_events(events) == FlattenSeq([i \in DOMAIN events |-> _event_to_vevent(events[i])])

Blank == [UID |-> "none", DTSTART |-> 0, SUMMARY |-> <<>>, DESCRIPTION |-> <<>>]
_dict_to_event(d) ==
    [id |-> d.UID, at |-> _from_ical_dt(d.DTSTART), title |-> _unescape_ical(d.SUMMARY), description |-> _unescape_ical(d.DESCRIPTION),
     reminder |-> FALSE]
(* mutant: what the last event had is kept *)
ParseLine_kept(s, line) ==
    CASE line.key = "BEGIN" /\ line.value = "VEVENT" -> [s EXCEPT !.open = TRUE]
      [] line.key = "END" /\ line.value = "VEVENT" /\ s.open -> [s EXCEPT !.open = FALSE, !.events = Append(@, _dict_to_event(s.current))]
      [] s.open /\ line.key \in DOMAIN Blank -> [s EXCEPT !.current[line.key] = line.value]
      [] OTHER -> s
(* _parse_ics: BEGIN and END of an alarm are lines of the event like others *)
ParseLine(s, line) ==
    CASE line.key = "BEGIN" /\ line.value = "VEVENT" -> [s EXCEPT !.open = TRUE, !.current = Blank]
      [] line.key = "END" /\ line.value = "VEVENT" /\ s.open -> [s EXCEPT !.open = FALSE, !.events = Append(@, _dict_to_event(s.current))]
      [] s.open /\ line.key \in DOMAIN Blank -> [s EXCEPT !.current[line.key] = line.value]
      [] OTHER -> s
_parse_ics(lines) == FoldLeft(ParseLine, [open |-> FALSE, current |-> Blank, events |-> <<>>], lines).events

-----------------------------------------------------------------------------
(* scheduler/schedule_calculator.py: when a task runs next. Time is counted *)
(* in minutes from a Monday's midnight, with DAY minutes in a day; seconds, *)
(* time zones and daylight saving are left out (the code computes with local*)
(* wall-clock values).                                                      *)

CONSTANT DAY
Midnight(now) == now - (now % DAY)
Weekday(now) == (now \div DAY) % 7

(* _parse_interval_minutes: a number with its unit                          *)
_parse_interval_minutes(count, unit) ==
    CASE unit = "h" -> count * (DAY \div 24)
      [] unit = "d" -> count * DAY
      [] OTHER -> count

(* _parse_time: hours and minutes of a day                                  *)
_parse_time(hour, minute) == hour * (DAY \div 24) + minute

(* _parse_weekdays: names, groups and numbers; nothing known is Monday      *)
_parse_weekdays(parts) ==
    LET Days(p) == CASE p = "weekdays" -> 0..4 [] p = "weekend" -> 5..6
                     [] p = "mon" -> {0} [] p = "wed" -> {2} [] p = "sun" -> {6} [] OTHER -> {}
        days == UNION {Days(p) : p \in parts}
    IN  IF days = {} THEN {0} ELSE days

(* mutant: the time of day itself counts as still to come *)
NextDailyNow(now, at) == IF Midnight(now) + at < now THEN Midnight(now) + at + DAY ELSE Midnight(now) + at

(* compute_next_run, daily: that time today, or tomorrow once it has come   *)
NextDaily(now, at) == IF Midnight(now) + at <= now THEN Midnight(now) + at + DAY ELSE Midnight(now) + at

(* compute_next_run, weekly: the first day after today that is asked for    *)
NextWeekly(now, days, at) ==
    LET Asked(o) == Weekday(now + o * DAY) \in days
        k == IF \E o \in 1..7 : Asked(o) THEN CHOOSE o \in 1..7 : Asked(o) /\ \A p \in 1..o - 1 : ~Asked(p) ELSE 7
    IN  Midnight(now) + k * DAY + at

(* A cron expression: its minute field names one minute (at), any, every so *)
(* many of them (every: a step that comes round with each unit of time      *)
(* here), or is no field at all (bad); its hour field one hour or any; and  *)
(* its days are those of the week it fits.                                  *)
Fits(cron, t) ==
    LET hours == DAY \div 24
    IN  /\ cron.field = "at" => t % hours = cron.minute
        /\ cron.anyHour \/ (t % DAY) \div hours = cron.hour
        /\ Weekday(t) \in cron.weekdays
Raises == -1

(* croniter: the next time that fits all fields; it raises on what is none  *)
croniter(now, cron) ==
    IF cron.field = "bad" THEN Raises
    ELSE CHOOSE t \in now + 1..now + 8 * DAY : Fits(cron, t) /\ \A u \in now + 1..t - 1 : ~Fits(cron, u)

(* _compute_cron_next: croniter if it is installed; otherwise minute and    *)
(* hour, '*' being 0 and 9, and the days ignored; what int() refuses is an  *)
(* hour from now                                                            *)
_compute_cron_next(now, cron) ==
    CASE cron.installed -> croniter(now, cron)
      [] cron.field \in {"at", "any"} ->
            NextDaily(now, _parse_time(IF cron.anyHour THEN 9 ELSE cron.hour, IF cron.field = "any" THEN 0 ELSE cron.minute))
      [] OTHER -> now + DAY \div 24

(* compute_next_run                                                         *)
compute_next_run(type, s, now) ==
    CASE type = "one_shot" -> IF s.given THEN s.date ELSE now + 1
      [] type = "interval" -> now + _parse_interval_minutes(s.count, s.unit)
      [] type = "daily" -> NextDaily(now, _parse_time(s.hour, s.minute))
      [] type = "weekly" -> NextWeekly(now, _parse_weekdays(s.days), _parse_time(s.hour, s.minute))
      [] type = "cron" -> _compute_cron_next(now, s)
      [] OTHER -> now + DAY \div 24
=============================================================================
