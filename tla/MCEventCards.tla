---------------------------- MODULE MCEventCards ----------------------------
(* Constants for the runs of EventCards: days of four hours, a zone east of  *)
(* UTC, and events made by this client and by the app.                       *)
EXTENDS EventCards

MCOffset == [z \in {"UTC", "East"} |-> IF z = "East" THEN 1 ELSE 0]
MCKnownKeys == {"FREQ", "INTERVAL", "COUNT", "UNTIL", "BYDAY"}
MCDefaultReminders == [allday \in BOOLEAN |-> IF allday THEN {"day"} ELSE {"hour"}]

At(wall) == [wall |-> wall, dateonly |-> FALSE]
On(day) == [wall |-> day * DayLength, dateonly |-> TRUE]

Daily(count, until) == [NothingAsked EXCEPT !.repeat = "DAILY", !.count = count, !.until = until]
Raw(parts) == [NothingAsked EXCEPT !.raw = parts]

New == [text |-> [n \in TextName |-> IF n = "LOCATION" THEN "" ELSE "a"],
        start |-> At(4), end |-> {}, allday |-> FALSE, zone |-> {},
        recurrence |-> NothingAsked, reminders |-> {}, color |-> {}]
AllDay == [New EXCEPT !.allday = TRUE, !.start = On(1)]

MCCreates ==
    {[New EXCEPT !.recurrence = Daily(3, {}), !.reminders = {{}}, !.color = {"red"}],
     [New EXCEPT !.recurrence = Daily(0, {3}), !.zone = {"East"}, !.end = {At(6)}],
     [New EXCEPT !.recurrence = Daily(MaxCount + 1, {})],
     [New EXCEPT !.recurrence = Daily(0, {MaxUntilDay + 1})],
     [New EXCEPT !.recurrence = Raw(<< <<"FREQ", "DAILY">>, <<"UNTIL", UntilDate(MaxUntilDay + 1)>> >>)],
     [New EXCEPT !.recurrence = Raw(<< <<"FREQ", "DAILY">>, <<"COUNT", 2>>, <<"UNTIL", UntilDate(2)>> >>)],
     [AllDay EXCEPT !.recurrence = Daily(0, {MaxUntilDay}), !.end = {On(2)}, !.zone = {"East"}],
     [AllDay EXCEPT !.color = {"default"}, !.reminders = {{"day"}}],
     [AllDay EXCEPT !.end = {On(0)}]}

Nothing == [text |-> NothingChanged, start |-> {}, end |-> {}, zone |-> {},
            occurrence |-> {}, norepeat |-> FALSE, recurrence |-> NothingAsked,
            reminders |-> {}, color |-> {}]
Say(n, own) == [NothingChanged EXCEPT ![n] = {own}]

MCRequests ==
    {[Nothing EXCEPT !.text = Say("SUMMARY", "b")],
     [Nothing EXCEPT !.text = Say("DESCRIPTION", ""), !.zone = {"East"}],
     [Nothing EXCEPT !.start = {At(5)}, !.end = {At(7)}],
     [Nothing EXCEPT !.start = {On(2)}, !.zone = {"East"}],
     [Nothing EXCEPT !.norepeat = TRUE],
     [Nothing EXCEPT !.recurrence = Daily(0, {3}), !.end = {At(10)}],
     [Nothing EXCEPT !.recurrence = Daily(0, {MaxUntilDay}), !.zone = {"East"}],
     [Nothing EXCEPT !.recurrence = Raw(<< <<"FREQ", "DAILY">>, <<"COUNT", MaxCount + 1>> >>)],
     [Nothing EXCEPT !.recurrence = Daily(2, {}), !.norepeat = TRUE],
     [Nothing EXCEPT !.reminders = {{}}, !.color = {"default"}],
     [Nothing EXCEPT !.reminders = {{{}}}, !.color = {"blue"}],
     [Nothing EXCEPT !.occurrence = {At(8)}, !.text = Say("SUMMARY", "c")],
     [Nothing EXCEPT !.occurrence = {At(8)}, !.start = {At(9)}, !.color = {"blue"}],
     [Nothing EXCEPT !.occurrence = {At(8)}, !.recurrence = [NothingAsked EXCEPT !.count = 2],
                     !.reminders = {{}}, !.end = {At(10)}],
     [Nothing EXCEPT !.occurrence = {On(2)}, !.text = Say("LOCATION", "l")]}

MCSkips == {At(8), At(12), On(2)}

\* Rows of the app: without an encrypted calendar card, with a conference, an
\* invitation, skipped occurrences that are on the calendar card too, an alarm
\* and a property this client does not know.
Meeting(zone, rule, exdates, answers, key) ==
    [cards |-> <<Card("shared", FALSE,
                      [NoLines EXCEPT !["DTSTART"] = {DateValue(Timed(4, UTC), zone, FALSE)},
                                      !["DTEND"] = {DateValue(Timed(5, UTC), zone, FALSE)},
                                      !["SEQUENCE"] = {1}, !["ORGANIZER"] = {"boss"},
                                      !["X-PM-CONFERENCE-ID"] = {"id"},
                                      !["RRULE"] = {rule} \ {NoRule}, !["EXDATE"] = exdates]),
                 [Card("shared", TRUE,
                       [NoLines EXCEPT !["SUMMARY"] = {Text("a")},
                                       !["DESCRIPTION"] = {[own |-> "d", block |-> TRUE]},
                                       !["X-PM-CONFERENCE-URL"] = {"url"}, !["X-OTHER"] = {"x"},
                                       !["X-PM-SESSION-KEY"] = {"k"}]) EXCEPT !.alarms = {"alarm"}],
                 Card("calendar", FALSE,
                      [NoLines EXCEPT !["STATUS"] = {"TENTATIVE"}, !["TRANSP"] = {"OPAQUE"},
                                      !["EXDATE"] = exdates]),
                 Card("attendees", TRUE, [NoLines EXCEPT !["ATTENDEE"] = DOMAIN answers])>>,
     answers |-> answers, notifications |-> {}, color |-> {"green"}, key |-> key]

DailyRule == [k \in {"FREQ"} |-> "DAILY"]

MCAppRows ==
    {Meeting(zone, DailyRule, exdates, answers, key) :
       zone \in {"East"}, exdates \in {{}, {DateValue(Timed(12, UTC), "East", FALSE)}},
       answers \in {[t \in {1} |-> 0]}, key \in Key}
    \cup {Meeting("UTC", NoRule, {}, [t \in {1, 2} |-> 0], "old")}
=============================================================================
