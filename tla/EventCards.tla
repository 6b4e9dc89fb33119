----------------------------- MODULE EventCards -----------------------------
(***************************************************************************)
(* The content of an event, as it is stored and as the operations of the   *)
(* client write, rewrite, read and export it.                              *)
(*                                                                         *)
(* A row holds cards: the shared and the calendar content each have a      *)
(* signed card anyone can read and an encrypted one, the attendees have an *)
(* encrypted one, and answers, reminders and colour are plain fields.  An  *)
(* update rewrites the whole row, so that what the client does not know    *)
(* of survives only because cards are patched line by line.  Reading and   *)
(* exporting put the cards together, each by its own rules.                *)
(*                                                                         *)
(* A card gives each property name the set of its values; a row's cards    *)
(* come in the order they are read in, each with the part it belongs to.   *)
(* There is one event, called main, and at most one edited occurrence of   *)
(* it.  Requests are whole here: EventSeries interleaves their steps.      *)
(***************************************************************************)
EXTENDS RecurrenceRules, FiniteSets

CONSTANTS Token, Status,    \* attendees (naturals) and their answers
          Key,              \* keys of the calendar, old and new
          Creates, Requests, Skips,
          AppRows,          \* rows other clients store
          HomeZone, DefaultDuration, DefaultReminders, CalendarColor,
          MaxAnswers,
          MaxEdits          \* bound on the changes to the rows

TextName == {"SUMMARY", "DESCRIPTION", "LOCATION"}
Structure == {"DTSTART", "DTEND", "RECURRENCE-ID", "RRULE", "SEQUENCE"}
Name == TextName \cup Structure \cup
        {"EXDATE", "STATUS", "TRANSP", "COMMENT", "ORGANIZER", "ATTENDEE", "X-OTHER",
         "X-PM-CONFERENCE-ID", "X-PM-CONFERENCE-URL", "X-PM-SESSION-KEY"}

\* No row is one without cards.
NoRow == [cards |-> <<>>]

VARIABLES main,     \* the event's row, NoRow if there is none
          single,   \* the row of its edited occurrence
          edits

vars == <<main, single, edits>>

The(S) == CHOOSE x \in S : TRUE
Or(S, default) == IF S = {} THEN default ELSE The(S)

-----------------------------------------------------------------------------
(* Cards, and building those of a new event.                               *)

NoLines == [n \in Name |-> {}]
Card(part, enc, lines) == [part |-> part, enc |-> enc, alarms |-> {}, props |-> lines]

Text(own) == [own |-> own, block |-> FALSE]
OptionalText(text) == {text} \ {Text("")}

buildSharedSigned(e) ==
    [NoLines EXCEPT !["DTSTART"] = {DateValue(e.start, e.zone, e.allday)},
                    !["DTEND"] = {DateValue(e.end, e.zone, e.allday)},
                    !["RECURRENCE-ID"] = {DateValue(t, e.zone, e.allday) : t \in e.original},
                    !["RRULE"] = {e.rrule} \ {NoRule},
                    !["SEQUENCE"] = {e.sequence}]
buildSharedEncrypted(e) ==
    [n \in Name |-> IF n \in TextName THEN OptionalText(e.text[n]) ELSE {}]
buildCalendarSigned == [NoLines EXCEPT !["STATUS"] = {"CONFIRMED"}, !["TRANSP"] = {"OPAQUE"}]
buildCalendarEncrypted == [NoLines EXCEPT !["COMMENT"] = {""}]

\* The row of a new event, sealed with a calendar key.
Create(e, key) ==
    [cards |-> <<Card("shared", FALSE, buildSharedSigned(e)),
                 Card("shared", TRUE, buildSharedEncrypted(e)),
                 Card("calendar", FALSE, buildCalendarSigned),
                 Card("calendar", TRUE, buildCalendarEncrypted)>>,
     answers |-> <<>>,
     notifications |-> e.reminders, color |-> e.color, key |-> key]

-----------------------------------------------------------------------------
(* Reading a row.                                                          *)

Places(row) == DOMAIN row.cards
Readable(row, keys) == {i \in Places(row) : row.cards[i].enc => row.key \in keys}
SharedSigned(row) == {i \in Places(row) : row.cards[i].part = "shared" /\ ~row.cards[i].enc}
SharedEncrypted(row) == {i \in Places(row) : row.cards[i].part = "shared" /\ row.cards[i].enc}
Sequenced(row) == {i \in Places(row) : row.cards[i].part # "calendar" /\ ~row.cards[i].enc}

\* The values of a property on the cards at the given places.
Values(row, i, n) == row.cards[i].props[n]
Giving(row, at, n) == {i \in at : Values(row, i, n) # {}}
First(row, at, n) ==
    IF Giving(row, at, n) = {} THEN {} ELSE Values(row, Min(Giving(row, at, n)), n)
Latest(row, at, n) ==
    IF Giving(row, at, n) = {} THEN {} ELSE Values(row, Max(Giving(row, at, n)), n)
AllOf(row, at, n) == UNION {Values(row, i, n) : i \in at}
AlarmsOf(row, at) == UNION {row.cards[i].alarms : i \in at}

\* The fields of its own the server fills from the signed shared card.
Column(row, n) == First(row, SharedSigned(row), n)
StartTimezone(row) == The(Column(row, "DTSTART")).zone
IsAllDay(row) == The(Column(row, "DTSTART")).allday
RRule(row) == Or(Column(row, "RRULE"), NoRule)
RecurrenceID(row) == {parseDateTime(v) : v \in Column(row, "RECURRENCE-ID")}
IsMaster(row) == RRule(row) # NoRule /\ RecurrenceID(row) = {}

\* It returns at most MaxAnswers answers with a row.
Get(row) ==
    LET kept == {t \in DOMAIN row.answers :
                   Cardinality({u \in DOMAIN row.answers : u < t}) < MaxAnswers}
    IN  [row EXCEPT !.answers = [t \in kept |-> row.answers[t]]]

assembleConference(row, at) ==
    LET id == Latest(row, at, "X-PM-CONFERENCE-ID")
        url == Latest(row, at, "X-PM-CONFERENCE-URL")
    IN  IF id = {} /\ url = {} THEN {} ELSE {[id |-> id, url |-> url]}

enrichAttendeeStatus(tokens, answers) ==
    [t \in tokens |-> IF t \in DOMAIN answers THEN answers[t] ELSE -1]

\* Later cards win; SEQUENCE counts only on a signed shared or attendees card.
Decrypt(row, keys) ==
    LET at == Readable(row, keys)
        conference == assembleConference(row, at)
        Shown(n, text) == [text EXCEPT !.block = @ /\ ~(n = "DESCRIPTION" /\ conference # {})]
    IN  [start |-> parseDateTime(The(Latest(row, at, "DTSTART"))),
         end |-> parseDateTime(The(Latest(row, at, "DTEND"))),
         zone |-> StartTimezone(row),
         allday |-> IsAllDay(row),
         rule |-> RRule(row),
         exdates |-> {parseDateTime(v) : v \in Column(row, "EXDATE")},
         original |-> RecurrenceID(row),
         text |-> [n \in TextName |-> Shown(n, Or(Latest(row, at, n), Text("")))],
         organizer |-> Latest(row, at, "ORGANIZER"),
         answers |-> enrichAttendeeStatus(AllOf(row, at, "ATTENDEE"), row.answers),
         conference |-> conference,
         sequence |-> Or(Latest(row, Sequenced(row), "SEQUENCE"), 0),
         reminders |-> row.notifications,
         color |-> row.color]

DecryptFailed(row, keys) == Readable(row, keys) # Places(row)

EffectiveReminders(e) == Or(e.reminders, DefaultReminders[e.allday])
EffectiveColor(e) == Or(e.color, CalendarColor)

-----------------------------------------------------------------------------
(* Rewriting a row.  A patch deletes names, sets those it has values for,  *)
(* and appends dates.                                                      *)

\* Seeded fault: what is set is added to what is there.
PatchedByAppending(card, patch) ==
    [card EXCEPT !.props = [n \in Name |->
        (IF n \in patch.delete THEN {} ELSE @[n])
        \cup patch.set[n]
        \cup {v \in patch.append : n = "EXDATE"}]]

\* Seeded fault: a card is rebuilt from the properties the client knows of.
RebuiltCard(card, patch) ==
    [card EXCEPT !.alarms = {},
                 !.props = [n \in Name |->
        (IF n \in patch.delete \cup {"X-OTHER"} THEN {}
         ELSE IF patch.set[n] # {} THEN patch.set[n]
         ELSE @[n]) \cup {v \in patch.append : n = "EXDATE"}]]

PatchCard(card, patch) ==
    [card EXCEPT !.props = [n \in Name |->
        (IF n \in patch.delete THEN {}
         ELSE IF patch.set[n] # {} THEN patch.set[n]
         ELSE @[n]) \cup {v \in patch.append : n = "EXDATE"}]]

Significant(opts) == \/ opts.start # {} \/ opts.end # {} \/ opts.rrule # {}
                     \/ opts.clearRRule \/ opts.addExdates # {}

signedPatch(current, opts) ==
    LET zone == Or(opts.zone, current.zone)
        rezone == opts.zone # {} /\ opts.zone # {current.zone}
        Moved(given, old) ==
            {DateValue(t, zone, current.allday) :
               t \in IF given = {} /\ rezone THEN {Timed(old, UTC)} ELSE given}
    IN  [delete |-> IF opts.clearRRule THEN {"RRULE", "EXDATE"} ELSE {},
         set |-> [NoLines EXCEPT
                    !["DTSTART"] = Moved(opts.start, current.start),
                    !["DTEND"] = Moved(opts.end, current.end),
                    !["SEQUENCE"] = IF Significant(opts) THEN {current.sequence + 1} ELSE {},
                    !["RRULE"] = IF opts.clearRRule THEN {} ELSE opts.rrule],
         append |-> {DateValue(t, zone, current.allday) : t \in opts.addExdates}]

encPatch(opts) ==
    [delete |-> {n \in TextName : opts.text[n] = {""}},
     set |-> [n \in Name |-> IF n \in TextName THEN {Text(own) : own \in opts.text[n] \ {""}} ELSE {}],
     append |-> {}]

\* Seeded fault: every shared card gets all edits.
ResealedAlike(card, signed, enc) == PatchCard(PatchCard(card, signed), enc)

resealCard(card, signed, enc) == PatchCard(card, IF card.enc THEN enc ELSE signed)

\* What an update sends: the row as it was read, with the patches on its
\* shared cards; the others are sealed again as they are.
buildUpdateBody(raw, opts) ==
    LET current == Decrypt(raw, {raw.key})
        color == IF opts.color = {} THEN raw.color ELSE opts.color
    IN  [raw EXCEPT !.cards = [i \in DOMAIN @ |->
                          IF @[i].part = "shared"
                          THEN resealCard(@[i], signedPatch(current, opts), encPatch(opts))
                          ELSE @[i]],
                    !.notifications = Or(opts.reminders, @),
                    !.color = color]

\* The server replaces the row, but for a colour that is not given.
Put(row, body) == [body EXCEPT !.color = IF @ = {} THEN row.color ELSE @]

Updated(row, opts) == Put(row, buildUpdateBody(Get(row), opts))

-----------------------------------------------------------------------------
(* From what the user asks to what is written.  {} is a refusal.           *)

NothingChanged == [n \in TextName |-> {}]

validate(in) ==
    /\ in.norepeat => in.recurrence.repeat = "" /\ in.recurrence.raw = <<>>
    /\ in.occurrence # {} =>
         ~in.norepeat /\ in.recurrence.repeat = "" /\ in.recurrence.raw = <<>>

\* Seeded fault: times are read in the configured zone without moving there.
overrideOnly(override, timesGiven) == override

updateTZName(override, timesGiven) ==
    IF override # {} THEN override ELSE {z \in {HomeZone} : timesGiven}

\* allday is that of the row addressed, which is read first for a rule's sake.
UpdateOptions(in, allday) ==
    LET zone == Or(in.zone, HomeZone)
        rules == IF in.occurrence = {} /\ ~Empty(in.recurrence)
                 THEN buildRRule(in.recurrence, zone, allday) ELSE {NoRule}
    IN  {[text |-> in.text,
          start |-> {parseWhen(w, zone) : w \in in.start},
          end |-> {parseWhen(w, zone) : w \in in.end},
          zone |-> updateTZName(in.zone, in.start # {} \/ in.end # {}),
          rrule |-> {rule} \ {NoRule},
          clearRRule |-> in.norepeat,
          addExdates |-> {},
          reminders |-> in.reminders,
          color |-> {IF c = "default" THEN CalendarColor ELSE c : c \in in.color}] :
         rule \in {r \in rules : validate(in)}}

Skip(t) ==
    [text |-> NothingChanged, start |-> {}, end |-> {}, zone |-> {}, rrule |-> {},
     clearRRule |-> FALSE, addExdates |-> {Timed(t, UTC)}, reminders |-> {}, color |-> {}]

\* All-day events are given by dates, others by wall times; an all-day end is the
\* last day, and dates are read without a zone.
resolveCreateTimes(in, zone) ==
    IF in.allday
    THEN {t \in {[start |-> parseWhen(in.start, UTC),
                  end |-> Timed(Or(in.end, in.start).wall + DayLength, UTC)]} :
            /\ \A w \in {in.start} \cup in.end : w.dateonly
            /\ t.end.at > t.start.at}
    ELSE LET start == parseWhen(in.start, zone)
         IN  {t \in {[start |-> start,
                      end |-> IF in.end = {} THEN Timed(start.at + DefaultDuration, zone)
                              ELSE parseWhen(The(in.end), zone)]} :
                \A w \in {in.start} \cup in.end : ~w.dateonly}

CreateOptions(in) ==
    LET zone == Or(in.zone, HomeZone)
    IN  {[text |-> [n \in TextName |-> Text(in.text[n])], start |-> times.start, end |-> times.end,
          zone |-> zone, allday |-> in.allday, rrule |-> rule, original |-> {}, sequence |-> 0,
          reminders |-> in.reminders, color |-> in.color \ {"default"}] :
         times \in resolveCreateTimes(in, zone), rule \in buildRRule(in.recurrence, zone, in.allday)}

\* Seeded fault: reminders and colour are not taken from the series.
SeededAfresh(master, opts, t) ==
    LET start == Or(opts.start, Timed(t, UTC))
        end == Or(opts.end, Timed(start.at + master.end - master.start, start.zone))
    IN  [text |-> [n \in TextName |-> Or({Text(own) : own \in opts.text[n]}, master.text[n])],
         start |-> start, end |-> end, zone |-> Or(opts.zone, master.zone),
         allday |-> master.allday, rrule |-> NoRule, original |-> {Timed(t, UTC)},
         sequence |-> master.sequence,
         reminders |-> Or(opts.reminders, {}), color |-> opts.color]

\* The row of an occurrence edited for the first time.
seedExceptionRow(master, opts, t) ==
    LET start == Or(opts.start, Timed(t, UTC))
        end == Or(opts.end, Timed(start.at + master.end - master.start, start.zone))
    IN  [text |-> [n \in TextName |-> Or({Text(own) : own \in opts.text[n]}, master.text[n])],
         start |-> start, end |-> end, zone |-> Or(opts.zone, master.zone),
         allday |-> master.allday, rrule |-> NoRule, original |-> {Timed(t, UTC)},
         sequence |-> master.sequence,
         reminders |-> Or(opts.reminders, master.reminders),
         color |-> IF opts.color = {} THEN master.color ELSE opts.color]

-----------------------------------------------------------------------------
(* Exporting.                                                              *)

multiValuedProps == {"EXDATE", "ATTENDEE", "COMMENT"}
strippedProps == {"X-PM-SESSION-KEY"}

\* The extras are the colour and the reminders of the row.
buildVEventBody(row, keys, extras) ==
    LET at == Readable(row, keys)
        owned(n) == Latest(row, SharedSigned(row), n)
    IN  [props |-> [n \in Name |->
            IF n \in strippedProps THEN {}
            ELSE IF n \in multiValuedProps THEN AllOf(row, at, n)
            ELSE IF n \in Structure /\ owned(n) # {} THEN owned(n)
            ELSE First(row, at, n)],
         alarms |-> AlarmsOf(row, at) \cup extras.reminders,
         color |-> extras.color]

effectiveExtras(e) == [color |-> EffectiveColor(e), reminders |-> EffectiveReminders(e)]
ExtrasFromRow(row) == [color |-> Or(row.color, ""), reminders |-> Or(row.notifications, {})]

\* The master first, then by the original starts.
Precedes(r, q) ==
    \/ IsMaster(r) /\ ~IsMaster(q)
    \/ IsMaster(r) = IsMaster(q) /\ Or(RecurrenceID(r), 0) < Or(RecurrenceID(q), 0)
orderSeriesRows(rows) ==
    CHOOSE s \in [1..Cardinality(rows) -> rows] :
        /\ \A r \in rows : \E i \in DOMAIN s : s[i] = r
        /\ \A i, j \in DOMAIN s : Precedes(s[i], s[j]) => i < j

\* The series is exported whole, the master first.  A row of it that cannot be
\* read in full is exported as far as it can be.
HasMaster(rows) == \E r \in rows : IsMaster(r)
SeriesExtras(row, keys) == IF DecryptFailed(row, keys) THEN ExtrasFromRow(row)
                           ELSE effectiveExtras(Decrypt(row, keys))
BuildSeriesICS(rows, keys) ==
    LET s == orderSeriesRows(rows)
    IN  [i \in DOMAIN s |-> buildVEventBody(s[i], keys, SeriesExtras(s[i], keys))]
BuildICS(row, keys) == <<buildVEventBody(row, keys, effectiveExtras(Decrypt(row, keys)))>>

\* Seeded fault: only the row that was asked for tells whether keys are missing.
GotUnflagged(row, rows, keys) ==
    [bodies |-> IF HasMaster(rows) THEN BuildSeriesICS(rows, keys) ELSE BuildICS(row, keys),
     degraded |-> DecryptFailed(row, keys)]

\* An export with a row that could not be read in full is degraded.
GetEvent(row, rows, keys) ==
    [bodies |-> IF HasMaster(rows) THEN BuildSeriesICS(rows, keys) ELSE BuildICS(row, keys),
     degraded |-> \E r \in {row} \cup {q \in rows : HasMaster(rows)} : DecryptFailed(r, keys)]

Rows == {main, single} \ {NoRow}

-----------------------------------------------------------------------------
(* What is asked of the client, and the rows it finds.                     *)

AtMostOne(S) == \A x, y \in S : x = y
WallTime == {w \in [wall : Int, dateonly : BOOLEAN] : w.dateonly => w.wall % DayLength = 0}

IsCreate(in) ==
    /\ in.start \in WallTime /\ in.end \subseteq WallTime /\ in.zone \subseteq Zone
    /\ in.allday \in BOOLEAN /\ IsRecurrence(in.recurrence)
    /\ AtMostOne(in.end) /\ AtMostOne(in.zone) /\ AtMostOne(in.reminders) /\ AtMostOne(in.color)

IsRequest(in) ==
    /\ in.start \cup in.end \cup in.occurrence \subseteq WallTime /\ in.zone \subseteq Zone
    /\ in.norepeat \in BOOLEAN /\ IsRecurrence(in.recurrence)
    /\ AtMostOne(in.start) /\ AtMostOne(in.end) /\ AtMostOne(in.occurrence)
    /\ AtMostOne(in.zone) /\ AtMostOne(in.reminders) /\ AtMostOne(in.color)
    /\ \A n \in TextName : AtMostOne(in.text[n])

SingleValued == Name \ multiValuedProps
Private == TextName \cup {"COMMENT", "ATTENDEE", "X-PM-CONFERENCE-URL"}
Public == Structure \cup {"EXDATE", "STATUS", "TRANSP"}

IsCard(c) ==
    /\ DOMAIN c = {"part", "enc", "alarms", "props"} /\ DOMAIN c.props = Name
    /\ c.part \in {"shared", "calendar", "attendees"} /\ c.enc \in BOOLEAN
    /\ \A n \in SingleValued : AtMostOne(c.props[n])
    /\ \A n \in Name : c.props[n] # {} =>
         /\ n \in Private => c.enc
         /\ n \in Public => ~c.enc
         /\ n \in TextName \cup Structure => c.part = "shared"

\* The lines of the signed shared card.
IsSchedule(row) ==
    /\ Column(row, "DTSTART") # {} /\ Column(row, "DTEND") # {}
    /\ \A n \in {"DTSTART", "DTEND", "RECURRENCE-ID", "EXDATE"} :
         Column(row, n) \subseteq [allday : BOOLEAN, zone : Zone, wall : Int]
    /\ Column(row, "SEQUENCE") \subseteq Int
    /\ \A rule \in Column(row, "RRULE") : rule # NoRule /\ Checked(rule)

\* A row has one signed and one encrypted shared card, and a property that has
\* one value has it on one card only.
IsRow(row) ==
    /\ DOMAIN row = {"cards", "answers", "notifications", "color", "key"}
    /\ Places(row) \subseteq Nat /\ \A i \in Places(row) : IsCard(row.cards[i])
    /\ \E p \in Places(row) : SharedSigned(row) = {p}
    /\ \E p \in Places(row) : SharedEncrypted(row) = {p}
    /\ \A n \in SingleValued : AtMostOne(Giving(row, Places(row), n))
    /\ IsSchedule(row)
    /\ row.key \in Key /\ DOMAIN row.answers \subseteq Token

IsText(t) == \E block \in BOOLEAN : t = [own |-> t.own, block |-> block]

\* Its times are all dates or none is, an interval is positive, a text has the
\* conference block or not, and only attendees answer.
IsCoherent(row) ==
    /\ \A n \in {"DTSTART", "DTEND", "RECURRENCE-ID"} : \A v \in Column(row, n) :
         /\ v.allday <=> IsAllDay(row)
         /\ v.allday => v.zone = UTC /\ v.wall % DayLength = 0
    /\ \A rule \in Column(row, "RRULE") : HasInterval(rule)
    /\ \A i \in Places(row) : \A n \in TextName : \A t \in Values(row, i, n) : IsText(t)
    /\ AllOf(row, Places(row), "ATTENDEE") \subseteq Token
    /\ DOMAIN row.answers \subseteq AllOf(row, Places(row), "ATTENDEE")

ASSUME ConstantsAssumption ==
    /\ HomeZone \in Zone /\ DefaultDuration \in Int
    /\ Token \subseteq Nat /\ IsFiniteSet(Token)
    /\ MaxAnswers \in Nat /\ MaxEdits \in Nat
ASSUME RequestsAssumption ==
    /\ \A in \in Creates : IsCreate(in)
    /\ \A in \in Requests : IsRequest(in)
    /\ Skips \subseteq WallTime
ASSUME AppRowsAssumption ==
    \A row \in AppRows : IsRow(row) /\ IsCoherent(row) /\ RecurrenceID(row) = {}

-----------------------------------------------------------------------------
Init == main = NoRow /\ single = NoRow /\ edits = 0

Edit == edits < MaxEdits /\ edits' = edits + 1

\* Each request has the keys the client has unlocked then.
CreateEvent(in, keys) ==
    /\ main = NoRow /\ Edit
    /\ \E e \in CreateOptions(in), key \in keys : main' = Create(e, key)
    /\ UNCHANGED single

\* A change of the series' times or rule removes the edited occurrence.
UpdateEvent(in, keys) ==
    /\ main # NoRow /\ in.occurrence = {} /\ Edit
    /\ ~DecryptFailed(main, keys)
    /\ \E opts \in UpdateOptions(in, IsAllDay(main)) :
         /\ main' = Updated(main, opts)
         /\ single' = IF IsMaster(main) /\ Significant(opts) THEN NoRow ELSE single

\* By the ID of its own row, or by its original start.
UpdateSingle(in, keys) ==
    /\ single # NoRow /\ Edit
    /\ in.occurrence # {} =>
         RecurrenceID(single) = {parseWhen(w, Or(in.zone, HomeZone)).at : w \in in.occurrence}
    /\ ~DecryptFailed(single, keys)
    /\ \E opts \in UpdateOptions(in, IsAllDay(single)) : single' = Updated(single, opts)
    /\ UNCHANGED main

\* A generated occurrence gets a row of its own.
UpdateOccurrence(in, keys) ==
    /\ main # NoRow /\ IsMaster(main) /\ single = NoRow /\ in.occurrence # {} /\ Edit
    /\ ~DecryptFailed(main, keys)
    /\ LET master == Decrypt(main, keys)
           t == parseWhen(The(in.occurrence), Or(in.zone, HomeZone)).at
       IN  /\ Generates(master.rule, master.start, t) /\ t \notin master.exdates
           /\ \E opts \in UpdateOptions(in, master.allday), key \in keys :
                single' = Create(seedExceptionRow(master, opts, t), key)
    /\ UNCHANGED main

DeleteOccurrence(w, keys) ==
    LET t == parseWhen(w, HomeZone).at
        edited == single # NoRow /\ RecurrenceID(single) = {t}
    IN  /\ main # NoRow /\ IsMaster(main) /\ Edit
        /\ \/ edited
           \/ /\ Generates(RRule(main), parseDateTime(The(Column(main, "DTSTART"))), t)
              /\ t \notin {parseDateTime(v) : v \in Column(main, "EXDATE")}
        /\ ~DecryptFailed(main, keys)
        /\ main' = Updated(main, Skip(t))
        /\ single' = IF edited THEN NoRow ELSE single

DeleteEvent == main # NoRow /\ Edit /\ main' = NoRow /\ single' = NoRow

-----------------------------------------------------------------------------
(* Other clients.                                                          *)

AppCreates == main = NoRow /\ Edit /\ main' \in AppRows /\ UNCHANGED single

Answer(t, s) == /\ main # NoRow /\ t \in DOMAIN main.answers /\ main.answers[t] # s /\ Edit
                /\ main' = [main EXCEPT !.answers[t] = s]
                /\ UNCHANGED single

Next == \/ \E keys \in SUBSET Key \ {{}} :
            \/ \E in \in Creates : CreateEvent(in, keys)
            \/ \E in \in Requests :
                 UpdateEvent(in, keys) \/ UpdateSingle(in, keys) \/ UpdateOccurrence(in, keys)
            \/ \E w \in Skips : DeleteOccurrence(w, keys)
        \/ DeleteEvent \/ AppCreates
        \/ \E t \in Token, s \in Status : Answer(t, s)

Spec == Init /\ [][Next]_vars

-----------------------------------------------------------------------------
(* Properties.                                                             *)

\* Types; a property that has one value has it on one card of a row only; only
\* the row of an edited occurrence carries a RECURRENCE-ID, and never alone.
TypeOK ==
    /\ edits \in 0..MaxEdits
    /\ main = NoRow => single = NoRow
    /\ main # NoRow => RecurrenceID(main) = {}
    /\ single # NoRow => Cardinality(RecurrenceID(single)) = 1
    /\ \A row \in Rows :
         /\ row.key \in Key /\ DOMAIN row.answers \subseteq Token
         /\ \A n \in SingleValued :
              Cardinality(Giving(row, Places(row), n)) <= 1
         /\ \A n \in SingleValued, i \in Places(row) : Cardinality(Values(row, i, n)) <= 1

\* What is private is only ever on encrypted cards, and what the server and
\* other clients take from the signed ones is on no encrypted card, where a
\* later value would hide it: write.go patches each card with its own edits.
EachLineInItsCard ==
    \A row \in Rows : \A i \in Places(row) : \A n \in Name :
        LET c == row.cards[i] IN
        c.props[n] # {} =>
            /\ n \in TextName \cup {"COMMENT", "ATTENDEE", "X-PM-CONFERENCE-URL"} => c.enc
            /\ n \in Structure \cup {"EXDATE", "STATUS", "TRANSP"} => ~c.enc

\* Every line of a row, once, with the colour and the reminders that apply.
ExportedWhole(body, row) ==
    /\ \A n \in Name \ strippedProps : body.props[n] = AllOf(row, Places(row), n)
    /\ \A i \in Places(row) : row.cards[i].alarms \subseteq body.alarms
    /\ EffectiveReminders(Decrypt(row, Key)) \subseteq body.alarms
    /\ body.color = EffectiveColor(Decrypt(row, Key))

\* An export that is not marked degraded has every row of the series whole, the
\* master first; it is marked only if a key is missing, and the session key is
\* never in it (ics.go, ops.go buildEventICS).
ExportIsWhole ==
    main # NoRow => \A keys \in SUBSET Key :
        LET got == GetEvent(main, Rows, keys)
            rows == IF IsMaster(main) /\ single # NoRow THEN <<main, single>> ELSE <<main>>
        IN  /\ \A i \in DOMAIN got.bodies : \A n \in strippedProps : got.bodies[i].props[n] = {}
            /\ got.degraded => \E row \in Rows : row.key \notin keys
            /\ ~got.degraded => /\ DOMAIN got.bodies = DOMAIN rows
                                /\ \A i \in DOMAIN rows : ExportedWhole(got.bodies[i], rows[i])

\* Of a row that is still there, what updates are not about.
About == TextName \cup {"DTSTART", "DTEND", "RRULE", "EXDATE", "SEQUENCE"}
Untouched(row, new) == row # NoRow /\ new # NoRow =>
    /\ Places(new) = Places(row)
    /\ \A i \in Places(row) :
         LET c == row.cards[i]
             d == new.cards[i]
         IN  /\ d.part = c.part /\ (d.enc <=> c.enc) /\ d.alarms = c.alarms
             /\ c.part # "shared" => d = c
             /\ \A n \in Name \ About : d.props[n] = c.props[n]
             /\ \A n \in TextName : \A t \in d.props[n] \ c.props[n] :
                  \E in \in Requests : t.own \in in.text[n]

\* A rewritten row keeps its cards, and every line that updates are not about:
\* conference, organizer, attendees, comment, unknown properties and alarms.  A
\* text, with the conference block in it, changes only for one that is asked
\* for (write.go, patch.go).
UntouchedLinesSurvive == [][Untouched(main, main') /\ Untouched(single, single')]_vars

\* A new event reads back as it was asked for: the times in the zone meant, an
\* all-day end that includes its last day, the calendar's duration if no end
\* was given, reminders and colour, and a rule whose last day is the one asked
\* for, counted where the event is (ops.go CreateEvent, parse.go).
CreatedAsAsked ==
    [][LET AsAsked(in, e) ==
               LET zone == Or(in.zone, HomeZone)
                   At(w) == w.wall - IF in.allday THEN 0 ELSE Offset[zone]
               IN  /\ e.allday = in.allday /\ e.start = At(in.start)
                   /\ e.end = IF in.end # {} /\ in.allday THEN At(The(in.end)) + DayLength
                              ELSE IF in.end # {} THEN At(The(in.end))
                              ELSE e.start + IF in.allday THEN DayLength ELSE DefaultDuration
                   /\ \A n \in TextName : e.text[n].own = in.text[n]
                   /\ e.reminders = in.reminders
                   /\ EffectiveColor(e) = Or(in.color \ {"default"}, CalendarColor)
                   /\ \A day \in in.recurrence.until :
                        LET until == e.rule["UNTIL"]
                        IN  IF in.allday THEN until = UntilDate(day)
                            ELSE /\ Day(Timed(until.at, zone)) = day
                                 /\ Day(Timed(until.at + 1, zone)) = day + 1
       IN  main = NoRow /\ main' # NoRow =>
             \A in \in Creates :
               (\E keys \in SUBSET Key : CreateEvent(in, keys)) => AsAsked(in, Decrypt(main', Key))]_vars

\* Updating a series leaves the repetition it was asked for: none, the one there
\* was, or the one given, whose last day is counted where the series is then.
\* The zone its day is meant in is the one given or configured, so that is only
\* claimed when the series is there or goes there: a zone or times are given
\* (ops.go UpdateEvent, parse.go, write.go).
RepeatsAsAsked ==
    [][LET AsAsked(in, e, f) ==
               LET asked == in.recurrence
                   meant == e.zone = HomeZone \/ in.zone # {} \/ in.start # {} \/ in.end # {}
               IN  /\ in.norepeat => f.rule = NoRule /\ f.exdates = {}
                   /\ ~in.norepeat /\ Empty(asked) => f.rule = e.rule /\ f.exdates = e.exdates
                   /\ asked.repeat # "" =>
                        /\ f.rule["FREQ"] = asked.repeat
                        /\ "COUNT" \in DOMAIN f.rule <=> asked.count # 0
                        /\ asked.count # 0 => f.rule["COUNT"] = asked.count
                        /\ "UNTIL" \in DOMAIN f.rule <=> asked.until # {}
                        /\ \A day \in asked.until :
                             LET last == f.rule["UNTIL"]
                             IN  IF f.allday THEN last = UntilDate(day)
                                 ELSE meant => /\ Day(Timed(last.at, f.zone)) = day
                                               /\ Day(Timed(last.at + 1, f.zone)) = day + 1
       IN  main # NoRow /\ main' # NoRow =>
             \A in \in Requests : UpdateEvent(in, Key) =>
               AsAsked(in, Decrypt(main, Key), Decrypt(main', Key))]_vars

\* An UNTIL is the end of a day in the zone of the event's start, as
\* docs/api.md has it.
UntilIsTheEndOfADay ==
    \A row \in Rows : "UNTIL" \in DOMAIN RRule(row) /\ ~RRule(row)["UNTIL"].date =>
        LET last == RRule(row)["UNTIL"].at
        IN  Day(Timed(last + 1, StartTimezone(row))) = Day(Timed(last, StartTimezone(row))) + 1

\* The first edit of an occurrence changes what it was given and nothing else.
OccurrenceKeepsTheRest ==
    [][single = NoRow /\ single' # NoRow =>
         LET e == Decrypt(main, Key)
             f == Decrypt(single', Key)
         IN  /\ f.organizer = e.organizer /\ f.conference = e.conference
             /\ DOMAIN f.answers = DOMAIN e.answers]_vars

\* An update keeps the answers of the attendees.
AnswersSurvive ==
    [][main # NoRow /\ main' # NoRow => DOMAIN main.answers \subseteq DOMAIN main'.answers]_vars

\* The content of the rows, read with all keys, is what EventRecord promises:
\* an update overrides what it was given, an edited occurrence is a copy of
\* the series with its reminders and colour, made from all of it or not at all.
Content(row) == IF row = NoRow THEN NoRow ELSE Decrypt(row, Key)
Record == INSTANCE EventRecord WITH event <- Content(main), edited <- Content(single),
                                    NoEvent <- NoRow
ImplementsEventRecord == Record!Spec
=============================================================================
