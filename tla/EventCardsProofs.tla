--------------------------- MODULE EventCardsProofs ---------------------------
(***************************************************************************)
(* Proofs about RecurrenceRules and EventCards.                            *)
(*                                                                         *)
(* The first part is about the operators, for any zones, length of days    *)
(* and limits: a rule built from options is one the server supports, and   *)
(* repeats as they say; of a rule that is given four limits are checked,   *)
(* and the rest is passed on.  A structured UNTIL is a day; it becomes the *)
(* last instant of it in the event's zone; that it is still the same day   *)
(* there needs that days are counted by integer division.                  *)
(*                                                                         *)
(* The second part is about the rows: their cards stay as IsRow has them,  *)
(* whatever is asked for.  So a property has one place, and what reading   *)
(* and exporting make of the cards is what is in that place.               *)
(*                                                                         *)
(* The third part is about what the rows say.  A row that the keys open    *)
(* reads as one content (ReadsAs), so a new event reads back as what was   *)
(* asked for, and each step of the rows is a step of EventRecord on what   *)
(* they read as.  That needs more of a row than its cards' places: what    *)
(* its properties say must fit together (IsCoherent: times that are all    *)
(* dates or all instants, a rule that can be stepped, answers of           *)
(* attendees only), and an edited occurrence must be all-day exactly when  *)
(* its series is (Coherent).                                               *)
(***************************************************************************)
EXTENDS EventCards, FiniteSetTheorems, TLAPS

\* A day ends where it should: its last instant is of that day, the next of the
\* following (recurrence.go:86-104).
LEMMA EndOfDayIsInDay ==
    ASSUME NEW zone \in Zone, NEW day \in Int
    PROVE  /\ EndOfDay(day, zone) \in Int
           /\ Day(Timed(EndOfDay(day, zone), zone)) = day
           /\ Day(Timed(EndOfDay(day, zone) + 1, zone)) = day + 1
<1>1. DayLength \in Nat /\ DayLength > 0 /\ Offset[zone] \in Int
  BY RulesAssumption DEF RulesAssumption
<1> DEFINE last == EndOfDay(day, zone)
<1>2. last \in Int /\ last + Offset[zone] = day * DayLength + (DayLength - 1)
  BY <1>1 DEF EndOfDay
<1>3. (day * DayLength + (DayLength - 1)) \div DayLength = day
  BY <1>1
<1>4. (last + 1) + Offset[zone] = (day + 1) * DayLength
  BY <1>1, <1>2
<1>5. ((day + 1) * DayLength) \div DayLength = day + 1
  BY <1>1
<1> QED
  BY <1>2, <1>3, <1>4, <1>5 DEF Day, Timed

\* The last day of an UNTIL is one of the calendar.
LEMMA UntilDayType ==
    ASSUME NEW u \in Until, NEW zone \in Zone
    PROVE  UntilDayIn(u, zone) \in Int
BY RulesAssumption DEF RulesAssumption, UntilDayIn, Until, Day, Timed

-----------------------------------------------------------------------------
(* Structured options.                                                     *)

\* A rule has the frequency, the count and the last day asked for, or no end.
Repeats(rule, repeat, count, until, zone, allday) ==
    /\ rule["FREQ"] = repeat
    /\ "COUNT" \in DOMAIN rule <=> count # 0
    /\ count # 0 => rule["COUNT"] = count
    /\ "UNTIL" \in DOMAIN rule <=> until # {}
    /\ \A day \in until :
         rule["UNTIL"] = IF allday THEN UntilDate(day) ELSE UntilInstant(EndOfDay(day, zone))

\* A rule built from structured options repeats as they say, and is one the
\* server supports: its last day is the one asked for, where the event is
\* (recurrence.go:54-105).
THEOREM BuiltRules ==
    ASSUME NEW repeat, NEW every \in Int, NEW count \in Int, NEW until \in SUBSET Int,
           \A d, e \in until : d = e,
           NEW zone \in Zone, NEW allday \in BOOLEAN,
           NEW rule \in BuildRRule(repeat, every, count, until, zone, allday)
    PROVE  /\ Supported(rule, zone) /\ Checked(rule) /\ HasInterval(rule) /\ rule # NoRule
           /\ Repeats(rule, repeat, count, until, zone, allday)
           /\ \A day \in until : UntilDayIn(rule["UNTIL"], zone) = day
<1> DEFINE keys == {"FREQ"} \cup {k \in {"INTERVAL"} : every > 1}
                     \cup {k \in {"COUNT"} : count # 0} \cup {k \in {"UNTIL"} : until # {}}
           the == CHOOSE day \in until : TRUE
           last == IF allday THEN UntilDate(the) ELSE UntilInstant(EndOfDay(the, zone))
<1>1. /\ repeat \in frequencies /\ (count = 0 \/ until = {})
      /\ count # 0 => count <= MaxCount
      /\ \A day \in until : day <= MaxUntilDay
  BY RulesAssumption DEF BuildRRule, RulesAssumption
<1>2. rule = [key \in keys |-> CASE key = "FREQ"     -> repeat
                                 [] key = "INTERVAL" -> every
                                 [] key = "COUNT"    -> count
                                 [] key = "UNTIL"    -> last]
  BY Zenon DEF BuildRRule
<1>3. DOMAIN rule = keys
  BY <1>2
<1>4. "FREQ" \in DOMAIN rule /\ rule["FREQ"] = repeat
  BY <1>2, <1>3
<1>5. /\ "COUNT" \in DOMAIN rule <=> count # 0
      /\ count # 0 => rule["COUNT"] = count
  BY <1>2, <1>3
<1>6. "UNTIL" \in DOMAIN rule <=> until # {}
  BY <1>3
<1>7. until # {} => rule["UNTIL"] = last
  BY <1>2, <1>3, <1>6
<1>8. ASSUME until # {}
      PROVE  the \in until /\ the \in Int /\ UntilDayIn(last, zone) = the
  <2>1. the \in until /\ the \in Int
    BY <1>8
  <2>2. Day(Timed(EndOfDay(the, zone), zone)) = the
    BY <2>1, EndOfDayIsInDay
  <2>3. UntilDayIn(last, zone) = the
    BY <2>2 DEF UntilDayIn, UntilDate, UntilInstant
  <2> QED
    BY <2>1, <2>3
<1>9. ASSUME NEW day \in until
      PROVE  /\ rule["UNTIL"] = IF allday THEN UntilDate(day) ELSE UntilInstant(EndOfDay(day, zone))
             /\ UntilDayIn(rule["UNTIL"], zone) = day
  <2>1. the = day
    BY <1>8, <1>9
  <2> QED BY <1>7, <1>8, <1>9, <2>1
<1>10. "UNTIL" \in DOMAIN rule => UntilDayIn(rule["UNTIL"], zone) <= MaxUntilDay
  BY <1>1, <1>6, <1>7, <1>8
<1>11. HasInterval(rule)
  <2>1. "INTERVAL" \in DOMAIN rule => every > 1 /\ rule["INTERVAL"] = every
    BY <1>2, <1>3
  <2> QED
    BY <2>1 DEF HasInterval
<1>12. rule # NoRule
  BY <1>4 DEF NoRule
<1>13. Checked(rule)
  BY <1>1, <1>4, <1>5, <1>6, <1>10 DEF Checked
<1>14. Supported(rule, zone)
  <2>1. DOMAIN rule \cap {"BYDAY", "BYSETPOS", "BYMONTHDAY"} = {}
    BY <1>3
  <2>2. "BYMONTHDAY" \notin DOMAIN rule
    BY <1>3
  <2> QED BY <1>1, <1>4, <1>5, <1>6, <1>10, <2>1, <2>2 DEF Supported
<1>15. Repeats(rule, repeat, count, until, zone, allday)
  BY <1>4, <1>5, <1>6, <1>9 DEF Repeats
<1> QED
  BY <1>9, <1>11, <1>12, <1>13, <1>14, <1>15

-----------------------------------------------------------------------------
(* Raw rules.                                                              *)

\* A raw rule is passed on as it is given, part by part, or not at all, and only
\* if it keeps the four limits that are checked, its last day as UTC counts days.
\* Whether the server supports its other parts is not checked
\* (recurrence.go:116-207).
THEOREM SanitizedRules ==
    ASSUME NEW raw, \A i \in DOMAIN raw : raw[i][1] = "UNTIL" => raw[i][2] \in Until,
           \A i \in DOMAIN raw : raw[i][1] = "INTERVAL" => raw[i][2] \in Nat \ {0},
           NEW rule \in SanitizeRRule(raw)
    PROVE  /\ Checked(rule) /\ HasInterval(rule) /\ rule # NoRule
           /\ "UNTIL" \in DOMAIN rule => UntilDayIn(rule["UNTIL"], UTC) <= MaxUntilDay
           /\ DOMAIN rule = {raw[i][1] : i \in DOMAIN raw}
           /\ \A i \in DOMAIN raw : rule[raw[i][1]] = raw[i][2]
<1> DEFINE keys == {part[1] : part \in ToSet(raw)}
           Value(key) == (CHOOSE part \in ToSet(raw) : part[1] = key)[2]
<1>1. /\ "FREQ" \in keys /\ Value("FREQ") \in frequencies
      /\ ~({"COUNT", "UNTIL"} \subseteq keys)
      /\ "COUNT" \in keys => Value("COUNT") <= MaxCount
      /\ "UNTIL" \in keys => ~untilTooLate(Value("UNTIL"))
      /\ rule = [key \in keys |-> Value(key)]
  BY Zenon DEF SanitizeRRule
<1>2. DOMAIN rule = keys /\ \A key \in keys : rule[key] = Value(key)
  BY <1>1, Zenon
<1>3. ASSUME "UNTIL" \in keys
      PROVE  Value("UNTIL") \in Until
  <2>1. PICK i \in DOMAIN raw :
          /\ (CHOOSE part \in ToSet(raw) : part[1] = "UNTIL") = raw[i]
          /\ raw[i][1] = "UNTIL"
    BY <1>3, Zenon DEF ToSet
  <2> QED
    BY <2>1
<1>4. "UNTIL" \in keys => UntilDayIn(rule["UNTIL"], UTC) <= MaxUntilDay
  BY <1>1, <1>2, <1>3, UntilDayType, RulesAssumption DEF untilTooLate, RulesAssumption
<1>5. ASSUME "INTERVAL" \in keys
      PROVE  Value("INTERVAL") \in Nat \ {0}
  <2>1. PICK i \in DOMAIN raw :
          /\ (CHOOSE part \in ToSet(raw) : part[1] = "INTERVAL") = raw[i]
          /\ raw[i][1] = "INTERVAL"
    BY <1>5, Zenon DEF ToSet
  <2> QED
    BY <2>1
<1>6. HasInterval(rule)
  BY <1>2, <1>5 DEF HasInterval
<1>7. rule # NoRule
  BY <1>1, <1>2 DEF NoRule
<1>8. Checked(rule)
  BY <1>1, <1>2, <1>4, RulesAssumption DEF Checked, RulesAssumption
<1>9. DOMAIN rule = {raw[i][1] : i \in DOMAIN raw}
  <2>1. keys = {raw[i][1] : i \in DOMAIN raw}
    BY Zenon DEF ToSet
  <2> QED BY <1>2, <2>1
<1>10. ASSUME NEW i \in DOMAIN raw
       PROVE  rule[raw[i][1]] = raw[i][2]
  <2>1. raw[i] \in ToSet(raw)
    BY Zenon DEF ToSet
  <2>2. PICK part : part = CHOOSE p \in ToSet(raw) : p[1] = raw[i][1]
    OBVIOUS
  <2>3. part \in ToSet(raw) /\ part[1] = raw[i][1]
    BY <2>1, <2>2, Zenon
  <2>4. PICK j \in DOMAIN raw : part = raw[j]
    BY <2>3, Zenon DEF ToSet
  <2>5. \A k, j2 \in DOMAIN raw : raw[k][1] = raw[j2][1] => k = j2
    BY Zenon DEF SanitizeRRule
  <2>6. j = i
    BY <2>3, <2>4, <2>5
  <2>7. raw[i][1] \in keys /\ rule[raw[i][1]] = Value(raw[i][1])
    BY <1>2, <2>1, Zenon
  <2> QED BY <2>2, <2>4, <2>6, <2>7
<1> QED
  BY <1>2, <1>4, <1>6, <1>7, <1>8, <1>9, <1>10

-----------------------------------------------------------------------------

\* However a request asks for a recurrence: nothing asked is no rule, structured
\* options give what they ask for, in a rule the server supports, a raw rule is
\* checked for the four limits only and excludes other options; anything else is
\* refused (parse.go:119-154).
THEOREM RequestedRules ==
    ASSUME NEW r, IsRecurrence(r), NEW zone \in Zone, NEW allday \in BOOLEAN,
           NEW rule \in buildRRule(r, zone, allday)
    PROVE  /\ Checked(rule) /\ HasInterval(rule) /\ (rule = NoRule <=> Empty(r))
           /\ r.raw = <<>> => Supported(rule, zone)
           /\ r.raw # <<>> => r.repeat = "" /\ ~Structured(r)
           /\ r.repeat # "" => Repeats(rule, r.repeat, r.count, r.until, zone, allday)
<1>1. CASE r.raw # <<>>
  <2>1. rule \in SanitizeRRule(r.raw)
    BY <1>1 DEF buildRRule
  <2>2. /\ \A i \in DOMAIN r.raw : r.raw[i][1] = "UNTIL" => r.raw[i][2] \in Until
        /\ \A i \in DOMAIN r.raw : r.raw[i][1] = "INTERVAL" => r.raw[i][2] \in Nat \ {0}
    BY DEF IsRecurrence
  <2>3. Checked(rule) /\ HasInterval(rule) /\ rule # NoRule
    BY <2>1, <2>2, SanitizedRules
  <2>4. r.repeat = "" /\ ~Structured(r)
    BY <1>1 DEF buildRRule
  <2> QED
    BY <1>1, <2>3, <2>4 DEF Empty
<1>2. CASE r.raw = <<>> /\ r.repeat = ""
  <2>1. rule = NoRule /\ ~Structured(r)
    BY <1>2 DEF buildRRule
  <2>2. Checked(NoRule) /\ HasInterval(NoRule) /\ Supported(NoRule, zone)
    BY DEF Checked, HasInterval, NoRule, Supported
  <2> QED
    BY <1>2, <2>1, <2>2 DEF Empty
<1>3. CASE r.raw = <<>> /\ r.repeat # ""
  <2> DEFINE every == IF r.every = 0 THEN 1 ELSE r.every
  <2>1. rule \in BuildRRule(r.repeat, every, r.count, r.until, zone, allday)
    BY <1>3 DEF buildRRule
  <2>2. every \in Int /\ r.count \in Int /\ r.until \in SUBSET Int
        /\ \A d, e \in r.until : d = e
    BY DEF IsRecurrence
  <2>3. /\ Checked(rule) /\ HasInterval(rule) /\ rule # NoRule /\ Supported(rule, zone)
        /\ Repeats(rule, r.repeat, r.count, r.until, zone, allday)
    BY <2>1, <2>2, BuiltRules
  <2> QED
    BY <1>3, <2>3 DEF Empty
<1> QED
  BY <1>1, <1>2, <1>3

\* A last day that is asked for becomes an UNTIL: the date, or the end of the
\* day in the zone of the event (parse.go:119-154, recurrence.go:86-104).
LEMMA RequestedUntil ==
    ASSUME NEW r, IsRecurrence(r), NEW zone \in Zone, NEW allday \in BOOLEAN,
           NEW rule \in buildRRule(r, zone, allday), NEW day \in r.until
    PROVE  rule["UNTIL"] = IF allday THEN UntilDate(day) ELSE UntilInstant(EndOfDay(day, zone))
<1> DEFINE every == IF r.every = 0 THEN 1 ELSE r.every
<1>1. Structured(r)
  BY DEF Structured
<1>2. rule \in BuildRRule(r.repeat, every, r.count, r.until, zone, allday)
  BY <1>1 DEF buildRRule
<1>3. every \in Int /\ r.count \in Int /\ r.until \in SUBSET Int
      /\ \A d, e \in r.until : d = e
  BY DEF IsRecurrence
<1>4. Repeats(rule, r.repeat, r.count, r.until, zone, allday)
  BY <1>2, <1>3, BuiltRules
<1> QED BY <1>4 DEF Repeats

-----------------------------------------------------------------------------
(* Where a property is.                                                    *)

LEMMA ChosenIsOne == ASSUME NEW S, S # {} PROVE The(S) \in S
BY DEF The

LEMMA OrIsOne ==
    ASSUME NEW S, NEW d
    PROVE  S # {} => Or(S, d) \in S /\ Or(S, d) = The(S)
BY ChosenIsOne DEF Or

LEMMA TheOnly == ASSUME NEW x, NEW d PROVE The({x}) = x /\ Or({x}, d) = x
<1>1. The({x}) \in {x}
  BY ChosenIsOne, Zenon
<1> QED BY <1>1 DEF Or

LEMMA ExtremesOfOne == ASSUME NEW i \in Nat PROVE Min({i}) = i /\ Max({i}) = i
BY DEF Min, Max

\* What one card alone gives.
LEMMA OneGiver ==
    ASSUME NEW row, NEW at, NEW n, NEW p \in at, p \in Nat,
           \A i \in at : Values(row, i, n) # {} => i = p
    PROVE  /\ First(row, at, n) = Values(row, p, n)
           /\ Latest(row, at, n) = Values(row, p, n)
           /\ AllOf(row, at, n) = Values(row, p, n)
<1>1. CASE Giving(row, at, n) = {}
  <2>1. \A i \in at : Values(row, i, n) = {}
    BY <1>1 DEF Giving
  <2>2. AllOf(row, at, n) = {}
    BY <2>1 DEF AllOf
  <2> QED BY <1>1, <2>1, <2>2 DEF First, Latest
<1>2. CASE Giving(row, at, n) = {p}
  <2>1. \A i \in at : i # p => Values(row, i, n) = {}
    BY <1>2 DEF Giving
  <2>2. AllOf(row, at, n) = Values(row, p, n)
    BY <2>1 DEF AllOf
  <2> QED BY <1>2, <2>2, ExtremesOfOne DEF First, Latest
<1>3. Giving(row, at, n) = {} \/ Giving(row, at, n) = {p}
  BY DEF Giving
<1> QED BY <1>1, <1>2, <1>3

LEMMA NoGiver ==
    ASSUME NEW row, NEW at, NEW n, Giving(row, at, n) = {}
    PROVE  First(row, at, n) = {} /\ Latest(row, at, n) = {} /\ AllOf(row, at, n) = {}
BY DEF First, Latest, AllOf, Giving

\* A property that one card gives is read and exported as it is there.
LEMMA SingleIsAll ==
    ASSUME NEW row, NEW at, NEW n, at \subseteq Places(row), Places(row) \subseteq Nat,
           AtMostOne(Giving(row, Places(row), n))
    PROVE  First(row, at, n) = AllOf(row, at, n) /\ Latest(row, at, n) = AllOf(row, at, n)
<1>1. AtMostOne(Giving(row, at, n)) /\ Giving(row, at, n) \subseteq at
  BY DEF AtMostOne, Giving
<1>2. CASE Giving(row, at, n) = {}
  BY <1>2, NoGiver
<1>3. ASSUME NEW p \in Giving(row, at, n)
      PROVE  First(row, at, n) = AllOf(row, at, n) /\ Latest(row, at, n) = AllOf(row, at, n)
  <2>1. p \in at /\ p \in Nat /\ \A i \in at : Values(row, i, n) # {} => i = p
    BY <1>1 DEF AtMostOne, Giving
  <2>2. /\ First(row, at, n) = Values(row, p, n)
        /\ Latest(row, at, n) = Values(row, p, n)
        /\ AllOf(row, at, n) = Values(row, p, n)
    BY <2>1, OneGiver
  <2> QED BY <2>2
<1> QED BY <1>2, <1>3

\* p is the place of the signed shared card.
SignedAt(row, p) == p \in Places(row) /\ p \in Nat /\ SharedSigned(row) = {p}

LEMMA ColumnAt ==
    ASSUME NEW row, NEW p, SignedAt(row, p), NEW n
    PROVE  /\ Column(row, n) = Values(row, p, n)
           /\ Latest(row, SharedSigned(row), n) = Values(row, p, n)
<1>1. p \in SharedSigned(row) /\ p \in Nat /\ \A i \in SharedSigned(row) : i = p
  BY DEF SignedAt
<1>2. /\ First(row, SharedSigned(row), n) = Values(row, p, n)
      /\ Latest(row, SharedSigned(row), n) = Values(row, p, n)
  BY <1>1, OneGiver
<1> QED BY <1>2 DEF Column

LEMMA SignedPlace ==
    ASSUME NEW row, IsRow(row)
    PROVE  \E p : SignedAt(row, p)
BY DEF SignedAt, IsRow

\* The properties of the schedule are on that card only.
LEMMA ScheduleAt ==
    ASSUME NEW row, IsRow(row), NEW p, SignedAt(row, p), NEW n \in Structure,
           NEW at, at \subseteq Places(row), p \in at
    PROVE  /\ First(row, at, n) = Column(row, n) /\ Latest(row, at, n) = Column(row, n)
           /\ Column(row, n) = Values(row, p, n)
<1>1. \A i \in Places(row) : IsCard(row.cards[i])
  BY DEF IsRow
<1>2. n \in Name /\ n \in Public
  BY DEF Name, Public
<1>3. \A i \in at : Values(row, i, n) # {} => i \in SharedSigned(row)
  BY <1>1, <1>2 DEF IsCard, Values, SharedSigned
<1>4. p \in Nat /\ \A i \in at : Values(row, i, n) # {} => i = p
  BY <1>3 DEF SignedAt
<1>5. First(row, at, n) = Values(row, p, n) /\ Latest(row, at, n) = Values(row, p, n)
  BY <1>4, OneGiver
<1> QED BY <1>5, ColumnAt

-----------------------------------------------------------------------------
(* The row of a new event.                                                 *)

Instant == [at : Int, zone : Zone]
Date == [allday : BOOLEAN, zone : Zone, wall : Int]

LEMMA DateType ==
    ASSUME NEW t \in Instant, NEW zone \in Zone, NEW allday \in BOOLEAN
    PROVE  DateValue(t, zone, allday) \in Date
<1>1. Day(t) * DayLength \in Int
  BY RulesAssumption DEF RulesAssumption, Day, Instant
<1>2. t.at + Offset[zone] \in Int
  BY RulesAssumption DEF RulesAssumption, Instant
<1> QED BY <1>1, <1>2, RulesAssumption DEF RulesAssumption, DateValue, Date

LEMMA ReadDateType == ASSUME NEW v \in Date PROVE parseDateTime(v) \in Int
BY RulesAssumption DEF RulesAssumption, Date, parseDateTime

LEMMA WhenType ==
    ASSUME NEW w \in WallTime, NEW zone \in Zone
    PROVE  parseWhen(w, zone) \in Instant
BY RulesAssumption DEF RulesAssumption, WallTime, parseWhen, Timed, Instant

\* What the row of a new event is built from.
IsNew(e) ==
    /\ e.start \in Instant /\ e.end \in Instant /\ e.zone \in Zone /\ e.allday \in BOOLEAN
    /\ e.original \subseteq Instant /\ AtMostOne(e.original)
    /\ Checked(e.rrule) /\ e.sequence \in Int

\* Its cards.
NewSigned(e) == Card("shared", FALSE, buildSharedSigned(e))
NewPrivate(e) == Card("shared", TRUE, buildSharedEncrypted(e))
NewCalendar == Card("calendar", FALSE, buildCalendarSigned)
NewComment == Card("calendar", TRUE, buildCalendarEncrypted)

\* The signed shared card of a new event.
LEMMA NewSignedLines ==
    ASSUME NEW e, IsNew(e)
    PROVE  /\ DOMAIN buildSharedSigned(e) = Name
           /\ buildSharedSigned(e)["DTSTART"] = {DateValue(e.start, e.zone, e.allday)}
           /\ buildSharedSigned(e)["DTEND"] = {DateValue(e.end, e.zone, e.allday)}
           /\ buildSharedSigned(e)["RECURRENCE-ID"] = {DateValue(t, e.zone, e.allday) : t \in e.original}
           /\ buildSharedSigned(e)["RRULE"] = {e.rrule} \ {NoRule}
           /\ buildSharedSigned(e)["SEQUENCE"] = {e.sequence}
           /\ \A n \in Name \ Structure : buildSharedSigned(e)[n] = {}
BY DEF buildSharedSigned, NoLines, Name, Structure, TextName

LEMMA NewSignedCard ==
    ASSUME NEW e, IsNew(e)
    PROVE  IsCard(NewSigned(e))
<1> DEFINE lines == buildSharedSigned(e)
<1>1. \A n \in Name : lines[n] # {} => n \in Structure
  BY NewSignedLines
<1>2. \A n \in Structure : AtMostOne(lines[n])
  BY NewSignedLines DEF AtMostOne, Structure, IsNew
<1>3. \A n \in Name : AtMostOne(lines[n])
  BY <1>1, <1>2 DEF AtMostOne
<1>4. Structure \cap Private = {} /\ SingleValued \subseteq Name
  BY DEF Structure, Private, TextName, SingleValued
<1>5. DOMAIN lines = Name
  BY NewSignedLines
<1> HIDE DEF lines
<1>6. IsCard(Card("shared", FALSE, lines))
  BY <1>1, <1>3, <1>4, <1>5 DEF IsCard, Card
<1> QED BY <1>6, Zenon DEF lines, NewSigned

LEMMA NewPrivateCard ==
    ASSUME NEW e
    PROVE  /\ IsCard(NewPrivate(e))
           /\ \A n \in Name : buildSharedEncrypted(e)[n] # {} => n \in TextName
<1> DEFINE lines == buildSharedEncrypted(e)
<1>1. DOMAIN lines = Name /\ \A n \in Name : lines[n] # {} => n \in TextName
  BY DEF buildSharedEncrypted
<1>2. \A n \in Name : AtMostOne(lines[n])
  <2>1. \A n \in Name : lines[n] = IF n \in TextName THEN OptionalText(e.text[n]) ELSE {}
    BY Zenon DEF buildSharedEncrypted
  <2>2. \A text : AtMostOne(OptionalText(text))
    BY DEF AtMostOne, OptionalText
  <2> QED BY <2>1, <2>2 DEF AtMostOne
<1>3. TextName \cap Public = {} /\ SingleValued \subseteq Name
  BY DEF Structure, Public, TextName, SingleValued
<1> HIDE DEF lines
<1>4. IsCard(Card("shared", TRUE, lines))
  BY <1>1, <1>2, <1>3 DEF IsCard, Card
<1>5. IsCard(NewPrivate(e))
  BY <1>4, Zenon DEF lines, NewPrivate
<1> QED BY <1>1, <1>5 DEF lines

LEMMA NewCalendarCards ==
    /\ IsCard(NewCalendar)
    /\ \A n \in Name : buildCalendarSigned[n] # {} => n \in {"STATUS", "TRANSP"}
    /\ IsCard(NewComment)
    /\ \A n \in Name : buildCalendarEncrypted[n] # {} => n = "COMMENT"
<1>1. /\ DOMAIN buildCalendarSigned = Name
      /\ \A n \in Name : buildCalendarSigned[n] # {} => n \in {"STATUS", "TRANSP"}
      /\ \A n \in Name : AtMostOne(buildCalendarSigned[n])
  BY DEF buildCalendarSigned, NoLines, AtMostOne, Name
<1>2. /\ DOMAIN buildCalendarEncrypted = Name
      /\ \A n \in Name : buildCalendarEncrypted[n] # {} => n = "COMMENT"
      /\ \A n \in Name : AtMostOne(buildCalendarEncrypted[n])
  BY DEF buildCalendarEncrypted, NoLines, AtMostOne, Name
<1>3. IsCard(NewCalendar)
  BY <1>1 DEF NewCalendar, IsCard, Card, Private, Structure, TextName, SingleValued
<1>4. IsCard(NewComment)
  BY <1>2 DEF NewComment, IsCard, Card, Public, Structure, TextName, SingleValued
<1> QED BY <1>1, <1>2, <1>3, <1>4

LEMMA NewLines ==
    ASSUME NEW e, NEW key, NEW new, new = Create(e, key)
    PROVE  /\ DOMAIN new = {"cards", "answers", "notifications", "color", "key"}
           /\ new.key = key /\ DOMAIN new.answers = {} /\ Places(new) = 1..4
           /\ new.notifications = e.reminders /\ new.color = e.color
           /\ new.cards[1] = NewSigned(e)
           /\ new.cards[2] = NewPrivate(e)
           /\ new.cards[3] = NewCalendar
           /\ new.cards[4] = NewComment
           /\ SharedSigned(new) = {1} /\ SharedEncrypted(new) = {2}
           /\ \A n \in Name : /\ Values(new, 1, n) = buildSharedSigned(e)[n]
                              /\ Values(new, 2, n) = buildSharedEncrypted(e)[n]
                              /\ Values(new, 3, n) = buildCalendarSigned[n]
                              /\ Values(new, 4, n) = buildCalendarEncrypted[n]
<1>1. /\ DOMAIN new = {"cards", "answers", "notifications", "color", "key"}
      /\ new.key = key /\ DOMAIN new.answers = {} /\ Places(new) = 1..4
      /\ new.notifications = e.reminders /\ new.color = e.color
  BY DEF Create, Places
<1>2. new.cards[1] = NewSigned(e)
  BY DEF Create, NewSigned
<1>3. new.cards[2] = NewPrivate(e)
  BY DEF Create, NewPrivate
<1>4. new.cards[3] = NewCalendar
  BY DEF Create, NewCalendar
<1>5. new.cards[4] = NewComment
  BY DEF Create, NewComment
<1>6. \A i \in Places(new) : i \in {1, 2, 3, 4}
  BY <1>1
<1>7. /\ new.cards[1].part = "shared" /\ ~new.cards[1].enc
      /\ new.cards[2].part = "shared" /\ new.cards[2].enc
      /\ new.cards[3].part = "calendar" /\ new.cards[4].part = "calendar"
  <2>1. new.cards[1].part = "shared"
    BY <1>2 DEF Card, NewSigned
  <2>2. ~new.cards[1].enc
    BY <1>2 DEF Card, NewSigned
  <2>3. new.cards[2].part = "shared"
    BY <1>3 DEF Card, NewPrivate
  <2>4. new.cards[2].enc
    BY <1>3 DEF Card, NewPrivate
  <2>5. new.cards[3].part = "calendar" /\ new.cards[4].part = "calendar"
    BY <1>4, <1>5 DEF Card, NewCalendar, NewComment
  <2> QED BY <2>1, <2>2, <2>3, <2>4, <2>5
<1>8. SharedSigned(new) = {1} /\ 1 \in Places(new)
  BY <1>1, <1>6, <1>7 DEF SharedSigned
<1>9. SharedEncrypted(new) = {2} /\ 2 \in Places(new)
  BY <1>1, <1>6, <1>7 DEF SharedEncrypted
<1>10. /\ \A n \in Name : Values(new, 1, n) = buildSharedSigned(e)[n]
       /\ \A n \in Name : Values(new, 2, n) = buildSharedEncrypted(e)[n]
       /\ \A n \in Name : Values(new, 3, n) = buildCalendarSigned[n]
       /\ \A n \in Name : Values(new, 4, n) = buildCalendarEncrypted[n]
  <2>1. \A n \in Name : Values(new, 1, n) = buildSharedSigned(e)[n]
    BY <1>2 DEF Values, Card, NewSigned
  <2>2. \A n \in Name : Values(new, 2, n) = buildSharedEncrypted(e)[n]
    BY <1>3 DEF Values, Card, NewPrivate
  <2>3. \A n \in Name : Values(new, 3, n) = buildCalendarSigned[n]
    BY <1>4 DEF Values, Card, NewCalendar
  <2>4. \A n \in Name : Values(new, 4, n) = buildCalendarEncrypted[n]
    BY <1>5 DEF Values, Card, NewComment
  <2> QED BY <2>1, <2>2, <2>3, <2>4
<1> QED BY <1>1, <1>2, <1>3, <1>4, <1>5, <1>8, <1>9, <1>10

LEMMA NewRow ==
    ASSUME NEW e, IsNew(e), NEW key \in Key
    PROVE  /\ IsRow(Create(e, key)) /\ Create(e, key) # NoRow
           /\ RecurrenceID(Create(e, key)) =
                {parseDateTime(DateValue(t, e.zone, e.allday)) : t \in e.original}
           /\ RRule(Create(e, key)) = e.rrule
<1>1. PICK new : new = Create(e, key)
  OBVIOUS
<1>2. /\ DOMAIN new = {"cards", "answers", "notifications", "color", "key"}
      /\ new.key = key /\ DOMAIN new.answers = {} /\ Places(new) = 1..4
  BY <1>1, NewLines
<1>3. new # NoRow
  BY <1>2 DEF NoRow
<1>4. \A i \in Places(new) : i \in {1, 2, 3, 4}
  BY <1>2
<1>5. /\ new.cards[1] = NewSigned(e)
      /\ new.cards[2] = NewPrivate(e)
      /\ new.cards[3] = NewCalendar
      /\ new.cards[4] = NewComment
  BY <1>1, NewLines
<1>6. SharedSigned(new) = {1} /\ SharedEncrypted(new) = {2}
  BY <1>1, NewLines
<1>7. SharedSigned(new) = {1} /\ SharedEncrypted(new) = {2} /\ 1 \in Places(new) /\ 2 \in Places(new)
  BY <1>2, <1>6
<1>8. /\ \A n \in Name : Values(new, 1, n) = buildSharedSigned(e)[n]
      /\ \A n \in Name : Values(new, 2, n) = buildSharedEncrypted(e)[n]
      /\ \A n \in Name : Values(new, 3, n) = buildCalendarSigned[n]
      /\ \A n \in Name : Values(new, 4, n) = buildCalendarEncrypted[n]
  BY <1>1, NewLines
<1>9. \A i \in Places(new) : IsCard(new.cards[i])
  <2>1. IsCard(new.cards[1])
    BY <1>5, NewSignedCard
  <2>2. IsCard(new.cards[2])
    BY <1>5, NewPrivateCard
  <2>3. IsCard(new.cards[3]) /\ IsCard(new.cards[4])
    BY <1>5, NewCalendarCards
  <2> QED BY <1>4, <2>1, <2>2, <2>3
<1>10. \A n \in SingleValued : AtMostOne(Giving(new, Places(new), n))
  <2>1. \A n \in Name : /\ Values(new, 1, n) # {} => n \in Structure
                        /\ Values(new, 2, n) # {} => n \in TextName
                        /\ Values(new, 3, n) # {} => n \in {"STATUS", "TRANSP"}
                        /\ Values(new, 4, n) # {} => n = "COMMENT"
    <3>1. \A n \in Name : buildSharedSigned(e)[n] # {} => n \in Structure
      BY NewSignedLines
    <3>2. \A n \in Name : buildSharedEncrypted(e)[n] # {} => n \in TextName
      BY NewPrivateCard
    <3>3. \A n \in Name : /\ buildCalendarSigned[n] # {} => n \in {"STATUS", "TRANSP"}
                          /\ buildCalendarEncrypted[n] # {} => n = "COMMENT"
      BY NewCalendarCards
    <3> QED BY <1>8, <3>1, <3>2, <3>3
  <2>2. ASSUME NEW n \in Name, NEW i \in Places(new), NEW j \in Places(new),
               Values(new, i, n) # {}, Values(new, j, n) # {}
        PROVE  i = j
    BY <1>4, <2>1, <2>2 DEF Structure, TextName
  <2> QED BY <2>2 DEF AtMostOne, Giving, SingleValued
<1>11. \A n \in Name : Column(new, n) = buildSharedSigned(e)[n]
  BY <1>7, <1>8, ColumnAt DEF SignedAt
<1>12. IsSchedule(new)
  <2>1. \A t \in {e.start, e.end} \cup e.original : DateValue(t, e.zone, e.allday) \in Date
    BY DateType DEF IsNew
  <2>2. {"DTSTART", "DTEND", "RECURRENCE-ID", "EXDATE", "SEQUENCE", "RRULE"} \subseteq Name
        /\ "EXDATE" \notin Structure
    BY DEF Name, Structure, TextName
  <2>3. \A n \in {"DTSTART", "DTEND", "RECURRENCE-ID", "EXDATE"} : Column(new, n) \subseteq Date
    BY <1>11, <2>1, <2>2, NewSignedLines
  <2>4. Column(new, "DTSTART") # {} /\ Column(new, "DTEND") # {}
    BY <1>11, <2>2, NewSignedLines
  <2>5. Column(new, "SEQUENCE") \subseteq Int
    BY <1>11, <2>2, NewSignedLines DEF IsNew
  <2>6. \A rule \in Column(new, "RRULE") : rule # NoRule /\ Checked(rule)
    BY <1>11, <2>2, NewSignedLines DEF IsNew
  <2> QED BY <2>3, <2>4, <2>5, <2>6 DEF IsSchedule, Date
<1>13. IsRow(new)
  <2>1. /\ \E p \in Places(new) : SharedSigned(new) = {p}
        /\ \E p \in Places(new) : SharedEncrypted(new) = {p}
    BY <1>7
  <2>2. Places(new) \subseteq Nat /\ DOMAIN new.answers \subseteq Token
    BY <1>2
  <2> QED BY <1>2, <1>9, <1>10, <1>12, <2>1, <2>2 DEF IsRow
<1>14. "RECURRENCE-ID" \in Name /\ "RRULE" \in Name
  BY DEF Name, Structure
<1>15. RecurrenceID(new) = {parseDateTime(DateValue(t, e.zone, e.allday)) : t \in e.original}
  BY <1>11, <1>14, NewSignedLines DEF RecurrenceID
<1>16. RRule(new) = e.rrule
  <2>1. Column(new, "RRULE") = {e.rrule} \ {NoRule}
    BY <1>11, <1>14, NewSignedLines
  <2>2. CASE e.rrule = NoRule
    <3>1. Column(new, "RRULE") = {}
      BY <2>1, <2>2
    <3> QED BY <2>2, <3>1 DEF RRule, Or
  <2>3. CASE e.rrule # NoRule
    <3>1. Column(new, "RRULE") = {e.rrule}
      BY <2>1, <2>3
    <3> QED BY <3>1, TheOnly DEF RRule
  <2> QED BY <2>2, <2>3
<1> QED BY <1>1, <1>3, <1>13, <1>15, <1>16

-----------------------------------------------------------------------------
(* What a row reads as depends on its cards alone.                         *)

LEMMA SameCards ==
    ASSUME NEW r, NEW q, q.cards = r.cards
    PROVE  /\ Places(q) = Places(r) /\ \A i, n : Values(q, i, n) = Values(r, i, n)
           /\ SharedSigned(q) = SharedSigned(r) /\ SharedEncrypted(q) = SharedEncrypted(r)
           /\ \A at, n : Giving(q, at, n) = Giving(r, at, n)
           /\ \A n : Column(q, n) = Column(r, n)
<1>1. Places(q) = Places(r)
  BY DEF Places
<1>2. \A i, n : Values(q, i, n) = Values(r, i, n)
  BY DEF Values
<1>3. SharedSigned(q) = SharedSigned(r)
  BY <1>1 DEF SharedSigned
<1>4. SharedEncrypted(q) = SharedEncrypted(r)
  BY <1>1 DEF SharedEncrypted
<1>5. \A at, n : Giving(q, at, n) = Giving(r, at, n)
  BY <1>2 DEF Giving
<1>6. \A n : Column(q, n) = Column(r, n)
  BY <1>2, <1>3, <1>5 DEF Column, First
<1> QED BY <1>1, <1>2, <1>3, <1>4, <1>5, <1>6

LEMMA SameCardsSameRow ==
    ASSUME NEW r, NEW q, IsRow(r), q.cards = r.cards, q.key = r.key, DOMAIN q = DOMAIN r,
           DOMAIN q.answers \subseteq Token
    PROVE  IsRow(q) /\ RRule(q) = RRule(r) /\ RecurrenceID(q) = RecurrenceID(r)
<1>1. /\ Places(q) = Places(r)
      /\ SharedSigned(q) = SharedSigned(r) /\ SharedEncrypted(q) = SharedEncrypted(r)
      /\ \A at, n : Giving(q, at, n) = Giving(r, at, n)
      /\ \A n : Column(q, n) = Column(r, n)
  BY SameCards
<1>2. RRule(q) = RRule(r) /\ RecurrenceID(q) = RecurrenceID(r)
  BY <1>1 DEF RRule, RecurrenceID
<1>3. IsSchedule(q)
  BY <1>1 DEF IsRow, IsSchedule
<1>4. \A i \in Places(q) : IsCard(q.cards[i])
  BY <1>1 DEF IsRow
<1>5. \A n \in SingleValued : AtMostOne(Giving(q, Places(q), n))
  BY <1>1 DEF IsRow
<1>6. Places(q) \subseteq Nat /\ DOMAIN q = {"cards", "answers", "notifications", "color", "key"}
      /\ q.key \in Key
  BY <1>1 DEF IsRow
<1>7. /\ \E p \in Places(q) : SharedSigned(q) = {p}
      /\ \E p \in Places(q) : SharedEncrypted(q) = {p}
  BY <1>1 DEF IsRow
<1> QED BY <1>2, <1>3, <1>4, <1>5, <1>6, <1>7 DEF IsRow

LEMMA GotRow ==
    ASSUME NEW row, IsRow(row)
    PROVE  /\ Get(row).cards = row.cards /\ Get(row).key = row.key /\ DOMAIN Get(row) = DOMAIN row
           /\ DOMAIN Get(row).answers \subseteq DOMAIN row.answers
           /\ IsRow(Get(row)) /\ RRule(Get(row)) = RRule(row) /\ RecurrenceID(Get(row)) = RecurrenceID(row)
<1> DEFINE kept == {t \in DOMAIN row.answers :
                      Cardinality({u \in DOMAIN row.answers : u < t}) < MaxAnswers}
           got == [row EXCEPT !.answers = [t \in kept |-> row.answers[t]]]
<1>1. got = Get(row)
  BY Zenon DEF Get
<1> HIDE DEF kept
<1>2. DOMAIN row = {"cards", "answers", "notifications", "color", "key"}
  BY DEF IsRow
<1>3. got.cards = row.cards /\ got.key = row.key /\ DOMAIN got = DOMAIN row /\ DOMAIN got.answers = kept
  BY <1>2
<1>4. kept \subseteq DOMAIN row.answers
  BY DEF kept
<1> HIDE DEF got
<1>5. DOMAIN got.answers \subseteq Token
  BY <1>3, <1>4 DEF IsRow
<1>6. IsRow(got) /\ RRule(got) = RRule(row) /\ RecurrenceID(got) = RecurrenceID(row)
  BY <1>3, <1>5, SameCardsSameRow
<1> QED BY <1>1, <1>3, <1>4, <1>6

\* The fields that updates start from.
LEMMA DecryptFields ==
    ASSUME NEW row, NEW keys
    PROVE  /\ Decrypt(row, keys).start = parseDateTime(The(Latest(row, Readable(row, keys), "DTSTART")))
           /\ Decrypt(row, keys).end = parseDateTime(The(Latest(row, Readable(row, keys), "DTEND")))
           /\ Decrypt(row, keys).zone = StartTimezone(row)
           /\ Decrypt(row, keys).allday = IsAllDay(row)
           /\ Decrypt(row, keys).rule = RRule(row)
           /\ Decrypt(row, keys).original = RecurrenceID(row)
           /\ Decrypt(row, keys).sequence = Or(Latest(row, Sequenced(row), "SEQUENCE"), 0)
BY DEF Decrypt

LEMMA ReadsSchedule ==
    ASSUME NEW row, IsRow(row), NEW keys
    PROVE  /\ Decrypt(row, keys).start = parseDateTime(The(Column(row, "DTSTART")))
           /\ Decrypt(row, keys).end = parseDateTime(The(Column(row, "DTEND")))
           /\ Decrypt(row, keys).start \in Int /\ Decrypt(row, keys).end \in Int
           /\ Decrypt(row, keys).zone \in Zone /\ Decrypt(row, keys).allday \in BOOLEAN
           /\ Decrypt(row, keys).sequence \in Int
<1>1. PICK p : SignedAt(row, p)
  BY SignedPlace
<1>2. {"DTSTART", "DTEND", "SEQUENCE"} \subseteq Structure
  BY DEF Structure
<1>3. p \in Readable(row, keys) /\ p \in Sequenced(row)
      /\ Readable(row, keys) \subseteq Places(row) /\ Sequenced(row) \subseteq Places(row)
  BY <1>1 DEF SignedAt, SharedSigned, Readable, Sequenced
<1>4. Latest(row, Readable(row, keys), "DTSTART") = Column(row, "DTSTART")
  BY <1>1, <1>2, <1>3, ScheduleAt
<1>5. Latest(row, Readable(row, keys), "DTEND") = Column(row, "DTEND")
  BY <1>1, <1>2, <1>3, ScheduleAt
<1>6. Latest(row, Sequenced(row), "SEQUENCE") = Column(row, "SEQUENCE")
  BY <1>1, <1>2, <1>3, ScheduleAt
<1>7. The(Column(row, "DTSTART")) \in Date /\ The(Column(row, "DTEND")) \in Date
  BY ChosenIsOne DEF IsRow, IsSchedule, Date
<1>8. parseDateTime(The(Column(row, "DTSTART"))) \in Int /\ parseDateTime(The(Column(row, "DTEND"))) \in Int
  BY <1>7, ReadDateType
<1>9. StartTimezone(row) \in Zone /\ IsAllDay(row) \in BOOLEAN
  BY <1>7 DEF StartTimezone, IsAllDay, Date
<1>10. Column(row, "SEQUENCE") \subseteq Int
  BY DEF IsRow, IsSchedule
<1>11. Or(Column(row, "SEQUENCE"), 0) \in Int
  BY <1>10, OrIsOne DEF Or
<1> QED BY <1>4, <1>5, <1>6, <1>8, <1>9, <1>11, DecryptFields

-----------------------------------------------------------------------------
(* What an update writes on the cards.                                     *)

\* What an update may be asked to do.
IsOptions(opts) ==
    /\ opts.start \subseteq Instant /\ opts.end \subseteq Instant
    /\ opts.addExdates \subseteq Instant /\ opts.zone \subseteq Zone
    /\ AtMostOne(opts.start) /\ AtMostOne(opts.end) /\ AtMostOne(opts.rrule)
    /\ \A rule \in opts.rrule : rule # NoRule /\ Checked(rule)
    /\ opts.clearRRule \in BOOLEAN
    /\ \A n \in TextName : AtMostOne(opts.text[n])

\* The dates an update moves: those given, or the old ones in another zone.
MovedTo(opts, current, given, old) ==
    {DateValue(t, Or(opts.zone, current.zone), current.allday) :
       t \in IF given = {} /\ opts.zone # {} /\ opts.zone # {current.zone} THEN {Timed(old, UTC)} ELSE given}

LEMMA MovedDates ==
    ASSUME NEW opts, IsOptions(opts), NEW current, current.zone \in Zone, current.allday \in BOOLEAN,
           NEW given \in SUBSET Instant, AtMostOne(given), NEW old \in Int
    PROVE  MovedTo(opts, current, given, old) \subseteq Date /\ AtMostOne(MovedTo(opts, current, given, old))
<1> DEFINE zone == Or(opts.zone, current.zone)
           from == IF given = {} /\ opts.zone # {} /\ opts.zone # {current.zone}
                   THEN {Timed(old, UTC)} ELSE given
<1>1. zone \in Zone
  BY OrIsOne DEF Or, IsOptions
<1>2. from \subseteq Instant /\ AtMostOne(from)
  BY RulesAssumption DEF RulesAssumption, Timed, Instant, AtMostOne
<1>3. MovedTo(opts, current, given, old) = {DateValue(t, zone, current.allday) : t \in from}
  BY Zenon DEF MovedTo
<1> HIDE DEF zone, from
<1>4. \A t \in from : DateValue(t, zone, current.allday) \in Date
  BY <1>1, <1>2, DateType
<1> QED BY <1>2, <1>3, <1>4 DEF AtMostOne

\* What a patch of the signed shared card may do.
SignedPatched(signed) ==
    /\ \A n \in Name \ {"DTSTART", "DTEND", "SEQUENCE", "RRULE"} : signed.set[n] = {}
    /\ \A n \in Name : AtMostOne(signed.set[n])
    /\ signed.set["DTSTART"] \subseteq Date /\ signed.set["DTEND"] \subseteq Date
    /\ signed.set["SEQUENCE"] \subseteq Int
    /\ \A rule \in signed.set["RRULE"] : rule # NoRule /\ Checked(rule)
    /\ signed.append \subseteq Date /\ signed.delete \subseteq {"RRULE", "EXDATE"}

\* What a patch of the encrypted one may do.
EncPatched(enc, text) ==
    /\ \A n \in Name \ TextName : enc.set[n] = {}
    /\ \A n \in TextName : AtMostOne(enc.set[n]) /\ \A t \in enc.set[n] : t.own \in text[n]
    /\ enc.append = {} /\ enc.delete \subseteq TextName

LEMMA SignedPatchDoes ==
    ASSUME NEW current, NEW opts, IsOptions(opts),
           current.start \in Int, current.end \in Int, current.zone \in Zone,
           current.allday \in BOOLEAN, current.sequence \in Int
    PROVE  SignedPatched(signedPatch(current, opts))
<1> DEFINE starts == MovedTo(opts, current, opts.start, current.start)
           ends == MovedTo(opts, current, opts.end, current.end)
           sequence == IF Significant(opts) THEN {current.sequence + 1} ELSE {}
           rule == IF opts.clearRRule THEN {} ELSE opts.rrule
           appended == {DateValue(t, Or(opts.zone, current.zone), current.allday) : t \in opts.addExdates}
           deleted == IF opts.clearRRule THEN {"RRULE", "EXDATE"} ELSE {}
           lines == [NoLines EXCEPT !["DTSTART"] = starts, !["DTEND"] = ends,
                                    !["SEQUENCE"] = sequence, !["RRULE"] = rule]
           patch == signedPatch(current, opts)
<1>1. patch = [delete |-> deleted, set |-> lines, append |-> appended]
  BY Zenon DEF signedPatch, MovedTo
<1>2. starts \subseteq Date /\ AtMostOne(starts)
  BY MovedDates DEF IsOptions
<1>3. ends \subseteq Date /\ AtMostOne(ends)
  BY MovedDates DEF IsOptions
<1>4. sequence \subseteq Int /\ AtMostOne(sequence)
  BY DEF AtMostOne
<1>5. AtMostOne(rule) /\ \A r \in rule : r # NoRule /\ Checked(r)
  BY DEF IsOptions, AtMostOne
<1>6. appended \subseteq Date
  <2>1. Or(opts.zone, current.zone) \in Zone
    BY OrIsOne DEF Or, IsOptions
  <2>2. \A t \in opts.addExdates : DateValue(t, Or(opts.zone, current.zone), current.allday) \in Date
    BY <2>1, DateType DEF IsOptions
  <2> QED BY <2>2
<1>7. deleted \subseteq {"RRULE", "EXDATE"}
  OBVIOUS
<1> HIDE DEF starts, ends, sequence, rule, appended, deleted, patch
<1>8. /\ lines["DTSTART"] = starts /\ lines["DTEND"] = ends
      /\ lines["SEQUENCE"] = sequence /\ lines["RRULE"] = rule
      /\ \A n \in Name \ {"DTSTART", "DTEND", "SEQUENCE", "RRULE"} : lines[n] = {}
  BY DEF NoLines, Name, Structure, TextName
<1>9. \A n \in Name : AtMostOne(lines[n])
  BY <1>2, <1>3, <1>4, <1>5, <1>8 DEF AtMostOne
<1>10. patch.set = lines /\ patch.append = appended /\ patch.delete = deleted
  BY <1>1
<1> HIDE DEF lines
<1>11. SignedPatched(patch)
  BY <1>2, <1>3, <1>4, <1>5, <1>6, <1>7, <1>8, <1>9, <1>10 DEF SignedPatched
<1> QED BY <1>11 DEF patch

LEMMA EncPatchDoes ==
    ASSUME NEW opts, IsOptions(opts)
    PROVE  EncPatched(encPatch(opts), opts.text)
<1> DEFINE patch == encPatch(opts)
           lines == [n \in Name |-> IF n \in TextName THEN {Text(own) : own \in opts.text[n] \ {""}} ELSE {}]
<1>1. patch.set = lines /\ patch.append = {} /\ patch.delete \subseteq TextName
  BY DEF encPatch
<1>2. TextName \subseteq Name
  BY DEF Name
<1>3. \A n \in Name \ TextName : lines[n] = {}
  OBVIOUS
<1>4. ASSUME NEW n \in TextName
      PROVE  AtMostOne(lines[n]) /\ \A t \in lines[n] : t.own \in opts.text[n]
  <2>1. lines[n] = {Text(own) : own \in opts.text[n] \ {""}}
    BY <1>2, <1>4
  <2>2. AtMostOne(opts.text[n])
    BY <1>4 DEF IsOptions
  <2>3. \A t \in lines[n] : \E own \in opts.text[n] : t = Text(own)
    BY <2>1
  <2>4. \A own : Text(own).own = own
    BY DEF Text
  <2> HIDE DEF lines
  <2>5. AtMostOne(lines[n])
    BY <2>2, <2>3 DEF AtMostOne
  <2>6. \A t \in lines[n] : t.own \in opts.text[n]
    BY <2>3, <2>4
  <2> QED BY <2>5, <2>6
<1> HIDE DEF patch, lines
<1>5. EncPatched(patch, opts.text)
  BY <1>1, <1>3, <1>4 DEF EncPatched
<1> QED BY <1>5 DEF patch

\* A card with a patch applied, and what it has of a property.
PatchedLines(card, patch, n) ==
    (IF n \in patch.delete THEN {}
     ELSE IF patch.set[n] # {} THEN patch.set[n]
     ELSE card.props[n]) \cup {v \in patch.append : n = "EXDATE"}

LEMMA CardPatched ==
    ASSUME NEW card, IsCard(card), NEW patch
    PROVE  /\ DOMAIN PatchCard(card, patch) = {"part", "enc", "alarms", "props"}
           /\ PatchCard(card, patch).part = card.part
           /\ PatchCard(card, patch).enc \in BOOLEAN /\ (PatchCard(card, patch).enc <=> card.enc)
           /\ PatchCard(card, patch).alarms = card.alarms
           /\ DOMAIN PatchCard(card, patch).props = Name
           /\ \A n \in Name : PatchCard(card, patch).props[n] = PatchedLines(card, patch, n)
<1> DEFINE props == [n \in Name |-> PatchedLines(card, patch, n)]
           new == [card EXCEPT !.props = props]
<1>1. PatchCard(card, patch) = new
  BY Zenon DEF PatchCard, PatchedLines
<1>2. DOMAIN card = {"part", "enc", "alarms", "props"} /\ card.enc \in BOOLEAN
  BY DEF IsCard
<1>3. DOMAIN props = Name
  OBVIOUS
<1>4. \A n \in Name : props[n] = PatchedLines(card, patch, n)
  OBVIOUS
<1> HIDE DEF props
<1>5. /\ DOMAIN new = {"part", "enc", "alarms", "props"} /\ new.part = card.part
      /\ new.alarms = card.alarms /\ new.props = props
  BY <1>2
<1>6. new.enc \in BOOLEAN /\ (new.enc <=> card.enc)
  BY <1>2
<1> HIDE DEF new
<1> QED BY <1>1, <1>3, <1>4, <1>5, <1>6

\* The signed shared card is still one, and has what is not asked for as it was.
LEMMA SignedStaysCard ==
    ASSUME NEW card, IsCard(card), card.part = "shared", ~card.enc,
           NEW signed, SignedPatched(signed), NEW new, new = PatchCard(card, signed)
    PROVE  /\ IsCard(new) /\ new.part = "shared" /\ ~new.enc /\ new.alarms = card.alarms
           /\ \A n \in Name \ {"DTSTART", "DTEND", "RRULE", "EXDATE", "SEQUENCE"} :
                new.props[n] = card.props[n]
           /\ \A n \in {"DTSTART", "DTEND"} :
                new.props[n] = IF signed.set[n] # {} THEN signed.set[n] ELSE card.props[n]
           /\ new.props["SEQUENCE"] \subseteq card.props["SEQUENCE"] \cup signed.set["SEQUENCE"]
           /\ new.props["RRULE"] \subseteq card.props["RRULE"] \cup signed.set["RRULE"]
           /\ new.props["EXDATE"] \subseteq card.props["EXDATE"] \cup signed.append
<1> DEFINE lines(n) == IF n \in signed.delete THEN {}
                       ELSE IF signed.set[n] # {} THEN signed.set[n] ELSE card.props[n]
<1>1. /\ DOMAIN new = {"part", "enc", "alarms", "props"} /\ new.part = "shared"
      /\ new.alarms = card.alarms /\ DOMAIN new.props = Name
  BY CardPatched
<1>2. new.enc \in BOOLEAN /\ ~new.enc
  BY CardPatched
<1>3. \A n \in Name : new.props[n] = lines(n) \cup {v \in signed.append : n = "EXDATE"}
  <2>1. \A n \in Name : new.props[n] = PatchedLines(card, signed, n)
    BY CardPatched
  <2> QED BY <2>1, Zenon DEF PatchedLines
<1>4. \A n \in Name : n # "EXDATE" => new.props[n] = lines(n)
  BY <1>3
<1>5. {"DTSTART", "DTEND", "RRULE", "SEQUENCE", "EXDATE"} \subseteq Name
  BY DEF Name, Structure
<1>6. signed.delete \subseteq {"RRULE", "EXDATE"}
      /\ \A n \in Name \ {"DTSTART", "DTEND", "SEQUENCE", "RRULE"} : signed.set[n] = {}
  BY DEF SignedPatched
<1>7. \A n \in Name \ {"DTSTART", "DTEND", "RRULE", "EXDATE", "SEQUENCE"} : new.props[n] = card.props[n]
  BY <1>4, <1>6
<1>8. \A n \in {"DTSTART", "DTEND"} :
         new.props[n] = IF signed.set[n] # {} THEN signed.set[n] ELSE card.props[n]
  BY <1>4, <1>5, <1>6
<1>9. /\ new.props["SEQUENCE"] \subseteq card.props["SEQUENCE"] \cup signed.set["SEQUENCE"]
      /\ new.props["RRULE"] \subseteq card.props["RRULE"] \cup signed.set["RRULE"]
  BY <1>4, <1>5
<1>10. new.props["EXDATE"] \subseteq card.props["EXDATE"] \cup signed.append
  <2>1. new.props["EXDATE"] \subseteq lines("EXDATE") \cup signed.append
    BY <1>3, <1>5
  <2>2. lines("EXDATE") \subseteq card.props["EXDATE"]
    BY <1>5, <1>6
  <2> QED BY <2>1, <2>2
<1>11. \A n \in SingleValued : AtMostOne(new.props[n])
  <2>1. \A n \in SingleValued : n \in Name /\ n # "EXDATE"
    BY DEF SingleValued, multiValuedProps
  <2>2. \A n \in SingleValued : AtMostOne(signed.set[n]) /\ AtMostOne(card.props[n])
    BY <2>1 DEF SignedPatched, IsCard
  <2> QED BY <1>4, <2>1, <2>2 DEF AtMostOne
<1>12. ASSUME NEW n \in Name, new.props[n] # {}
       PROVE  n \notin Private
  <2>1. CASE n \in {"DTSTART", "DTEND", "RRULE", "EXDATE", "SEQUENCE"}
    BY <2>1 DEF Private, TextName
  <2>2. CASE n \notin {"DTSTART", "DTEND", "RRULE", "EXDATE", "SEQUENCE"}
    BY <1>7, <1>12, <2>2 DEF IsCard
  <2> QED BY <2>1, <2>2
<1>13. IsCard(new)
  BY <1>1, <1>2, <1>11, <1>12 DEF IsCard
<1> QED BY <1>1, <1>2, <1>7, <1>8, <1>9, <1>10, <1>13

\* So is the encrypted one.
LEMMA EncStaysCard ==
    ASSUME NEW card, IsCard(card), card.part = "shared", card.enc, NEW text,
           NEW enc, EncPatched(enc, text), NEW new, new = PatchCard(card, enc)
    PROVE  /\ IsCard(new) /\ new.part = "shared" /\ new.enc /\ new.alarms = card.alarms
           /\ \A n \in Name \ TextName : new.props[n] = card.props[n]
           /\ \A n \in TextName : \A t \in new.props[n] \ card.props[n] : t.own \in text[n]
<1> DEFINE lines(n) == IF n \in enc.delete THEN {}
                       ELSE IF enc.set[n] # {} THEN enc.set[n] ELSE card.props[n]
<1>1. /\ DOMAIN new = {"part", "enc", "alarms", "props"} /\ new.part = "shared"
      /\ new.alarms = card.alarms /\ DOMAIN new.props = Name
  BY CardPatched
<1>2. new.enc \in BOOLEAN /\ new.enc
  BY CardPatched
<1>3. \A n \in Name : new.props[n] = lines(n) \cup {v \in enc.append : n = "EXDATE"}
  <2>1. \A n \in Name : new.props[n] = PatchedLines(card, enc, n)
    BY CardPatched
  <2> QED BY <2>1, Zenon DEF PatchedLines
<1>4. \A n \in Name : new.props[n] = lines(n)
  BY <1>3 DEF EncPatched
<1>5. \A n \in Name \ TextName : new.props[n] = card.props[n]
  BY <1>4 DEF EncPatched
<1>6. TextName \subseteq Name
  BY DEF Name
<1>7. \A n \in TextName : \A t \in new.props[n] \ card.props[n] : t.own \in text[n]
  BY <1>4, <1>6 DEF EncPatched
<1>8. \A n \in SingleValued : AtMostOne(new.props[n])
  <2>1. \A n \in SingleValued : n \in Name /\ AtMostOne(card.props[n])
    BY DEF SingleValued, IsCard
  <2>2. \A n \in TextName : AtMostOne(enc.set[n])
    BY DEF EncPatched
  <2>3. ASSUME NEW n \in SingleValued
        PROVE  AtMostOne(new.props[n])
    <3>1. CASE n \in TextName
      BY <1>4, <2>1, <2>2, <3>1 DEF AtMostOne
    <3>2. CASE n \notin TextName
      BY <1>5, <2>1, <3>2
    <3> QED BY <3>1, <3>2
  <2> QED BY <2>3
<1>9. ASSUME NEW n \in Name, new.props[n] # {}
      PROVE  n \notin Public
  <2>1. CASE n \in TextName
    BY <2>1 DEF Public, TextName, Structure
  <2>2. CASE n \notin TextName
    BY <1>5, <1>9, <2>2 DEF IsCard
  <2> QED BY <2>1, <2>2
<1>10. IsCard(new)
  BY <1>1, <1>2, <1>8, <1>9 DEF IsCard
<1> QED BY <1>1, <1>2, <1>5, <1>7, <1>10

-----------------------------------------------------------------------------
(* The row an update writes.                                               *)

SignedFor(row, opts) == signedPatch(Decrypt(Get(row), {row.key}), opts)

LEMMA UpdatedCards ==
    ASSUME NEW row, IsRow(row), NEW opts, NEW new, new = Updated(row, opts)
    PROVE  /\ DOMAIN new = {"cards", "answers", "notifications", "color", "key"}
           /\ new.key = row.key /\ DOMAIN new.answers \subseteq DOMAIN row.answers
           /\ Places(new) = Places(row)
           /\ \A i \in Places(row) : row.cards[i].part # "shared" => new.cards[i] = row.cards[i]
           /\ \A i \in SharedSigned(row) : new.cards[i] = PatchCard(row.cards[i], SignedFor(row, opts))
           /\ \A i \in SharedEncrypted(row) : new.cards[i] = PatchCard(row.cards[i], encPatch(opts))
<1> DEFINE raw == Get(row)
           color == IF opts.color = {} THEN raw.color ELSE opts.color
           cards == [i \in DOMAIN raw.cards |->
                       IF raw.cards[i].part = "shared"
                       THEN resealCard(raw.cards[i], signedPatch(Decrypt(raw, {raw.key}), opts), encPatch(opts))
                       ELSE raw.cards[i]]
           reminders == Or(opts.reminders, raw.notifications)
           body == [raw EXCEPT !.cards = cards, !.notifications = reminders, !.color = color]
           sent == IF body.color = {} THEN row.color ELSE body.color
<1>1. body = buildUpdateBody(raw, opts)
  BY Zenon DEF buildUpdateBody
<1>2. new = [body EXCEPT !.color = sent]
  BY <1>1, Zenon DEF Updated, Put
<1>3. /\ raw.cards = row.cards /\ raw.key = row.key
      /\ DOMAIN raw = {"cards", "answers", "notifications", "color", "key"}
      /\ DOMAIN raw.answers \subseteq DOMAIN row.answers
  BY GotRow DEF IsRow
<1> HIDE DEF raw, color, cards, reminders, sent
<1>4. /\ DOMAIN body = {"cards", "answers", "notifications", "color", "key"}
      /\ body.cards = cards /\ body.key = row.key /\ body.answers = raw.answers
  BY <1>3
<1> HIDE DEF body
<1>5. /\ DOMAIN new = {"cards", "answers", "notifications", "color", "key"}
      /\ new.cards = cards /\ new.key = row.key /\ new.answers = raw.answers
  BY <1>2, <1>4
<1>6. cards = [i \in Places(row) |->
                 IF row.cards[i].part = "shared"
                 THEN resealCard(row.cards[i], SignedFor(row, opts), encPatch(opts))
                 ELSE row.cards[i]]
  <2>1. DOMAIN raw.cards = Places(row)
    BY <1>3 DEF Places
  <2> QED BY <1>3, <2>1, Zenon DEF cards, SignedFor, raw
<1>7. DOMAIN cards = Places(row)
  BY <1>6
<1>8. \A i \in Places(row) : cards[i] = IF row.cards[i].part = "shared"
                 THEN resealCard(row.cards[i], SignedFor(row, opts), encPatch(opts))
                 ELSE row.cards[i]
  BY <1>6
<1>9. \A i \in SharedSigned(row) : cards[i] = PatchCard(row.cards[i], SignedFor(row, opts))
  BY <1>8 DEF SharedSigned, resealCard
<1>10. \A i \in SharedEncrypted(row) : cards[i] = PatchCard(row.cards[i], encPatch(opts))
  BY <1>8 DEF SharedEncrypted, resealCard
<1>11. \A i \in Places(row) : row.cards[i].part # "shared" => cards[i] = row.cards[i]
  BY <1>8
<1>12. Places(new) = Places(row)
  BY <1>5, <1>7 DEF Places
<1> QED BY <1>3, <1>5, <1>9, <1>10, <1>11, <1>12

\* What an update leaves as it was; texts change for those in text.
Survived(row, new, text) ==
    /\ Places(new) = Places(row)
    /\ \A i \in Places(row) :
         /\ new.cards[i].part = row.cards[i].part /\ (new.cards[i].enc <=> row.cards[i].enc)
         /\ new.cards[i].alarms = row.cards[i].alarms
         /\ row.cards[i].part # "shared" => new.cards[i] = row.cards[i]
         /\ \A n \in Name \ (TextName \cup {"DTSTART", "DTEND", "RRULE", "EXDATE", "SEQUENCE"}) :
              Values(new, i, n) = Values(row, i, n)
         /\ \A n \in TextName : \A t \in Values(new, i, n) \ Values(row, i, n) : t.own \in text[n]

LEMMA UpdatedRow ==
    ASSUME NEW row, IsRow(row), NEW opts, IsOptions(opts), NEW new, new = Updated(row, opts)
    PROVE  /\ IsRow(new) /\ RecurrenceID(new) = RecurrenceID(row)
           /\ Survived(row, new, opts.text)
<1> DEFINE signed == SignedFor(row, opts)
           enc == encPatch(opts)
<1>1. /\ DOMAIN new = {"cards", "answers", "notifications", "color", "key"}
      /\ new.key = row.key /\ DOMAIN new.answers \subseteq DOMAIN row.answers
      /\ Places(new) = Places(row)
      /\ \A i \in Places(row) : row.cards[i].part # "shared" => new.cards[i] = row.cards[i]
      /\ \A i \in SharedSigned(row) : new.cards[i] = PatchCard(row.cards[i], signed)
      /\ \A i \in SharedEncrypted(row) : new.cards[i] = PatchCard(row.cards[i], enc)
  BY UpdatedCards
<1>2. SignedPatched(signed)
  <2>1. IsRow(Get(row))
    BY GotRow
  <2>2. /\ Decrypt(Get(row), {row.key}).start \in Int /\ Decrypt(Get(row), {row.key}).end \in Int
        /\ Decrypt(Get(row), {row.key}).zone \in Zone /\ Decrypt(Get(row), {row.key}).allday \in BOOLEAN
        /\ Decrypt(Get(row), {row.key}).sequence \in Int
    BY <2>1, ReadsSchedule
  <2> QED BY <2>2, SignedPatchDoes DEF SignedFor
<1>3. EncPatched(enc, opts.text)
  BY EncPatchDoes
<1> HIDE DEF signed, enc
<1>4. \A i \in Places(row) : IsCard(row.cards[i])
  BY DEF IsRow
<1>5. PICK p \in Places(row) : SharedSigned(row) = {p} /\ p \in Nat
  BY DEF IsRow
<1>6. PICK q \in Places(row) : SharedEncrypted(row) = {q}
  BY DEF IsRow
<1>7. row.cards[p].part = "shared" /\ ~row.cards[p].enc /\ new.cards[p] = PatchCard(row.cards[p], signed)
  BY <1>1, <1>5 DEF SharedSigned
<1>8. row.cards[q].part = "shared" /\ row.cards[q].enc /\ new.cards[q] = PatchCard(row.cards[q], enc)
  BY <1>1, <1>6 DEF SharedEncrypted
<1>9. \A i \in Places(row) : i # p /\ i # q => row.cards[i].part # "shared" /\ new.cards[i] = row.cards[i]
  BY <1>1, <1>5, <1>6 DEF SharedSigned, SharedEncrypted
<1>10. /\ IsCard(new.cards[p]) /\ new.cards[p].part = "shared" /\ ~new.cards[p].enc
       /\ new.cards[p].alarms = row.cards[p].alarms
       /\ \A n \in Name \ {"DTSTART", "DTEND", "RRULE", "EXDATE", "SEQUENCE"} :
            Values(new, p, n) = Values(row, p, n)
       /\ \A n \in {"DTSTART", "DTEND"} :
            Values(new, p, n) = IF signed.set[n] # {} THEN signed.set[n] ELSE Values(row, p, n)
       /\ Values(new, p, "SEQUENCE") \subseteq Values(row, p, "SEQUENCE") \cup signed.set["SEQUENCE"]
       /\ Values(new, p, "RRULE") \subseteq Values(row, p, "RRULE") \cup signed.set["RRULE"]
       /\ Values(new, p, "EXDATE") \subseteq Values(row, p, "EXDATE") \cup signed.append
  BY <1>2, <1>4, <1>7, SignedStaysCard DEF Values
<1>11. /\ IsCard(new.cards[q]) /\ new.cards[q].part = "shared" /\ new.cards[q].enc
       /\ new.cards[q].alarms = row.cards[q].alarms
       /\ \A n \in Name \ TextName : Values(new, q, n) = Values(row, q, n)
       /\ \A n \in TextName : \A t \in Values(new, q, n) \ Values(row, q, n) : t.own \in opts.text[n]
  BY <1>3, <1>4, <1>8, EncStaysCard DEF Values
<1>12. \A i \in Places(row) : i # p /\ i # q => \A n : Values(new, i, n) = Values(row, i, n)
  BY <1>9 DEF Values
<1>13. \A i \in Places(row) : IsCard(new.cards[i])
  BY <1>4, <1>9, <1>10, <1>11
<1>14. \A i \in Places(row) : /\ new.cards[i].part = row.cards[i].part
                             /\ (new.cards[i].enc <=> row.cards[i].enc)
  BY <1>7, <1>8, <1>9, <1>10, <1>11
<1>15. \A i \in Places(row) : new.cards[i].alarms = row.cards[i].alarms
  BY <1>9, <1>10, <1>11
<1>16. SharedSigned(new) = {p} /\ SharedEncrypted(new) = {q}
  BY <1>1, <1>5, <1>6, <1>14 DEF SharedSigned, SharedEncrypted
<1>17. TextName \cap {"DTSTART", "DTEND", "RRULE", "EXDATE", "SEQUENCE"} = {} /\ TextName \subseteq Name
  BY DEF TextName, Name
<1>18. Survived(row, new, opts.text)
  <2>1. \A i \in Places(row) :
          \A n \in Name \ (TextName \cup {"DTSTART", "DTEND", "RRULE", "EXDATE", "SEQUENCE"}) :
              Values(new, i, n) = Values(row, i, n)
    BY <1>10, <1>11, <1>12
  <2>2. \A i \in Places(row) : \A n \in TextName :
          \A t \in Values(new, i, n) \ Values(row, i, n) : t.own \in opts.text[n]
    BY <1>10, <1>11, <1>12, <1>17
  <2> QED BY <1>1, <1>14, <1>15, <2>1, <2>2 DEF Survived
<1>19. SignedAt(row, p) /\ SignedAt(new, p)
  BY <1>1, <1>5, <1>16 DEF SignedAt
<1>20. \A n : Column(row, n) = Values(row, p, n) /\ Column(new, n) = Values(new, p, n)
  BY <1>19, ColumnAt
<1>21. RecurrenceID(new) = RecurrenceID(row)
  <2>1. "RECURRENCE-ID" \in Name \ {"DTSTART", "DTEND", "RRULE", "EXDATE", "SEQUENCE"}
    BY DEF Name, Structure
  <2> QED BY <1>10, <1>20, <2>1 DEF RecurrenceID
<1>22. IsSchedule(new)
  <2>1. /\ Values(row, p, "DTSTART") # {} /\ Values(row, p, "DTEND") # {}
        /\ \A n \in {"DTSTART", "DTEND", "RECURRENCE-ID", "EXDATE"} : Values(row, p, n) \subseteq Date
        /\ Values(row, p, "SEQUENCE") \subseteq Int
        /\ \A rule \in Values(row, p, "RRULE") : rule # NoRule /\ Checked(rule)
    BY <1>20 DEF IsRow, IsSchedule, Date
  <2>2. signed.set["DTSTART"] \subseteq Date /\ signed.set["DTEND"] \subseteq Date /\ signed.append \subseteq Date
        /\ signed.set["SEQUENCE"] \subseteq Int
        /\ \A rule \in signed.set["RRULE"] : rule # NoRule /\ Checked(rule)
    BY <1>2 DEF SignedPatched
  <2>3. \A n \in {"DTSTART", "DTEND"} : Values(new, p, n) # {} /\ Values(new, p, n) \subseteq Date
    BY <1>10, <2>1, <2>2
  <2>4. Values(new, p, "EXDATE") \subseteq Date
    BY <1>10, <2>1, <2>2
  <2>5. Values(new, p, "RECURRENCE-ID") \subseteq Date
    BY <1>10, <2>1 DEF Name, Structure
  <2>6. Values(new, p, "SEQUENCE") \subseteq Int
    BY <1>10, <2>1, <2>2
  <2>7. \A rule \in Values(new, p, "RRULE") : rule # NoRule /\ Checked(rule)
    BY <1>10, <2>1, <2>2
  <2> QED BY <1>20, <2>3, <2>4, <2>5, <2>6, <2>7 DEF IsSchedule, Date
<1>23. ASSUME NEW n \in SingleValued
       PROVE  AtMostOne(Giving(new, Places(new), n))
  <2>1. n \in Name /\ n # "EXDATE"
    BY DEF SingleValued, multiValuedProps
  <2>2. CASE n \in TextName
    <3>1. \A i \in Places(new) : Values(new, i, n) # {} => i \in SharedEncrypted(new)
      BY <1>1, <1>13, <2>1, <2>2 DEF IsCard, Values, SharedEncrypted, Private
    <3> QED BY <1>16, <3>1 DEF AtMostOne, Giving
  <2>3. CASE n \in Structure
    <3>1. \A i \in Places(new) : Values(new, i, n) # {} => i \in SharedSigned(new)
      BY <1>1, <1>13, <2>1, <2>3 DEF IsCard, Values, SharedSigned, Public
    <3> QED BY <1>16, <3>1 DEF AtMostOne, Giving
  <2>4. CASE n \notin TextName /\ n \notin Structure
    <3>1. \A i \in Places(row) : Values(new, i, n) = Values(row, i, n)
      BY <1>18, <2>1, <2>4 DEF Survived, Structure
    <3>2. Giving(new, Places(new), n) = Giving(row, Places(row), n)
      BY <1>1, <3>1 DEF Giving
    <3> QED BY <3>2 DEF IsRow
  <2> QED BY <2>2, <2>3, <2>4
<1>24. IsRow(new)
  <2>1. Places(new) \subseteq Nat /\ DOMAIN new.answers \subseteq Token /\ new.key \in Key
    BY <1>1 DEF IsRow
  <2>2. /\ \E i \in Places(new) : SharedSigned(new) = {i}
        /\ \E i \in Places(new) : SharedEncrypted(new) = {i}
    BY <1>1, <1>5, <1>6, <1>16
  <2>3. \A i \in Places(new) : IsCard(new.cards[i])
    BY <1>1, <1>13
  <2> QED BY <1>1, <1>22, <1>23, <2>1, <2>2, <2>3 DEF IsRow
<1> QED BY <1>18, <1>21, <1>24

-----------------------------------------------------------------------------
(* What is asked for is what the rows can be made of.                      *)

LEMMA HomeZoneInZone ==
    ASSUME NEW zone \in SUBSET Zone
    PROVE  Or(zone, HomeZone) \in Zone
BY OrIsOne, ConstantsAssumption DEF Or, ConstantsAssumption

LEMMA UpdateOptionsType ==
    ASSUME NEW in, IsRequest(in), NEW allday \in BOOLEAN, NEW opts \in UpdateOptions(in, allday)
    PROVE  IsOptions(opts) /\ opts.text = in.text
<1> DEFINE zone == Or(in.zone, HomeZone)
           rules == IF in.occurrence = {} /\ ~Empty(in.recurrence)
                    THEN buildRRule(in.recurrence, zone, allday) ELSE {NoRule}
           tz == updateTZName(in.zone, in.start # {} \/ in.end # {})
           starts == {parseWhen(w, zone) : w \in in.start}
           ends == {parseWhen(w, zone) : w \in in.end}
           color == {IF c = "default" THEN CalendarColor ELSE c : c \in in.color}
<1>1. PICK rule \in {r \in rules : validate(in)} :
        opts = [text |-> in.text, start |-> starts, end |-> ends, zone |-> tz,
                rrule |-> {rule} \ {NoRule}, clearRRule |-> in.norepeat, addExdates |-> {},
                reminders |-> in.reminders, color |-> color]
  BY Zenon DEF UpdateOptions
<1>2. in.zone \in SUBSET Zone
  BY DEF IsRequest
<1>3. zone \in Zone
  BY <1>2, HomeZoneInZone
<1>4. tz \subseteq Zone
  BY <1>2, ConstantsAssumption DEF ConstantsAssumption, updateTZName
<1>5. starts \subseteq Instant /\ AtMostOne(starts)
  <2>1. \A w \in in.start : parseWhen(w, zone) \in Instant
    BY <1>3, WhenType DEF IsRequest
  <2> QED BY <2>1 DEF IsRequest, AtMostOne
<1>6. ends \subseteq Instant /\ AtMostOne(ends)
  <2>1. \A w \in in.end : parseWhen(w, zone) \in Instant
    BY <1>3, WhenType DEF IsRequest
  <2> QED BY <2>1 DEF IsRequest, AtMostOne
<1>7. rule # NoRule => Checked(rule)
  <2>1. CASE in.occurrence = {} /\ ~Empty(in.recurrence)
    <3>1. rule \in buildRRule(in.recurrence, zone, allday)
      BY <2>1
    <3> QED BY <1>3, <3>1, RequestedRules DEF IsRequest
  <2>2. CASE ~(in.occurrence = {} /\ ~Empty(in.recurrence))
    BY <2>2
  <2> QED BY <2>1, <2>2
<1>8. in.norepeat \in BOOLEAN /\ \A n \in TextName : AtMostOne(in.text[n])
  BY DEF IsRequest
<1> HIDE DEF zone, rules, tz, starts, ends, color
<1>9. /\ opts.text = in.text /\ opts.start = starts /\ opts.end = ends /\ opts.zone = tz
      /\ opts.rrule = {rule} \ {NoRule} /\ opts.addExdates = {}
  BY <1>1
<1>10. opts.clearRRule \in BOOLEAN
  BY <1>1, <1>8
<1>11. AtMostOne(opts.rrule) /\ \A r \in opts.rrule : r # NoRule /\ Checked(r)
  BY <1>7, <1>9 DEF AtMostOne
<1> QED BY <1>4, <1>5, <1>6, <1>8, <1>9, <1>10, <1>11 DEF IsOptions

LEMMA SkipOptions ==
    ASSUME NEW t \in Int
    PROVE  IsOptions(Skip(t)) /\ Skip(t).text = NothingChanged
<1>1. Timed(t, UTC) \in Instant
  BY RulesAssumption DEF RulesAssumption, Timed, Instant
<1>2. \A n \in TextName : NothingChanged[n] = {}
  BY DEF NothingChanged
<1>3. /\ Skip(t).text = NothingChanged /\ Skip(t).start = {} /\ Skip(t).end = {} /\ Skip(t).zone = {}
      /\ Skip(t).rrule = {} /\ Skip(t).addExdates = {Timed(t, UTC)}
  BY DEF Skip
<1>4. Skip(t).clearRRule \in BOOLEAN
  BY DEF Skip
<1> QED BY <1>1, <1>2, <1>3, <1>4 DEF IsOptions, AtMostOne

LEMMA CreateTimesType ==
    ASSUME NEW in, IsCreate(in), NEW zone \in Zone, NEW times \in resolveCreateTimes(in, zone)
    PROVE  times.start \in Instant /\ times.end \in Instant
<1>1. parseWhen(in.start, UTC) \in Instant /\ parseWhen(in.start, zone) \in Instant
  BY WhenType, RulesAssumption DEF IsCreate, RulesAssumption
<1>2. in.start \in WallTime /\ (in.end # {} => The(in.end) \in WallTime)
  BY ChosenIsOne DEF IsCreate
<1>3. Or(in.end, in.start) \in WallTime
  BY <1>2 DEF Or
<1>4. Timed(Or(in.end, in.start).wall + DayLength, UTC) \in Instant
  BY <1>3, RulesAssumption DEF RulesAssumption, WallTime, Timed, Instant
<1>5. in.end # {} => parseWhen(The(in.end), zone) \in Instant
  BY <1>2, WhenType
<1>6. Timed(parseWhen(in.start, zone).at + DefaultDuration, zone) \in Instant
  BY <1>1, ConstantsAssumption DEF ConstantsAssumption, Timed, Instant
<1> DEFINE start == parseWhen(in.start, zone)
           end == IF in.end = {} THEN Timed(start.at + DefaultDuration, zone)
                  ELSE parseWhen(The(in.end), zone)
           first == parseWhen(in.start, UTC)
           last == Timed(Or(in.end, in.start).wall + DayLength, UTC)
<1>7. end \in Instant
  BY <1>5, <1>6
<1>8. times = [start |-> first, end |-> last] \/ times = [start |-> start, end |-> end]
  BY DEF resolveCreateTimes
<1> HIDE DEF start, end, first, last
<1>9. start \in Instant /\ first \in Instant /\ last \in Instant
  BY <1>1, <1>4 DEF start, first, last
<1> QED BY <1>7, <1>8, <1>9

LEMMA CreateOptionsType ==
    ASSUME NEW in, IsCreate(in), NEW e \in CreateOptions(in)
    PROVE  IsNew(e) /\ e.original = {}
<1> DEFINE zone == Or(in.zone, HomeZone)
<1>1. PICK times \in resolveCreateTimes(in, zone), rule \in buildRRule(in.recurrence, zone, in.allday) :
        e = [text |-> [n \in TextName |-> Text(in.text[n])], start |-> times.start, end |-> times.end, zone |-> zone,
             allday |-> in.allday, rrule |-> rule, original |-> {}, sequence |-> 0,
             reminders |-> in.reminders, color |-> in.color \ {"default"}]
  BY DEF CreateOptions
<1>2. zone \in Zone
  BY HomeZoneInZone DEF IsCreate
<1> HIDE DEF zone
<1>3. times.start \in Instant /\ times.end \in Instant
  BY <1>2, CreateTimesType
<1>4. in.allday \in BOOLEAN /\ IsRecurrence(in.recurrence)
  BY DEF IsCreate
<1>5. Checked(rule)
  BY <1>2, <1>4, RequestedRules
<1>6. /\ e.start = times.start /\ e.end = times.end /\ e.zone = zone
      /\ e.rrule = rule /\ e.original = {} /\ e.sequence = 0
  BY <1>1
<1>7. e.allday \in BOOLEAN
  BY <1>1, <1>4
<1> QED BY <1>2, <1>3, <1>5, <1>6, <1>7 DEF IsNew, AtMostOne

LEMMA SeedType ==
    ASSUME NEW row, IsRow(row), NEW keys, NEW opts, IsOptions(opts), NEW t \in Int,
           NEW e, e = seedExceptionRow(Decrypt(row, keys), opts, t)
    PROVE  IsNew(e) /\ e.original = {Timed(t, UTC)}
<1> DEFINE master == Decrypt(row, keys)
           start == Or(opts.start, Timed(t, UTC))
           length == Timed(start.at + master.end - master.start, start.zone)
           end == Or(opts.end, length)
<1>1. /\ master.start \in Int /\ master.end \in Int /\ master.zone \in Zone
      /\ master.allday \in BOOLEAN /\ master.sequence \in Int
  BY ReadsSchedule
<1>2. /\ e.start = start /\ e.end = end /\ e.zone = Or(opts.zone, master.zone)
      /\ e.rrule = NoRule /\ e.original = {Timed(t, UTC)} /\ e.sequence = master.sequence
  BY DEF seedExceptionRow
<1>3. e.allday \in BOOLEAN
  BY <1>1 DEF seedExceptionRow
<1> HIDE DEF master
<1>4. Timed(t, UTC) \in Instant
  BY RulesAssumption DEF RulesAssumption, Timed, Instant
<1>5. start \in Instant
  BY <1>4, OrIsOne DEF Or, IsOptions
<1> HIDE DEF start
<1>6. length \in Instant
  BY <1>1, <1>5 DEF Timed, Instant
<1> HIDE DEF length
<1>7. end \in Instant
  BY <1>6, OrIsOne DEF Or, IsOptions
<1>8. Or(opts.zone, master.zone) \in Zone
  BY <1>1, OrIsOne DEF Or, IsOptions
<1> HIDE DEF end
<1> QED BY <1>1, <1>2, <1>3, <1>4, <1>5, <1>7, <1>8 DEF IsNew, AtMostOne, Checked

-----------------------------------------------------------------------------
(* The invariant.                                                          *)

\* The event is no exception, and its edited occurrence is one, of one start.
IInv ==
    /\ edits \in 0..MaxEdits
    /\ main = NoRow => single = NoRow
    /\ main # NoRow => IsRow(main) /\ RecurrenceID(main) = {}
    /\ single # NoRow => IsRow(single) /\ \E t \in Int : RecurrenceID(single) = {t}

\* The texts that requests ask for.
Asked == [n \in TextName |-> UNION {in.text[n] : in \in Requests}]

\* Between two rows that are there, only what updates are about has changed.
Kept(row, new) == row # NoRow /\ new # NoRow => Survived(row, new, Asked)

LEMMA RowIsSome == ASSUME NEW row, IsRow(row) PROVE row # NoRow
BY DEF IsRow, NoRow

LEMMA AllDayType == ASSUME NEW row, IsRow(row) PROVE IsAllDay(row) \in BOOLEAN
<1>1. The(Column(row, "DTSTART")) \in [allday : BOOLEAN, zone : Zone, wall : Int]
  BY ChosenIsOne DEF IsRow, IsSchedule
<1> QED BY <1>1 DEF IsAllDay

LEMMA KeptAsIs ==
    ASSUME NEW row, NEW new, new.cards = row.cards
    PROVE  Kept(row, new)
<1>1. Places(new) = Places(row) /\ \A i, n : Values(new, i, n) = Values(row, i, n)
  BY SameCards
<1>2. \A i \in Places(row) : new.cards[i] = row.cards[i]
  OBVIOUS
<1> QED BY <1>1, <1>2 DEF Kept, Survived

LEMMA KeptAsked ==
    ASSUME NEW row, NEW new, NEW text, Survived(row, new, text),
           \A n \in TextName : text[n] \subseteq Asked[n]
    PROVE  Kept(row, new)
BY DEF Kept, Survived

LEMMA UpdateKeeps ==
    ASSUME NEW row, IsRow(row), NEW in \in Requests, NEW opts \in UpdateOptions(in, IsAllDay(row)),
           NEW new, new = Updated(row, opts)
    PROVE  IsRow(new) /\ RecurrenceID(new) = RecurrenceID(row) /\ Kept(row, new)
<1>1. IsRequest(in)
  BY RequestsAssumption DEF RequestsAssumption
<1>2. IsOptions(opts) /\ opts.text = in.text
  BY <1>1, AllDayType, UpdateOptionsType
<1>3. IsRow(new) /\ RecurrenceID(new) = RecurrenceID(row) /\ Survived(row, new, opts.text)
  BY <1>2, UpdatedRow
<1>4. \A n \in TextName : opts.text[n] \subseteq Asked[n]
  BY <1>2 DEF Asked
<1> QED BY <1>3, <1>4, KeptAsked

LEMMA SkipKeeps ==
    ASSUME NEW row, IsRow(row), NEW t \in Int, NEW new, new = Updated(row, Skip(t))
    PROVE  IsRow(new) /\ RecurrenceID(new) = RecurrenceID(row) /\ Kept(row, new)
<1>1. IsOptions(Skip(t)) /\ Skip(t).text = NothingChanged
  BY SkipOptions
<1>2. IsRow(new) /\ RecurrenceID(new) = RecurrenceID(row) /\ Survived(row, new, NothingChanged)
  BY <1>1, UpdatedRow
<1>3. \A n \in TextName : NothingChanged[n] \subseteq Asked[n]
  BY DEF NothingChanged
<1> QED BY <1>2, <1>3, KeptAsked

\* One step of the system, on the rows.
Steps == IInv' /\ Kept(main, main') /\ Kept(single, single')

LEMMA EditBound == ASSUME IInv, Edit PROVE edits' \in 0..MaxEdits
BY ConstantsAssumption DEF ConstantsAssumption, IInv, Edit

LEMMA CreateStep ==
    ASSUME IInv, NEW keys \in SUBSET Key, NEW in \in Creates, CreateEvent(in, keys)
    PROVE  Steps
<1>1. PICK e \in CreateOptions(in), key \in keys : main' = Create(e, key)
  BY DEF CreateEvent
<1>2. main = NoRow /\ single = NoRow /\ single' = NoRow
  BY DEF CreateEvent, IInv
<1>3. IsNew(e) /\ e.original = {}
  BY CreateOptionsType, RequestsAssumption DEF RequestsAssumption
<1>4. IsRow(main') /\ RecurrenceID(main') = {parseDateTime(DateValue(t, e.zone, e.allday)) : t \in e.original}
  BY <1>1, <1>3, NewRow
<1>5. RecurrenceID(main') = {}
  BY <1>3, <1>4
<1>6. edits' \in 0..MaxEdits
  BY EditBound DEF CreateEvent
<1>7. IInv'
  BY <1>2, <1>4, <1>5, <1>6, RowIsSome DEF IInv
<1> QED BY <1>2, <1>7 DEF Steps, Kept

LEMMA UpdateStep ==
    ASSUME IInv, NEW keys \in SUBSET Key, NEW in \in Requests, UpdateEvent(in, keys)
    PROVE  Steps
<1>1. PICK opts \in UpdateOptions(in, IsAllDay(main)) :
        /\ main' = Updated(main, opts)
        /\ single' = IF IsMaster(main) /\ Significant(opts) THEN NoRow ELSE single
  BY DEF UpdateEvent
<1>2. IsRow(main) /\ RecurrenceID(main) = {}
  BY DEF UpdateEvent, IInv
<1>3. IsRow(main') /\ RecurrenceID(main') = RecurrenceID(main) /\ Kept(main, main')
  BY <1>1, <1>2, UpdateKeeps
<1>4. main' # NoRow /\ (single' = NoRow \/ single' = single)
  BY <1>1, <1>3, RowIsSome
<1>5. Kept(single, single')
  <2>1. CASE single' = NoRow
    BY <2>1 DEF Kept
  <2>2. CASE single' = single
    BY <2>2, KeptAsIs
  <2> QED BY <1>4, <2>1, <2>2
<1>6. edits' \in 0..MaxEdits
  BY EditBound DEF UpdateEvent
<1>7. IInv'
  BY <1>2, <1>3, <1>4, <1>6 DEF IInv
<1> QED BY <1>3, <1>5, <1>7 DEF Steps

LEMMA SingleStep ==
    ASSUME IInv, NEW keys \in SUBSET Key, NEW in \in Requests, UpdateSingle(in, keys)
    PROVE  Steps
<1>1. PICK opts \in UpdateOptions(in, IsAllDay(single)) : single' = Updated(single, opts)
  BY DEF UpdateSingle
<1>2. single # NoRow /\ main' = main
  BY DEF UpdateSingle
<1>3. IsRow(single) /\ \E t \in Int : RecurrenceID(single) = {t}
  BY <1>2 DEF IInv
<1>4. IsRow(single') /\ RecurrenceID(single') = RecurrenceID(single) /\ Kept(single, single')
  BY <1>1, <1>3, UpdateKeeps
<1>5. Kept(main, main')
  BY <1>2, KeptAsIs
<1>6. edits' \in 0..MaxEdits
  BY EditBound DEF UpdateSingle
<1>7. IInv'
  BY <1>2, <1>3, <1>4, <1>6 DEF IInv
<1> QED BY <1>4, <1>5, <1>7 DEF Steps

\* The slot of an edited occurrence is one instant.
LEMMA SlotOfSeed ==
    ASSUME NEW t \in Int, NEW zone \in Zone, NEW allday \in BOOLEAN
    PROVE  parseDateTime(DateValue(Timed(t, UTC), zone, allday)) \in Int
<1>1. Timed(t, UTC) \in Instant
  BY RulesAssumption DEF RulesAssumption, Timed, Instant
<1> QED BY <1>1, DateType, ReadDateType

LEMMA OccurrenceStep ==
    ASSUME IInv, NEW keys \in SUBSET Key, NEW in \in Requests, UpdateOccurrence(in, keys)
    PROVE  Steps
<1> DEFINE t == parseWhen(The(in.occurrence), Or(in.zone, HomeZone)).at
<1>1. PICK opts \in UpdateOptions(in, Decrypt(main, keys).allday), key \in keys :
        single' = Create(seedExceptionRow(Decrypt(main, keys), opts, t), key)
  BY DEF UpdateOccurrence
<1>2. main # NoRow /\ single = NoRow /\ in.occurrence # {} /\ main' = main
  BY DEF UpdateOccurrence
<1>3. IsRow(main) /\ IsRequest(in)
  BY <1>2, RequestsAssumption DEF IInv, RequestsAssumption
<1>4. t \in Int
  <2>1. The(in.occurrence) \in WallTime
    BY <1>2, <1>3, ChosenIsOne DEF IsRequest
  <2>2. Or(in.zone, HomeZone) \in Zone
    BY <1>3, HomeZoneInZone DEF IsRequest
  <2> QED BY <2>1, <2>2, WhenType DEF Instant
<1> HIDE DEF t
<1>5. IsOptions(opts)
  BY <1>3, ReadsSchedule, UpdateOptionsType
<1>6. PICK e : e = seedExceptionRow(Decrypt(main, keys), opts, t)
  OBVIOUS
<1>7. IsNew(e) /\ e.original = {Timed(t, UTC)}
  BY <1>3, <1>4, <1>5, <1>6, SeedType
<1>8. single' = Create(e, key) /\ key \in Key
  BY <1>1, <1>6
<1>9. /\ IsRow(single')
      /\ RecurrenceID(single') = {parseDateTime(DateValue(u, e.zone, e.allday)) : u \in e.original}
  BY <1>7, <1>8, NewRow
<1>10. \E id \in Int : RecurrenceID(single') = {id}
  <2>1. RecurrenceID(single') = {parseDateTime(DateValue(Timed(t, UTC), e.zone, e.allday))}
    BY <1>7, <1>9
  <2>2. e.zone \in Zone /\ e.allday \in BOOLEAN
    BY <1>7 DEF IsNew
  <2>3. parseDateTime(DateValue(Timed(t, UTC), e.zone, e.allday)) \in Int
    BY <1>4, <2>2, SlotOfSeed
  <2> QED BY <2>1, <2>3
<1>11. edits' \in 0..MaxEdits
  BY EditBound DEF UpdateOccurrence
<1>12. IInv'
  BY <1>2, <1>9, <1>10, <1>11 DEF IInv
<1>13. Kept(main, main') /\ Kept(single, single')
  BY <1>2, KeptAsIs DEF Kept
<1> QED BY <1>12, <1>13 DEF Steps

LEMMA SkipStep ==
    ASSUME IInv, NEW keys \in SUBSET Key, NEW w \in Skips, DeleteOccurrence(w, keys)
    PROVE  Steps
<1> DEFINE t == parseWhen(w, HomeZone).at
<1>1. main # NoRow /\ main' = Updated(main, Skip(t)) /\ (single' = NoRow \/ single' = single)
  BY DEF DeleteOccurrence
<1>2. t \in Int
  BY WhenType, RequestsAssumption, ConstantsAssumption
  DEF RequestsAssumption, ConstantsAssumption, Instant
<1> HIDE DEF t
<1>3. IsRow(main) /\ RecurrenceID(main) = {}
  BY <1>1 DEF IInv
<1>4. IsRow(main') /\ RecurrenceID(main') = RecurrenceID(main) /\ Kept(main, main')
  BY <1>1, <1>2, <1>3, SkipKeeps
<1>5. main' # NoRow
  BY <1>4, RowIsSome
<1>6. Kept(single, single')
  <2>1. CASE single' = NoRow
    BY <2>1 DEF Kept
  <2>2. CASE single' = single
    BY <2>2, KeptAsIs
  <2> QED BY <1>1, <2>1, <2>2
<1>7. edits' \in 0..MaxEdits
  BY EditBound DEF DeleteOccurrence
<1>8. IInv'
  BY <1>1, <1>3, <1>4, <1>5, <1>7 DEF IInv
<1> QED BY <1>4, <1>6, <1>8 DEF Steps

LEMMA DeleteStep == ASSUME IInv, DeleteEvent PROVE Steps
<1>1. edits' \in 0..MaxEdits
  BY EditBound DEF DeleteEvent
<1> QED BY <1>1 DEF DeleteEvent, Steps, IInv, Kept

LEMMA AppStep == ASSUME IInv, AppCreates PROVE Steps
<1>1. main = NoRow /\ single = NoRow /\ single' = NoRow /\ main' \in AppRows
  BY DEF AppCreates, IInv
<1>2. IsRow(main') /\ RecurrenceID(main') = {}
  BY <1>1, AppRowsAssumption DEF AppRowsAssumption
<1>3. edits' \in 0..MaxEdits
  BY EditBound DEF AppCreates
<1>4. IInv'
  BY <1>1, <1>2, <1>3, RowIsSome DEF IInv
<1> QED BY <1>1, <1>4 DEF Steps, Kept

LEMMA AnswerStep ==
    ASSUME IInv, NEW t, NEW s, Answer(t, s)
    PROVE  Steps
<1>1. main # NoRow /\ main' = [main EXCEPT !.answers[t] = s] /\ single' = single
  BY DEF Answer
<1>2. IsRow(main) /\ RecurrenceID(main) = {}
  BY <1>1 DEF IInv
<1>3. DOMAIN main = {"cards", "answers", "notifications", "color", "key"} /\ DOMAIN main.answers \subseteq Token
  BY <1>2 DEF IsRow
<1> DEFINE answers == [main.answers EXCEPT ![t] = s]
<1>4. main' = [main EXCEPT !.answers = answers] /\ DOMAIN answers = DOMAIN main.answers
  BY <1>1
<1> HIDE DEF answers
<1>5. /\ main'.cards = main.cards /\ main'.key = main.key /\ DOMAIN main' = DOMAIN main
      /\ main'.answers = answers
  BY <1>3, <1>4
<1>6. IsRow(main') /\ RecurrenceID(main') = RecurrenceID(main)
  BY <1>2, <1>3, <1>4, <1>5, SameCardsSameRow
<1>7. Kept(main, main') /\ Kept(single, single')
  BY <1>1, <1>5, KeptAsIs
<1>8. edits' \in 0..MaxEdits
  BY EditBound DEF Answer
<1>9. IInv'
  BY <1>1, <1>2, <1>6, <1>8, RowIsSome DEF IInv
<1> QED BY <1>7, <1>9 DEF Steps

LEMMA EveryStep == ASSUME IInv, [Next]_vars PROVE Steps
<1>1. CASE Next
  <2>1. CASE \E keys \in SUBSET Key \ {{}} : \E in \in Creates : CreateEvent(in, keys)
    BY <2>1, CreateStep
  <2>2. CASE \E keys \in SUBSET Key \ {{}} : \E in \in Requests : UpdateEvent(in, keys)
    BY <2>2, UpdateStep
  <2>3. CASE \E keys \in SUBSET Key \ {{}} : \E in \in Requests : UpdateSingle(in, keys)
    BY <2>3, SingleStep
  <2>4. CASE \E keys \in SUBSET Key \ {{}} : \E in \in Requests : UpdateOccurrence(in, keys)
    BY <2>4, OccurrenceStep
  <2>5. CASE \E keys \in SUBSET Key \ {{}} : \E w \in Skips : DeleteOccurrence(w, keys)
    BY <2>5, SkipStep
  <2>6. CASE DeleteEvent
    BY <2>6, DeleteStep
  <2>7. CASE AppCreates
    BY <2>7, AppStep
  <2>8. CASE \E t \in Token, s \in Status : Answer(t, s)
    BY <2>8, AnswerStep
  <2> QED BY <1>1, <2>1, <2>2, <2>3, <2>4, <2>5, <2>6, <2>7, <2>8 DEF Next
<1>2. CASE UNCHANGED vars
  <2>1. IInv'
    BY <1>2 DEF IInv, vars
  <2>2. Kept(main, main') /\ Kept(single, single')
    BY <1>2, KeptAsIs DEF vars
  <2> QED BY <2>1, <2>2 DEF Steps
<1> QED BY <1>1, <1>2

LEMMA Invariant == Spec => []IInv
<1>1. Init => IInv
  BY ConstantsAssumption DEF ConstantsAssumption, Init, IInv
<1>2. IInv /\ [Next]_vars => IInv'
  BY EveryStep DEF Steps
<1> QED BY <1>1, <1>2, PTL DEF Spec

-----------------------------------------------------------------------------
(* What every state and every step has.                                    *)

LEMMA InvariantRows ==
    ASSUME IInv, NEW row \in Rows
    PROVE  IsRow(row)
BY DEF IInv, Rows

LEMMA AtMostOneIsSmall ==
    ASSUME NEW S, AtMostOne(S)
    PROVE  Cardinality(S) <= 1
<1>1. CASE S = {}
  BY <1>1, FS_EmptySet
<1>2. ASSUME NEW x \in S
      PROVE  Cardinality(S) <= 1
  <2>1. S = {x}
    BY <1>2 DEF AtMostOne
  <2>2. Cardinality({x}) = 1
    BY FS_Singleton
  <2> QED BY <2>1, <2>2
<1> QED BY <1>1, <1>2

LEMMA TypesFromInvariant == IInv => TypeOK
<1> SUFFICES ASSUME IInv PROVE TypeOK
  OBVIOUS
<1>1. single # NoRow => Cardinality(RecurrenceID(single)) = 1
  BY FS_Singleton DEF IInv
<1>2. ASSUME NEW row \in Rows
      PROVE  /\ row.key \in Key /\ DOMAIN row.answers \subseteq Token
             /\ \A n \in SingleValued : Cardinality(Giving(row, Places(row), n)) <= 1
             /\ \A n \in SingleValued, i \in Places(row) : Cardinality(Values(row, i, n)) <= 1
  <2>1. IsRow(row)
    BY <1>2, InvariantRows
  <2>2. \A n \in SingleValued : Cardinality(Giving(row, Places(row), n)) <= 1
    BY <2>1, AtMostOneIsSmall DEF IsRow
  <2>3. ASSUME NEW n \in SingleValued, NEW i \in Places(row)
        PROVE  Cardinality(Values(row, i, n)) <= 1
    <3>1. AtMostOne(Values(row, i, n))
      BY <2>1, <2>3 DEF IsRow, IsCard, Values
    <3> QED BY <3>1, AtMostOneIsSmall
  <2>4. row.key \in Key /\ DOMAIN row.answers \subseteq Token
    BY <2>1 DEF IsRow
  <2> QED BY <2>2, <2>3, <2>4
<1> QED BY <1>1, <1>2 DEF TypeOK, IInv

\* However rows are made and updated, a property that has one value has it on
\* one card, and only an edited occurrence has an original start (write.go).
THEOREM CardTypes == Spec => []TypeOK
BY Invariant, TypesFromInvariant, PTL

LEMMA LinesFromInvariant == IInv => EachLineInItsCard
<1> SUFFICES ASSUME IInv, NEW row \in Rows, NEW i \in Places(row), NEW n \in Name,
                    row.cards[i].props[n] # {}
             PROVE  /\ n \in TextName \cup {"COMMENT", "ATTENDEE", "X-PM-CONFERENCE-URL"} => row.cards[i].enc
                    /\ n \in Structure \cup {"EXDATE", "STATUS", "TRANSP"} => ~row.cards[i].enc
  BY DEF EachLineInItsCard
<1>1. IsCard(row.cards[i])
  BY InvariantRows DEF IsRow
<1>2. (n \in Private => row.cards[i].enc) /\ (n \in Public => ~row.cards[i].enc)
  BY <1>1 DEF IsCard
<1> QED BY <1>2 DEF Private, Public

\* No request, and no order of them, puts a private line on a card that is not
\* encrypted, nor a line of the schedule on one that is (write.go, ical.go).
THEOREM LinesInTheirCards == Spec => []EachLineInItsCard
BY Invariant, LinesFromInvariant, PTL

LEMMA KeptUntouched ==
    ASSUME NEW row, NEW new, Kept(row, new)
    PROVE  Untouched(row, new)
<1> SUFFICES ASSUME row # NoRow, new # NoRow
             PROVE  /\ Places(new) = Places(row)
                    /\ \A i \in Places(row) :
                         /\ new.cards[i].part = row.cards[i].part /\ (new.cards[i].enc <=> row.cards[i].enc)
                         /\ new.cards[i].alarms = row.cards[i].alarms
                         /\ row.cards[i].part # "shared" => new.cards[i] = row.cards[i]
                         /\ \A n \in Name \ About : new.cards[i].props[n] = row.cards[i].props[n]
                         /\ \A n \in TextName : \A t \in new.cards[i].props[n] \ row.cards[i].props[n] :
                              \E in \in Requests : t.own \in in.text[n]
  BY Zenon DEF Untouched
<1>1. Survived(row, new, Asked)
  BY DEF Kept
<1>2. \A n \in TextName : \A own \in Asked[n] : \E in \in Requests : own \in in.text[n]
  BY DEF Asked
<1>3. \A i \in Places(row) : \A n \in TextName : \A t \in Values(new, i, n) \ Values(row, i, n) :
        \E in \in Requests : t.own \in in.text[n]
  BY <1>1, <1>2 DEF Survived
<1> QED BY <1>1, <1>3 DEF Survived, Values, About

\* No update, and no sequence of them, loses or changes a line it is not about,
\* or writes a text nobody asked for (write.go, patch.go).
THEOREM UntouchedLines == Spec => UntouchedLinesSurvive
<1>1. IInv /\ [Next]_vars => Untouched(main, main') /\ Untouched(single, single')
  BY EveryStep, KeptUntouched DEF Steps
<1> QED BY <1>1, Invariant, PTL DEF Spec, UntouchedLinesSurvive

-----------------------------------------------------------------------------
(* Exports.                                                                *)

LEMMA BodyFields ==
    ASSUME NEW row, NEW keys, NEW extras, NEW body, body = buildVEventBody(row, keys, extras)
    PROVE  /\ \A n \in strippedProps : body.props[n] = {}
           /\ body.alarms = AlarmsOf(row, Readable(row, keys)) \cup extras.reminders
           /\ extras.reminders \subseteq body.alarms /\ body.color = extras.color
           /\ \A n \in multiValuedProps : body.props[n] = AllOf(row, Readable(row, keys), n)
           /\ \A n \in SingleValued \ strippedProps :
                body.props[n] = IF n \in Structure /\ Latest(row, SharedSigned(row), n) # {}
                                THEN Latest(row, SharedSigned(row), n)
                                ELSE First(row, Readable(row, keys), n)
<1> DEFINE at == Readable(row, keys)
           lines(n) == IF n \in strippedProps THEN {}
                       ELSE IF n \in multiValuedProps THEN AllOf(row, at, n)
                       ELSE IF n \in Structure /\ Latest(row, SharedSigned(row), n) # {}
                            THEN Latest(row, SharedSigned(row), n)
                       ELSE First(row, at, n)
           props == [n \in Name |-> lines(n)]
           alarms == AlarmsOf(row, at) \cup extras.reminders
<1>1. body = [props |-> props, alarms |-> alarms, color |-> extras.color]
  BY Zenon DEF buildVEventBody
<1> HIDE DEF at
<1>2. strippedProps \subseteq Name /\ multiValuedProps \subseteq Name
      /\ strippedProps \cap multiValuedProps = {}
  BY DEF strippedProps, multiValuedProps, Name
<1>3. \A n \in Name : props[n] = lines(n)
  BY Zenon
<1>4. \A n \in strippedProps : props[n] = {}
  BY <1>2, <1>3
<1>5. \A n \in multiValuedProps : props[n] = AllOf(row, at, n)
  BY <1>2, <1>3
<1>6. \A n \in SingleValued \ strippedProps :
         props[n] = IF n \in Structure /\ Latest(row, SharedSigned(row), n) # {}
                    THEN Latest(row, SharedSigned(row), n)
                    ELSE First(row, at, n)
  BY <1>3 DEF SingleValued
<1>7. extras.reminders \subseteq alarms
  OBVIOUS
<1> HIDE DEF props, alarms
<1>8. body.props = props /\ body.alarms = alarms /\ body.color = extras.color
  BY <1>1
<1> QED BY <1>4, <1>5, <1>6, <1>7, <1>8 DEF alarms, at

\* With all the keys, what the body of a row has of a property is all there is.
LEMMA BodyIsWhole ==
    ASSUME NEW row, IsRow(row), NEW keys, Readable(row, keys) = Places(row),
           NEW extras, NEW body, body = buildVEventBody(row, keys, extras)
    PROVE  /\ \A n \in Name \ strippedProps : body.props[n] = AllOf(row, Places(row), n)
           /\ \A i \in Places(row) : row.cards[i].alarms \subseteq body.alarms
<1>1. \A i \in Places(row) : row.cards[i].alarms \subseteq body.alarms
  <2>1. body.alarms = AlarmsOf(row, Places(row)) \cup extras.reminders
    BY BodyFields
  <2> QED BY <2>1 DEF AlarmsOf
<1>2. PICK p : SignedAt(row, p)
  BY SignedPlace
<1>3. ASSUME NEW n \in Name, n \notin strippedProps, n \notin multiValuedProps
      PROVE  body.props[n] = AllOf(row, Places(row), n)
  <2>1. n \in SingleValued
    BY <1>3 DEF SingleValued
  <2>2. First(row, Places(row), n) = AllOf(row, Places(row), n)
    <3>1. AtMostOne(Giving(row, Places(row), n)) /\ Places(row) \subseteq Nat
      BY <2>1 DEF IsRow
    <3> QED BY <3>1, SingleIsAll
  <2>3. body.props[n] = IF n \in Structure /\ Latest(row, SharedSigned(row), n) # {}
                        THEN Latest(row, SharedSigned(row), n)
                        ELSE First(row, Places(row), n)
    BY <1>3, <2>1, BodyFields
  <2>4. n \in Structure => Latest(row, SharedSigned(row), n) = First(row, Places(row), n)
    <3>1. ASSUME n \in Structure
          PROVE  Latest(row, SharedSigned(row), n) = First(row, Places(row), n)
      <4>1. p \in Places(row)
        BY <1>2 DEF SignedAt
      <4>2. First(row, Places(row), n) = Column(row, n) /\ Column(row, n) = Values(row, p, n)
        BY <1>2, <3>1, <4>1, ScheduleAt
      <4>3. Latest(row, SharedSigned(row), n) = Values(row, p, n)
        BY <1>2, ColumnAt
      <4> QED BY <4>2, <4>3
    <3> QED BY <3>1
  <2> QED BY <2>2, <2>3, <2>4
<1>4. \A n \in multiValuedProps : body.props[n] = AllOf(row, Places(row), n)
  BY BodyFields
<1> QED BY <1>1, <1>3, <1>4

LEMMA MissingKey ==
    ASSUME NEW row, NEW keys
    PROVE  DecryptFailed(row, keys) => row.key \notin keys
BY DEF DecryptFailed, Readable

\* What applies to an event does not depend on the keys it is read with.
LEMMA ExtrasOfRow ==
    ASSUME NEW row, NEW keys
    PROVE  /\ effectiveExtras(Decrypt(row, keys)).reminders = EffectiveReminders(Decrypt(row, Key))
           /\ effectiveExtras(Decrypt(row, keys)).color = EffectiveColor(Decrypt(row, Key))
<1>1. \A k : /\ Decrypt(row, k).reminders = row.notifications
             /\ Decrypt(row, k).color = row.color
             /\ Decrypt(row, k).allday = IsAllDay(row)
  BY DEF Decrypt
<1>2. \A k : EffectiveReminders(Decrypt(row, k)) = Or(row.notifications, DefaultReminders[IsAllDay(row)])
  BY <1>1 DEF EffectiveReminders
<1>3. \A k : EffectiveColor(Decrypt(row, k)) = Or(row.color, CalendarColor)
  BY <1>1 DEF EffectiveColor
<1>4. /\ effectiveExtras(Decrypt(row, keys)).reminders = EffectiveReminders(Decrypt(row, keys))
      /\ effectiveExtras(Decrypt(row, keys)).color = EffectiveColor(Decrypt(row, keys))
  BY DEF effectiveExtras
<1> QED BY <1>2, <1>3, <1>4

LEMMA BodyExtras ==
    ASSUME NEW row, NEW keys, NEW extras, NEW body, body = buildVEventBody(row, keys, extras)
    PROVE  extras.reminders \subseteq body.alarms /\ body.color = extras.color
BY BodyFields

LEMMA WholeOfExtras ==
    ASSUME NEW row, IsRow(row), NEW keys, Readable(row, keys) = Places(row),
           NEW extras, NEW body, body = buildVEventBody(row, keys, extras),
           extras.reminders = EffectiveReminders(Decrypt(row, Key)),
           extras.color = EffectiveColor(Decrypt(row, Key))
    PROVE  ExportedWhole(body, row)
<1>1. /\ \A n \in Name \ strippedProps : body.props[n] = AllOf(row, Places(row), n)
      /\ \A i \in Places(row) : row.cards[i].alarms \subseteq body.alarms
  BY BodyIsWhole
<1>2. extras.reminders \subseteq body.alarms /\ body.color = extras.color
  BY BodyExtras
<1> QED BY <1>1, <1>2 DEF ExportedWhole

LEMMA WholeWithKeys ==
    ASSUME NEW row, IsRow(row), NEW keys, ~DecryptFailed(row, keys)
    PROVE  ExportedWhole(buildVEventBody(row, keys, effectiveExtras(Decrypt(row, keys))), row)
<1>1. Readable(row, keys) = Places(row)
  BY DEF DecryptFailed
<1>2. PICK extras : extras = effectiveExtras(Decrypt(row, keys))
  OBVIOUS
<1>3. /\ extras.reminders = EffectiveReminders(Decrypt(row, Key))
      /\ extras.color = EffectiveColor(Decrypt(row, Key))
  BY <1>2, ExtrasOfRow
<1>4. PICK body : body = buildVEventBody(row, keys, extras)
  OBVIOUS
<1>5. ExportedWhole(body, row)
  BY <1>1, <1>3, <1>4, WholeOfExtras
<1> QED BY <1>2, <1>4, <1>5

LEMMA Stripped ==
    ASSUME NEW row, NEW keys, NEW extras
    PROVE  \A n \in strippedProps : buildVEventBody(row, keys, extras).props[n] = {}
<1>1. PICK body : body = buildVEventBody(row, keys, extras)
  OBVIOUS
<1>2. \A n \in strippedProps : body.props[n] = {}
  BY <1>1, BodyFields
<1> QED BY <1>1, <1>2

-----------------------------------------------------------------------------
(* The order of a series.                                                  *)

LEMMA OrderOfOne ==
    ASSUME NEW r, ~Precedes(r, r)
    PROVE  orderSeriesRows({r}) = <<r>>
<1> DEFINE Ordered(s) == /\ \A q \in {r} : \E i \in DOMAIN s : s[i] = q
                         /\ \A i, j \in DOMAIN s : Precedes(s[i], s[j]) => i < j
<1>1. Cardinality({r}) = 1
  BY FS_Singleton
<1>2. orderSeriesRows({r}) = CHOOSE s \in [1..1 -> {r}] : Ordered(s)
  BY <1>1, Zenon DEF orderSeriesRows
<1>3. \A s \in [1..1 -> {r}] : s = <<r>>
  OBVIOUS
<1>4. <<r>> \in [1..1 -> {r}] /\ Ordered(<<r>>)
  OBVIOUS
<1> HIDE DEF Ordered
<1> QED BY <1>2, <1>3, <1>4

LEMMA OrderOfTwo ==
    ASSUME NEW r, NEW q, r # q, Precedes(r, q), ~Precedes(q, r), ~Precedes(r, r), ~Precedes(q, q)
    PROVE  orderSeriesRows({r, q}) = <<r, q>>
<1> DEFINE Ordered(s) == /\ \A x \in {r, q} : \E i \in DOMAIN s : s[i] = x
                         /\ \A i, j \in DOMAIN s : Precedes(s[i], s[j]) => i < j
<1>1. Cardinality({r, q}) = 2
  <2>1. Cardinality({r}) = 1 /\ IsFiniteSet({r})
    BY FS_Singleton
  <2>2. Cardinality({r} \cup {q}) = Cardinality({r}) + 1
    BY <2>1, FS_AddElement
  <2>3. {r, q} = {r} \cup {q}
    OBVIOUS
  <2> QED BY <2>1, <2>2, <2>3
<1>2. orderSeriesRows({r, q}) = CHOOSE s \in [1..2 -> {r, q}] : Ordered(s)
  BY <1>1, Zenon DEF orderSeriesRows
<1>3. ASSUME NEW s \in [1..2 -> {r, q}], Ordered(s)
      PROVE  s = <<r, q>>
  <2>1. DOMAIN s = 1..2
    OBVIOUS
  <2>2. PICK i \in 1..2 : s[i] = r
    BY <1>3, <2>1
  <2>3. PICK j \in 1..2 : s[j] = q
    BY <1>3, <2>1
  <2>4. i < j
    BY <1>3, <2>1, <2>2, <2>3
  <2>5. s[1] = r /\ s[2] = q
    BY <2>2, <2>3, <2>4
  <2> HIDE DEF Ordered
  <2> QED BY <2>1, <2>5
<1>4. <<r, q>> \in [1..2 -> {r, q}] /\ Ordered(<<r, q>>)
  <2> DEFINE s == <<r, q>>
  <2>1. DOMAIN s = 1..2 /\ s[1] = r /\ s[2] = q /\ s \in [1..2 -> {r, q}]
    OBVIOUS
  <2> HIDE DEF s
  <2>2. \A i \in DOMAIN s : i = 1 \/ i = 2
    BY <2>1
  <2>3. \A i, j \in DOMAIN s : Precedes(s[i], s[j]) => i < j
    BY <2>1, <2>2
  <2>4. \A x \in {r, q} : \E i \in DOMAIN s : s[i] = x
    BY <2>1
  <2> QED BY <2>1, <2>3, <2>4 DEF s
<1> HIDE DEF Ordered
<1> QED BY <1>2, <1>3, <1>4

-----------------------------------------------------------------------------
(* An export that is not marked degraded has every row whole.              *)

\* The edited occurrence comes after the series it belongs to.
LEMMA SeriesOrder ==
    ASSUME IInv, main # NoRow
    PROVE  /\ ~Precedes(main, main)
           /\ single # NoRow => /\ main # single /\ ~IsMaster(single)
                                /\ ~Precedes(single, single)
                                /\ IsMaster(main) => Precedes(main, single) /\ ~Precedes(single, main)
<1>1. RecurrenceID(main) = {}
  BY DEF IInv
<1>2. Or(RecurrenceID(main), 0) = 0
  BY <1>1 DEF Or
<1>3. ~Precedes(main, main)
  BY <1>2 DEF Precedes
<1>4. ASSUME single # NoRow
      PROVE  /\ main # single /\ ~IsMaster(single)
             /\ ~Precedes(single, single)
             /\ IsMaster(main) => Precedes(main, single) /\ ~Precedes(single, main)
  <2>1. PICK t \in Int : RecurrenceID(single) = {t}
    BY <1>4 DEF IInv
  <2>2. main # single /\ ~IsMaster(single)
    BY <1>1, <2>1 DEF IsMaster
  <2>3. Or(RecurrenceID(single), 0) = t
    BY <2>1, TheOnly
  <2>4. ~Precedes(single, single)
    BY <2>3 DEF Precedes
  <2> QED BY <2>2, <2>4 DEF Precedes
<1> QED BY <1>3, <1>4

LEMMA SeriesRows ==
    ASSUME IInv, main # NoRow
    PROVE  /\ Rows = IF single # NoRow THEN {main, single} ELSE {main}
           /\ HasMaster(Rows) <=> IsMaster(main)
<1>1. Rows = IF single # NoRow THEN {main, single} ELSE {main}
  BY DEF Rows
<1> QED BY <1>1, SeriesOrder DEF HasMaster

\* The rows of the export, in their order.
Series == IF IsMaster(main) /\ single # NoRow THEN <<main, single>> ELSE <<main>>

LEMMA OrderOfSeries ==
    ASSUME IInv, main # NoRow, IsMaster(main)
    PROVE  orderSeriesRows(Rows) = Series
<1>1. CASE single = NoRow
  <2>1. Rows = {main}
    BY <1>1, SeriesRows
  <2>2. orderSeriesRows({main}) = <<main>>
    BY SeriesOrder, OrderOfOne
  <2> QED BY <1>1, <2>1, <2>2 DEF Series
<1>2. CASE single # NoRow
  <2>1. Rows = {main, single}
    BY <1>2, SeriesRows
  <2>2. orderSeriesRows({main, single}) = <<main, single>>
    BY <1>2, SeriesOrder, OrderOfTwo
  <2> QED BY <1>2, <2>1, <2>2 DEF Series
<1> QED BY <1>1, <1>2

LEMMA SeriesPlaces ==
    ASSUME IInv, main # NoRow
    PROVE  \A i \in DOMAIN Series : Series[i] \in Rows /\ IsRow(Series[i])
<1>1. CASE IsMaster(main) /\ single # NoRow
  <2>1. DOMAIN Series = 1..2 /\ Series[1] = main /\ Series[2] = single
    BY <1>1 DEF Series
  <2>2. \A i \in 1..2 : i = 1 \/ i = 2
    OBVIOUS
  <2> QED BY <1>1, <2>1, <2>2 DEF IInv, Rows
<1>2. CASE ~(IsMaster(main) /\ single # NoRow)
  <2>1. DOMAIN Series = 1..1 /\ Series[1] = main
    BY <1>2 DEF Series
  <2> QED BY <2>1 DEF IInv, Rows
<1> QED BY <1>1, <1>2

\* Each row of the series is exported with the extras read from it.
BodyOf(row, keys) ==
    buildVEventBody(row, keys, IF IsMaster(main) THEN SeriesExtras(row, keys)
                               ELSE effectiveExtras(Decrypt(row, keys)))

LEMMA ExportedBodies ==
    ASSUME IInv, main # NoRow, NEW keys
    PROVE  GetEvent(main, Rows, keys).bodies = [i \in DOMAIN Series |-> BodyOf(Series[i], keys)]
<1>1. GetEvent(main, Rows, keys).bodies =
        IF HasMaster(Rows) THEN BuildSeriesICS(Rows, keys) ELSE BuildICS(main, keys)
  BY DEF GetEvent
<1>2. CASE IsMaster(main)
  <2>1. orderSeriesRows(Rows) = Series
    BY <1>2, OrderOfSeries
  <2>2. BuildSeriesICS(Rows, keys) =
          [i \in DOMAIN Series |-> buildVEventBody(Series[i], keys, SeriesExtras(Series[i], keys))]
    BY <2>1, Zenon DEF BuildSeriesICS
  <2>3. \A row : BodyOf(row, keys) = buildVEventBody(row, keys, SeriesExtras(row, keys))
    BY <1>2 DEF BodyOf
  <2> QED BY <1>1, <1>2, <2>2, <2>3, SeriesRows
<1>3. CASE ~IsMaster(main)
  <2>1. BuildICS(main, keys) = <<BodyOf(main, keys)>>
    BY <1>3 DEF BuildICS, BodyOf
  <2>2. Series = <<main>>
    BY <1>3 DEF Series
  <2>3. <<BodyOf(main, keys)>> = [i \in DOMAIN Series |-> BodyOf(Series[i], keys)]
    BY <2>2
  <2> QED BY <1>1, <1>3, <2>1, <2>3, SeriesRows
<1> QED BY <1>2, <1>3

LEMMA ExportedDegraded ==
    ASSUME IInv, main # NoRow, NEW keys
    PROVE  /\ GetEvent(main, Rows, keys).degraded =>
                \E row \in Rows : DecryptFailed(row, keys)
           /\ ~GetEvent(main, Rows, keys).degraded =>
                \A i \in DOMAIN Series : ~DecryptFailed(Series[i], keys)
<1>1. GetEvent(main, Rows, keys).degraded <=>
        \E r \in {main} \cup {q \in Rows : HasMaster(Rows)} : DecryptFailed(r, keys)
  BY DEF GetEvent
<1>2. main \in Rows
  BY DEF Rows
<1>3. ASSUME NEW i \in DOMAIN Series
      PROVE  Series[i] \in {main} \cup {q \in Rows : HasMaster(Rows)}
  <2>1. CASE IsMaster(main)
    BY <2>1, SeriesPlaces, SeriesRows
  <2>2. CASE ~IsMaster(main)
    <3>1. Series = <<main>>
      BY <2>2 DEF Series
    <3> QED BY <3>1
  <2> QED BY <2>1, <2>2
<1> QED BY <1>1, <1>2, <1>3

LEMMA WholeFromInvariant == IInv => ExportIsWhole
<1> SUFFICES ASSUME IInv, main # NoRow, NEW keys \in SUBSET Key
             PROVE  LET got == GetEvent(main, Rows, keys)
                    IN  /\ \A i \in DOMAIN got.bodies : \A n \in strippedProps :
                             got.bodies[i].props[n] = {}
                        /\ got.degraded => \E row \in Rows : row.key \notin keys
                        /\ ~got.degraded =>
                             /\ DOMAIN got.bodies = DOMAIN Series
                             /\ \A i \in DOMAIN Series : ExportedWhole(got.bodies[i], Series[i])
  BY Zenon DEF ExportIsWhole, Series
<1> DEFINE got == GetEvent(main, Rows, keys)
<1>1. got.bodies = [i \in DOMAIN Series |-> BodyOf(Series[i], keys)]
  BY ExportedBodies
<1>2. \A row : \A n \in strippedProps : BodyOf(row, keys).props[n] = {}
  BY Stripped DEF BodyOf
<1>3. got.degraded => \E row \in Rows : row.key \notin keys
  BY ExportedDegraded, MissingKey
<1>4. ASSUME ~got.degraded, NEW i \in DOMAIN Series
      PROVE  ExportedWhole(BodyOf(Series[i], keys), Series[i])
  <2>1. PICK row : row = Series[i]
    OBVIOUS
  <2>2. IsRow(row) /\ ~DecryptFailed(row, keys)
    BY <1>4, <2>1, SeriesPlaces, ExportedDegraded
  <2>3. BodyOf(row, keys) = buildVEventBody(row, keys, effectiveExtras(Decrypt(row, keys)))
    BY <2>2 DEF BodyOf, SeriesExtras
  <2>4. ExportedWhole(buildVEventBody(row, keys, effectiveExtras(Decrypt(row, keys))), row)
    BY <2>2, WholeWithKeys
  <2> QED BY <2>1, <2>3, <2>4
<1> HIDE DEF got
<1>5. DOMAIN got.bodies = DOMAIN Series /\ \A i \in DOMAIN Series : got.bodies[i] = BodyOf(Series[i], keys)
  BY <1>1
<1>6. \A i \in DOMAIN got.bodies : \A n \in strippedProps : got.bodies[i].props[n] = {}
  BY <1>2, <1>5
<1>7. ~got.degraded => \A i \in DOMAIN Series : ExportedWhole(got.bodies[i], Series[i])
  BY <1>4, <1>5
<1> QED BY <1>3, <1>5, <1>6, <1>7 DEF got

\* An export that is not marked degraded has the rows of the series whole, for
\* any keys the client may have (ics.go, ops.go buildEventICS).
THEOREM WholeExports == Spec => []ExportIsWhole
BY Invariant, WholeFromInvariant, PTL

-----------------------------------------------------------------------------
(* The operators of EventRecord on times and rules are those of EventCards. *)

LEMMA RecordOr == \A S, d : Record!Or(S, d) = Or(S, d) /\ Record!The(S) = The(S)
BY DEF Record!Or, Record!The, Or, The

LEMMA RecordWhen == \A w, zone : Record!parseWhen(w, zone) = parseWhen(w, zone)
BY DEF Record!parseWhen, Record!Timed, parseWhen, Timed

LEMMA RecordDay == \A t : Record!Day(t) = Day(t)
BY DEF Record!Day, Day

LEMMA RecordGenerates ==
    \A rule, start, t : Record!Generates(rule, start, t) <=> Generates(rule, start, t)
BY DEF Record!Generates, Generates

LEMMA RecordLimits == \A rule : Record!Checked(rule) <=> Checked(rule)
BY Zenon DEF Record!Checked, Checked, Record!NoRule, NoRule, Record!frequencies,
             frequencies, Record!UntilDayIn, UntilDayIn, Record!Day, Day, Record!Timed, Timed

LEMMA RecordRules ==
    \A r, zone, allday : Record!buildRRule(r, zone, allday) = buildRRule(r, zone, allday)
BY Zenon DEF Record!buildRRule, buildRRule, Record!Structured, Structured, Record!NoRule, NoRule,
             Record!SanitizeRRule, SanitizeRRule, Record!BuildRRule, BuildRRule, Record!ToSet, ToSet,
             Record!frequencies, frequencies, Record!untilTooLate, untilTooLate,
             Record!UntilDayIn, UntilDayIn, Record!Day, Day, Record!Timed, Timed,
             Record!UntilDate, UntilDate, Record!UntilInstant, UntilInstant,
             Record!EndOfDay, EndOfDay

LEMMA RecordEmpty == \A r : Record!Empty(r) <=> Empty(r)
BY Zenon DEF Record!Empty, Empty, Record!Structured, Structured

-----------------------------------------------------------------------------
(* What a row reads as with its key.                                       *)

TextsAt(row, at) ==
    [n \in TextName |->
        [Or(Latest(row, at, n), Text("")) EXCEPT
           !.block = @ /\ ~(n = "DESCRIPTION" /\ assembleConference(row, at) # {})]]

ReadsAs(row) ==
    [start |-> parseDateTime(The(Column(row, "DTSTART"))),
     end |-> parseDateTime(The(Column(row, "DTEND"))),
     zone |-> StartTimezone(row),
     allday |-> IsAllDay(row),
     rule |-> RRule(row),
     exdates |-> {parseDateTime(v) : v \in Column(row, "EXDATE")},
     original |-> RecurrenceID(row),
     text |-> TextsAt(row, Places(row)),
     organizer |-> Latest(row, Places(row), "ORGANIZER"),
     answers |-> enrichAttendeeStatus(AllOf(row, Places(row), "ATTENDEE"), row.answers),
     conference |-> assembleConference(row, Places(row)),
     sequence |-> Or(Column(row, "SEQUENCE"), 0),
     reminders |-> row.notifications,
     color |-> row.color]

LEMMA ReadWithKey ==
    ASSUME NEW row, IsRow(row), NEW keys, Readable(row, keys) = Places(row)
    PROVE  Decrypt(row, keys) = ReadsAs(row)
<1> DEFINE at == Places(row)
<1>1. Decrypt(row, keys) =
        [start |-> parseDateTime(The(Latest(row, at, "DTSTART"))),
         end |-> parseDateTime(The(Latest(row, at, "DTEND"))),
         zone |-> StartTimezone(row),
         allday |-> IsAllDay(row),
         rule |-> RRule(row),
         exdates |-> {parseDateTime(v) : v \in Column(row, "EXDATE")},
         original |-> RecurrenceID(row),
         text |-> TextsAt(row, at),
         organizer |-> Latest(row, at, "ORGANIZER"),
         answers |-> enrichAttendeeStatus(AllOf(row, at, "ATTENDEE"), row.answers),
         conference |-> assembleConference(row, at),
         sequence |-> Or(Latest(row, Sequenced(row), "SEQUENCE"), 0),
         reminders |-> row.notifications,
         color |-> row.color]
  BY Zenon DEF Decrypt, TextsAt
<1>2. PICK p : SignedAt(row, p)
  BY SignedPlace
<1>3. {"DTSTART", "DTEND", "SEQUENCE"} \subseteq Structure
  BY DEF Structure
<1>4. p \in at /\ p \in Sequenced(row) /\ Sequenced(row) \subseteq Places(row)
  BY <1>2 DEF SignedAt, SharedSigned, Sequenced
<1>5. Latest(row, at, "DTSTART") = Column(row, "DTSTART")
  BY <1>2, <1>3, <1>4, ScheduleAt
<1>6. Latest(row, at, "DTEND") = Column(row, "DTEND")
  BY <1>2, <1>3, <1>4, ScheduleAt
<1>7. Latest(row, Sequenced(row), "SEQUENCE") = Column(row, "SEQUENCE")
  BY <1>2, <1>3, <1>4, ScheduleAt
<1> HIDE DEF at
<1>8. at = Places(row)
  BY DEF at
<1> QED BY <1>1, <1>5, <1>6, <1>7, <1>8, Zenon DEF ReadsAs

LEMMA ContentReads ==
    ASSUME NEW row, IsRow(row)
    PROVE  Content(row) = ReadsAs(row) /\ Decrypt(row, Key) = ReadsAs(row)
<1>1. Readable(row, Key) = Places(row)
  BY DEF Readable, IsRow
<1>2. Content(row) = Decrypt(row, Key)
  BY RowIsSome DEF Content
<1> QED BY <1>1, <1>2, ReadWithKey

LEMMA ReadFields ==
    ASSUME NEW row, NEW e, e = ReadsAs(row)
    PROVE  /\ e.start = parseDateTime(The(Column(row, "DTSTART")))
           /\ e.end = parseDateTime(The(Column(row, "DTEND")))
           /\ e.zone = StartTimezone(row)
           /\ e.allday = IsAllDay(row)
           /\ e.rule = RRule(row)
           /\ e.exdates = {parseDateTime(v) : v \in Column(row, "EXDATE")}
           /\ e.original = RecurrenceID(row)
           /\ e.text = TextsAt(row, Places(row))
           /\ e.organizer = Latest(row, Places(row), "ORGANIZER")
           /\ e.answers = enrichAttendeeStatus(AllOf(row, Places(row), "ATTENDEE"), row.answers)
           /\ e.conference = assembleConference(row, Places(row))
           /\ e.sequence = Or(Column(row, "SEQUENCE"), 0)
           /\ e.reminders = row.notifications
           /\ e.color = row.color
BY DEF ReadsAs

\* A content is known by its fields.
IsContent(e) ==
    e = [start |-> e.start, end |-> e.end, zone |-> e.zone, allday |-> e.allday, rule |-> e.rule,
         exdates |-> e.exdates, original |-> e.original, text |-> e.text,
         organizer |-> e.organizer, answers |-> e.answers, conference |-> e.conference,
         sequence |-> e.sequence, reminders |-> e.reminders, color |-> e.color]

LEMMA SameContent ==
    ASSUME NEW e, NEW f, IsContent(e), IsContent(f),
           e.start = f.start, e.end = f.end, e.zone = f.zone, e.allday = f.allday,
           e.rule = f.rule, e.exdates = f.exdates, e.original = f.original, e.text = f.text,
           e.organizer = f.organizer, e.answers = f.answers, e.conference = f.conference,
           e.sequence = f.sequence, e.reminders = f.reminders, e.color = f.color
    PROVE  e = f
BY Zenon DEF IsContent

LEMMA ReadIsContent == ASSUME NEW row, NEW e, e = ReadsAs(row) PROVE IsContent(e)
<1>1. e = [start |-> e.start, end |-> e.end, zone |-> e.zone, allday |-> e.allday, rule |-> e.rule,
         exdates |-> e.exdates, original |-> e.original, text |-> e.text,
         organizer |-> e.organizer, answers |-> e.answers, conference |-> e.conference,
         sequence |-> e.sequence, reminders |-> e.reminders, color |-> e.color]
  BY DEF ReadsAs
<1> QED BY <1>1 DEF IsContent

\* The content of a row is not NoRow.
LEMMA ContentIsSome ==
    ASSUME NEW row, IsRow(row)
    PROVE  Content(row) # NoRow
<1>1. "start" \in DOMAIN ReadsAs(row)
  BY DEF ReadsAs
<1>2. DOMAIN NoRow = {"cards"}
  BY DEF NoRow
<1> QED BY <1>1, <1>2, ContentReads

-----------------------------------------------------------------------------
(* Times as they are read back.                                            *)

\* t is the beginning of a day, in UTC.
IsMidnight(t) == t % DayLength = 0

ReadBack(t, allday) == IF allday THEN Day(t) * DayLength ELSE t.at

\* A date of an event as it should be written.
IsDateOf(v, allday) ==
    /\ v \in Date /\ (v.allday <=> allday)
    /\ allday => v.zone = UTC /\ IsMidnight(v.wall)

LEMMA DayLengthType == DayLength \in Nat /\ DayLength > 0 /\ UTC \in Zone /\ Offset[UTC] = 0
                       /\ \A zone \in Zone : Offset[zone] \in Int
BY RulesAssumption DEF RulesAssumption

LEMMA Multiples ==
    ASSUME NEW k \in Int
    PROVE  IsMidnight(k * DayLength) /\ (k * DayLength) \div DayLength = k
BY DayLengthType DEF IsMidnight

LEMMA MidnightIsMultiple ==
    ASSUME NEW t \in Int, IsMidnight(t)
    PROVE  t \div DayLength \in Int /\ t = (t \div DayLength) * DayLength
BY DayLengthType DEF IsMidnight

LEMMA DayShifts ==
    ASSUME NEW s \in Int, NEW k \in Int
    PROVE  (s + k * DayLength) \div DayLength = s \div DayLength + k
<1>1. PICK d : d = DayLength
  OBVIOUS
<1>2. d \in Nat /\ d > 0
  BY <1>1, DayLengthType
<1>3. PICK q \in Int, r \in 0..(d - 1) : s = q * d + r
  <2>1. s \div d \in Int /\ s % d \in 0..(d - 1) /\ s = (s \div d) * d + (s % d)
    BY <1>2
  <2> QED BY <2>1
<1>4. (q * d + r) \div d = q
  BY <1>2
<1>5. ((q + k) * d + r) \div d = q + k
  BY <1>2
<1>6. s + k * d = (q + k) * d + r
  BY <1>2, <1>3
<1> QED BY <1>1, <1>3, <1>4, <1>5, <1>6

LEMMA MidnightsAdd ==
    ASSUME NEW s \in Int, NEW t \in Int, IsMidnight(s), IsMidnight(t)
    PROVE  IsMidnight(s + t) /\ IsMidnight(s - t)
<1>1. PICK j \in Int : s = j * DayLength
  BY MidnightIsMultiple
<1>2. PICK k \in Int : t = k * DayLength
  BY MidnightIsMultiple
<1>3. s + t = (j + k) * DayLength /\ s - t = (j - k) * DayLength /\ j + k \in Int /\ j - k \in Int
  BY <1>1, <1>2, DayLengthType
<1> QED BY <1>3, Multiples

LEMMA DayType == ASSUME NEW t \in Instant PROVE Day(t) \in Int
BY DayLengthType DEF Day, Instant

LEMMA DateReadsBack ==
    ASSUME NEW t \in Instant, NEW zone \in Zone, NEW allday \in BOOLEAN
    PROVE  /\ parseDateTime(DateValue(t, zone, allday)) = ReadBack(t, allday)
           /\ ReadBack(t, allday) \in Int
           /\ IsDateOf(DateValue(t, zone, allday), allday)
           /\ DateValue(t, zone, allday).zone = IF allday THEN UTC ELSE zone
<1>1. DateValue(t, zone, allday) \in Date
  BY DateType
<1>2. Day(t) \in Int /\ t.at \in Int /\ Offset[zone] \in Int /\ Day(t) * DayLength \in Int
  BY DayType, DayLengthType DEF Instant
<1>3. CASE allday
  <2>1. DateValue(t, zone, allday) = [allday |-> TRUE, zone |-> UTC, wall |-> Day(t) * DayLength]
    BY <1>3 DEF DateValue
  <2>2. IsMidnight(Day(t) * DayLength)
    BY <1>2, Multiples
  <2> DEFINE v == DateValue(t, zone, allday)
  <2>3. v.allday /\ v.zone = UTC /\ v.wall = Day(t) * DayLength /\ v \in Date
    BY <1>1, <2>1
  <2> HIDE DEF v
  <2>4. parseDateTime(v) = Day(t) * DayLength
    BY <1>2, <2>3, DayLengthType DEF parseDateTime
  <2>5. IsDateOf(v, allday)
    BY <1>3, <2>2, <2>3 DEF IsDateOf
  <2> QED BY <1>2, <1>3, <2>3, <2>4, <2>5 DEF ReadBack, v
<1>4. CASE ~allday
  <2>1. DateValue(t, zone, allday) = [allday |-> FALSE, zone |-> zone, wall |-> t.at + Offset[zone]]
    BY <1>4 DEF DateValue
  <2> QED BY <1>1, <1>2, <1>4, <2>1 DEF parseDateTime, ReadBack, IsDateOf
<1> QED BY <1>3, <1>4

\* A date is read as the beginning of its day.
LEMMA DateIsMidnight ==
    ASSUME NEW v, NEW allday, IsDateOf(v, allday)
    PROVE  /\ parseDateTime(v) \in Int
           /\ allday => IsMidnight(parseDateTime(v))
BY DayLengthType DEF IsDateOf, Date, parseDateTime

\* The beginning of a day, written as a date, is read as that.
LEMMA MidnightReadsBack ==
    ASSUME NEW t \in Int, NEW allday \in BOOLEAN, allday => IsMidnight(t)
    PROVE  Timed(t, UTC) \in Instant /\ ReadBack(Timed(t, UTC), allday) = t
<1>1. Timed(t, UTC) \in Instant /\ Timed(t, UTC).at = t /\ Day(Timed(t, UTC)) = t \div DayLength
  BY DayLengthType DEF Timed, Instant, Day
<1> QED BY <1>1, MidnightIsMultiple DEF ReadBack

\* A number of days later.
LEMMA LaterReadsBack ==
    ASSUME NEW t \in Instant, NEW d \in Int, NEW allday \in BOOLEAN, allday => IsMidnight(d)
    PROVE  /\ Timed(t.at + d, t.zone) \in Instant
           /\ ReadBack(Timed(t.at + d, t.zone), allday) = ReadBack(t, allday) + d
<1> DEFINE u == Timed(t.at + d, t.zone)
<1>1. u \in Instant /\ u.at = t.at + d /\ u.zone = t.zone /\ t.at \in Int /\ Offset[t.zone] \in Int
  BY DayLengthType DEF Timed, Instant
<1> HIDE DEF u
<1>2. CASE ~allday
  BY <1>1, <1>2 DEF ReadBack, u
<1>3. CASE allday
  <2>1. PICK k \in Int : d = k * DayLength
    BY <1>3, MidnightIsMultiple
  <2>2. PICK s \in Int : s = t.at + Offset[t.zone]
    BY <1>1
  <2>3. u.at + Offset[u.zone] = s + k * DayLength
    BY <1>1, <2>1, <2>2, DayLengthType
  <2>4. Day(u) = Day(t) + k
    BY <2>2, <2>3, DayShifts DEF Day
  <2>5. Day(u) * DayLength = Day(t) * DayLength + d
    BY <2>1, <2>4, DayType, DayLengthType
  <2> QED BY <1>1, <1>3, <2>5 DEF ReadBack, u
<1> QED BY <1>1, <1>2, <1>3 DEF u

\* An occurrence of an all-day series begins a day too.
LEMMA OccurrenceIsMidnight ==
    ASSUME NEW rule, HasInterval(rule), NEW start \in Int, NEW t \in Int,
           IsMidnight(start), Generates(rule, start, t)
    PROVE  IsMidnight(t)
<1> DEFINE interval == IF "INTERVAL" \in DOMAIN rule THEN rule["INTERVAL"] ELSE 1
           days == CASE rule["FREQ"] = "DAILY" -> 1 [] rule["FREQ"] = "WEEKLY" -> 7
                     [] rule["FREQ"] = "MONTHLY" -> 30 [] OTHER -> 365
           step == days * interval * DayLength
<1>1. (t - start) % step = 0
  BY Zenon DEF Generates
<1>2. interval \in Nat \ {0}
  BY DEF HasInterval
<1>3. days = 1 \/ days = 7 \/ days = 30 \/ days = 365
  BY Zenon
<1> HIDE DEF interval, days
<1>4. PICK m : m = days * interval
  OBVIOUS
<1>5. m \in Nat /\ m > 0
  BY <1>2, <1>3, <1>4
<1>6. PICK d : d = DayLength
  OBVIOUS
<1>7. d \in Nat /\ d > 0
  BY <1>6, DayLengthType
<1>8. PICK n \in Nat : n = m * d /\ n > 0
  BY <1>5, <1>7
<1>9. (t - start) % n = 0
  BY <1>1, <1>4, <1>6, <1>8
<1>10. PICK k \in Int : t - start = k * n
  <2>1. (t - start) \div n \in Int /\ t - start = ((t - start) \div n) * n
    BY <1>8, <1>9
  <2> QED BY <2>1
<1>11. t - start = (k * m) * d /\ k * m \in Int
  BY <1>5, <1>7, <1>8, <1>10
<1>12. IsMidnight(t - start)
  BY <1>6, <1>11, Multiples
<1>13. t = start + (t - start)
  OBVIOUS
<1> QED BY <1>12, <1>13, MidnightsAdd

-----------------------------------------------------------------------------
(* What a new row reads as.                                                *)

IsFresh(e) ==
    /\ IsNew(e) /\ HasInterval(e.rrule)
    /\ \A n \in TextName : IsText(e.text[n])

LEMMA TextReadsBack ==
    ASSUME NEW t, IsText(t)
    PROVE  Or(OptionalText(t), Text("")) = t
<1>1. CASE t = Text("")
  <2>1. OptionalText(t) = {}
    BY <1>1 DEF OptionalText
  <2> QED BY <1>1, <2>1 DEF Or
<1>2. CASE t # Text("")
  <2>1. OptionalText(t) = {t}
    BY <1>2 DEF OptionalText
  <2> QED BY <2>1, TheOnly
<1> QED BY <1>1, <1>2

\* Where a text is shown without its block is where the block is.
LEMMA TextAsIs ==
    ASSUME NEW t, IsText(t), NEW hidden, ~hidden \/ ~t.block
    PROVE  [t EXCEPT !.block = @ /\ ~hidden] = t
<1>1. PICK b \in BOOLEAN : t = [own |-> t.own, block |-> b]
  BY DEF IsText
<1> QED BY <1>1

LEMMA NewLinesOf ==
    ASSUME NEW e, IsNew(e), NEW key \in Key, NEW row, row = Create(e, key)
    PROVE  /\ \A n \in Name : Column(row, n) = buildSharedSigned(e)[n]
           /\ \A n \in TextName : Latest(row, Places(row), n) = OptionalText(e.text[n])
           /\ \A n \in {"ORGANIZER", "X-PM-CONFERENCE-ID", "X-PM-CONFERENCE-URL", "ATTENDEE"} :
                Latest(row, Places(row), n) = {} /\ AllOf(row, Places(row), n) = {}
           /\ \A i \in Places(row) : \A n \in TextName :
                Values(row, i, n) \subseteq OptionalText(e.text[n])
<1>1. /\ Places(row) = 1..4 /\ SharedSigned(row) = {1}
      /\ \A n \in Name : /\ Values(row, 1, n) = buildSharedSigned(e)[n]
                         /\ Values(row, 2, n) = buildSharedEncrypted(e)[n]
                         /\ Values(row, 3, n) = buildCalendarSigned[n]
                         /\ Values(row, 4, n) = buildCalendarEncrypted[n]
  BY NewLines
<1>2. /\ \A n \in Name : buildSharedSigned(e)[n] # {} => n \in Structure
      /\ \A n \in Name : buildSharedEncrypted(e)[n] # {} => n \in TextName
      /\ \A n \in Name : buildCalendarSigned[n] # {} => n \in {"STATUS", "TRANSP"}
      /\ \A n \in Name : buildCalendarEncrypted[n] # {} => n = "COMMENT"
  BY NewSignedLines, NewPrivateCard, NewCalendarCards
<1>3. 1 \in Places(row) /\ 2 \in Places(row) /\ Places(row) = {1, 2, 3, 4}
  BY <1>1
<1>4. \A n \in Name : Column(row, n) = buildSharedSigned(e)[n]
  BY <1>1, <1>3, ColumnAt DEF SignedAt
<1>5. \A n \in TextName : n \in Name /\ n \notin Structure /\ n \notin {"STATUS", "TRANSP", "COMMENT"}
  BY DEF TextName, Name, Structure
<1>6. \A n \in TextName : buildSharedEncrypted(e)[n] = OptionalText(e.text[n])
  BY <1>5 DEF buildSharedEncrypted
<1>7. ASSUME NEW n \in TextName
      PROVE  /\ Latest(row, Places(row), n) = OptionalText(e.text[n])
             /\ \A i \in Places(row) : Values(row, i, n) \subseteq OptionalText(e.text[n])
  <2>1. Values(row, 1, n) = {} /\ Values(row, 3, n) = {} /\ Values(row, 4, n) = {}
    BY <1>1, <1>2, <1>5
  <2>2. \A i \in Places(row) : Values(row, i, n) # {} => i = 2
    BY <1>3, <2>1
  <2>3. Latest(row, Places(row), n) = Values(row, 2, n)
    BY <1>3, <2>2, OneGiver
  <2>4. Values(row, 2, n) = OptionalText(e.text[n])
    BY <1>1, <1>5, <1>6
  <2> QED BY <1>3, <2>1, <2>3, <2>4
<1>8. ASSUME NEW n \in {"ORGANIZER", "X-PM-CONFERENCE-ID", "X-PM-CONFERENCE-URL", "ATTENDEE"}
      PROVE  Latest(row, Places(row), n) = {} /\ AllOf(row, Places(row), n) = {}
  <2>1. n \in Name /\ n \notin Structure /\ n \notin TextName /\ n \notin {"STATUS", "TRANSP", "COMMENT"}
    BY DEF TextName, Name, Structure
  <2>2. \A i \in Places(row) : Values(row, i, n) = {}
    BY <1>1, <1>2, <1>3, <2>1
  <2>3. Giving(row, Places(row), n) = {}
    BY <2>2 DEF Giving
  <2> QED BY <2>3, NoGiver
<1> QED BY <1>4, <1>7, <1>8

LEMMA NewContent ==
    ASSUME NEW e, IsFresh(e), NEW key \in Key, NEW row, row = Create(e, key), NEW c, c = ReadsAs(row)
    PROVE  /\ c.start = ReadBack(e.start, e.allday) /\ c.end = ReadBack(e.end, e.allday)
           /\ c.zone = (IF e.allday THEN UTC ELSE e.zone) /\ c.allday = e.allday
           /\ c.rule = e.rrule /\ c.exdates = {}
           /\ c.original = {ReadBack(t, e.allday) : t \in e.original}
           /\ c.text = [n \in TextName |-> e.text[n]]
           /\ c.organizer = {} /\ c.answers = <<>> /\ c.conference = {}
           /\ c.sequence = e.sequence /\ c.reminders = e.reminders /\ c.color = e.color
           /\ IsCoherent(row) /\ (IsAllDay(row) <=> e.allday)
<1>1. IsNew(e)
  BY DEF IsFresh
<1>2. /\ \A n \in Name : Column(row, n) = buildSharedSigned(e)[n]
      /\ \A n \in TextName : Latest(row, Places(row), n) = OptionalText(e.text[n])
      /\ \A n \in {"ORGANIZER", "X-PM-CONFERENCE-ID", "X-PM-CONFERENCE-URL", "ATTENDEE"} :
           Latest(row, Places(row), n) = {} /\ AllOf(row, Places(row), n) = {}
      /\ \A i \in Places(row) : \A n \in TextName :
           Values(row, i, n) \subseteq OptionalText(e.text[n])
  BY <1>1, NewLinesOf
<1>3. {"DTSTART", "DTEND", "RECURRENCE-ID", "EXDATE", "SEQUENCE", "RRULE"} \subseteq Name
      /\ "EXDATE" \notin Structure
  BY DEF Name, Structure, TextName
<1>4. /\ Column(row, "DTSTART") = {DateValue(e.start, e.zone, e.allday)}
      /\ Column(row, "DTEND") = {DateValue(e.end, e.zone, e.allday)}
      /\ Column(row, "RECURRENCE-ID") = {DateValue(t, e.zone, e.allday) : t \in e.original}
      /\ Column(row, "SEQUENCE") = {e.sequence} /\ Column(row, "EXDATE") = {}
      /\ Column(row, "RRULE") = {e.rrule} \ {NoRule}
  BY <1>1, <1>2, <1>3, NewSignedLines
<1>5. /\ e.start \in Instant /\ e.end \in Instant /\ e.zone \in Zone /\ e.allday \in BOOLEAN
      /\ e.original \subseteq Instant
  BY <1>1 DEF IsNew
<1>6. The(Column(row, "DTSTART")) = DateValue(e.start, e.zone, e.allday)
      /\ The(Column(row, "DTEND")) = DateValue(e.end, e.zone, e.allday)
  BY <1>4, TheOnly
<1>7. /\ parseDateTime(DateValue(e.start, e.zone, e.allday)) = ReadBack(e.start, e.allday)
      /\ parseDateTime(DateValue(e.end, e.zone, e.allday)) = ReadBack(e.end, e.allday)
      /\ DateValue(e.start, e.zone, e.allday).zone = IF e.allday THEN UTC ELSE e.zone
      /\ \A t \in Instant : IsDateOf(DateValue(t, e.zone, e.allday), e.allday)
      /\ \A t \in Instant : parseDateTime(DateValue(t, e.zone, e.allday)) = ReadBack(t, e.allday)
  BY <1>5, DateReadsBack
<1>8. (IsAllDay(row) <=> e.allday) /\ IsAllDay(row) \in BOOLEAN
  BY <1>5, <1>6, <1>7 DEF IsAllDay, IsDateOf, Date
<1>9. RRule(row) = e.rrule /\ RecurrenceID(row) = {parseDateTime(DateValue(t, e.zone, e.allday)) : t \in e.original}
  BY <1>1, NewRow
<1>10. RecurrenceID(row) = {ReadBack(t, e.allday) : t \in e.original}
  BY <1>5, <1>7, <1>9
<1>11. assembleConference(row, Places(row)) = {}
  BY <1>2 DEF assembleConference
<1>12. TextsAt(row, Places(row)) = [n \in TextName |-> e.text[n]]
  <2>1. ASSUME NEW n \in TextName
        PROVE  [Or(Latest(row, Places(row), n), Text("")) EXCEPT
                  !.block = @ /\ ~(n = "DESCRIPTION" /\ assembleConference(row, Places(row)) # {})] = e.text[n]
    <3>1. IsText(e.text[n])
      BY DEF IsFresh
    <3>2. Or(Latest(row, Places(row), n), Text("")) = e.text[n]
      BY <1>2, <3>1, TextReadsBack
    <3> DEFINE hidden == n = "DESCRIPTION" /\ assembleConference(row, Places(row)) # {}
    <3>3. ~hidden
      BY <1>11
    <3> HIDE DEF hidden
    <3>4. [e.text[n] EXCEPT !.block = @ /\ ~hidden] = e.text[n]
      BY <3>1, <3>3, TextAsIs
    <3> QED BY <3>2, <3>4, Zenon DEF hidden
  <2> QED BY <2>1, Zenon DEF TextsAt
<1>13. enrichAttendeeStatus(AllOf(row, Places(row), "ATTENDEE"), row.answers) = <<>>
  <2>1. enrichAttendeeStatus({}, row.answers) = <<>>
    BY DEF enrichAttendeeStatus
  <2> QED BY <1>2, <2>1
<1>14. row.notifications = e.reminders /\ row.color = e.color /\ DOMAIN row.answers = {}
  BY NewLines
<1>15. Or(Column(row, "SEQUENCE"), 0) = e.sequence
  BY <1>4, TheOnly
<1>16. IsCoherent(row)
  <2>1. ASSUME NEW n \in {"DTSTART", "DTEND", "RECURRENCE-ID"}, NEW v \in Column(row, n)
        PROVE  (v.allday <=> IsAllDay(row)) /\ (v.allday => v.zone = UTC /\ v.wall % DayLength = 0)
    <3>1. \E t \in Instant : v = DateValue(t, e.zone, e.allday)
      BY <1>4, <1>5, <2>1
    <3>2. IsDateOf(v, e.allday)
      BY <1>7, <3>1
    <3> QED BY <1>8, <3>2 DEF IsDateOf, IsMidnight
  <2>2. \A rule \in Column(row, "RRULE") : HasInterval(rule)
    BY <1>4 DEF IsFresh
  <2>3. \A i \in Places(row) : \A n \in TextName : \A t \in Values(row, i, n) : IsText(t)
    <3>1. \A n \in TextName : \A t \in OptionalText(e.text[n]) : t = e.text[n]
      BY DEF OptionalText
    <3> QED BY <1>2, <3>1 DEF IsFresh
  <2>4. AllOf(row, Places(row), "ATTENDEE") = {}
    BY <1>2
  <2> QED BY <1>14, <2>1, <2>2, <2>3, <2>4 DEF IsCoherent
<1>17. c.zone = (IF e.allday THEN UTC ELSE e.zone)
  BY <1>6, <1>7, ReadFields DEF StartTimezone
<1>18. c.start = ReadBack(e.start, e.allday) /\ c.end = ReadBack(e.end, e.allday)
  BY <1>6, <1>7, ReadFields
<1>19. c.allday = e.allday
  <2>1. c.allday = IsAllDay(row)
    BY ReadFields
  <2> QED BY <1>5, <1>8, <2>1
<1>20. c.rule = e.rrule /\ c.original = {ReadBack(t, e.allday) : t \in e.original}
  BY <1>9, <1>10, ReadFields
<1>21. c.exdates = {}
  BY <1>4, ReadFields
<1>22. c.text = [n \in TextName |-> e.text[n]]
  <2>1. c.text = TextsAt(row, Places(row))
    BY ReadFields
  <2> QED BY <1>12, <2>1
<1>23. c.organizer = {} /\ c.conference = {}
  BY <1>2, <1>11, ReadFields
<1>24. c.answers = <<>> /\ c.sequence = e.sequence /\ c.reminders = e.reminders /\ c.color = e.color
  BY <1>13, <1>14, <1>15, ReadFields
<1> QED BY <1>8, <1>16, <1>17, <1>18, <1>19, <1>20, <1>21, <1>22, <1>23, <1>24

-----------------------------------------------------------------------------
(* A new event reads back as it was asked for.                             *)

LEMMA CreateTimesMeant ==
    ASSUME NEW in, IsCreate(in), NEW zone \in Zone, NEW times \in resolveCreateTimes(in, zone),
           NEW shift, shift = IF in.allday THEN 0 ELSE Offset[zone]
    PROVE  /\ ReadBack(times.start, in.allday) = in.start.wall - shift
           /\ in.end # {} /\ in.allday =>
                ReadBack(times.end, in.allday) = The(in.end).wall - shift + DayLength
           /\ in.end # {} /\ ~in.allday => ReadBack(times.end, in.allday) = The(in.end).wall - shift
           /\ in.end = {} => ReadBack(times.end, in.allday) =
                ReadBack(times.start, in.allday) + IF in.allday THEN DayLength ELSE DefaultDuration
<1>1. in.start \in WallTime /\ in.allday \in BOOLEAN /\ (in.end # {} => The(in.end) \in WallTime /\ The(in.end) \in in.end)
  BY ChosenIsOne DEF IsCreate
<1>2. CASE in.allday
  <2> DEFINE last == Or(in.end, in.start)
             end == Timed(last.wall + DayLength, UTC)
             start == parseWhen(in.start, UTC)
  <2>1. times = [start |-> start, end |-> end] /\ \A w \in {in.start} \cup in.end : w.dateonly
    BY <1>2 DEF resolveCreateTimes
  <2>2. last \in WallTime /\ last \in {in.start} \cup in.end
    BY <1>1 DEF Or
  <2>3. \A w \in {in.start, last} : w.wall \in Int /\ IsMidnight(w.wall)
    BY <1>1, <2>1, <2>2 DEF WallTime, IsMidnight
  <2>4. start = Timed(in.start.wall, UTC)
    BY <2>1 DEF parseWhen
  <2> HIDE DEF start, end, last
  <2>5. ReadBack(start, in.allday) = in.start.wall
    BY <1>1, <2>3, <2>4, MidnightReadsBack
  <2>6. PICK wall \in Int : wall = last.wall /\ IsMidnight(wall)
    BY <2>3
  <2>7. PICK day \in Int : day = wall + DayLength /\ IsMidnight(day)
    <3>1. IsMidnight(DayLength) /\ DayLength \in Int
      BY DayLengthType DEF IsMidnight
    <3>2. PICK d \in Int : d = DayLength
      BY <3>1
    <3>3. IsMidnight(wall) /\ IsMidnight(d)
      BY <2>6, <3>1, <3>2
    <3>4. IsMidnight(wall + d)
      BY <3>3, MidnightsAdd
    <3> QED BY <3>2, <3>4
  <2>8. end = Timed(day, UTC)
    BY <2>6, <2>7 DEF end
  <2>9. times.start = start /\ times.end = end
    BY <2>1
  <2>10. ReadBack(times.start, in.allday) = in.start.wall /\ ReadBack(times.end, in.allday) = day
    <3>1. ReadBack(end, in.allday) = day
      BY <1>1, <2>7, <2>8, MidnightReadsBack
    <3> QED BY <2>5, <2>9, <3>1
  <2>11. in.start.wall - shift = in.start.wall /\ shift = 0
    BY <1>2, <2>3
  <2>12. CASE in.end = {}
    <3>1. last = in.start
      BY <2>12 DEF last, Or
    <3>2. day = in.start.wall + DayLength
      BY <2>6, <2>7, <3>1
    <3> QED BY <1>2, <2>10, <2>11, <2>12, <3>2
  <2>13. CASE in.end # {}
    <3>1. last = The(in.end)
      BY <2>13 DEF last, Or
    <3>2. day = The(in.end).wall + DayLength
      BY <2>6, <2>7, <3>1
    <3>3. The(in.end).wall - shift + DayLength = day
      BY <2>6, <2>7, <2>11, <3>1, DayLengthType
    <3> QED BY <1>2, <2>10, <2>11, <2>13, <3>3
  <2> QED BY <2>12, <2>13
<1>3. CASE ~in.allday
  <2> DEFINE start == parseWhen(in.start, zone)
             end == IF in.end = {} THEN Timed(start.at + DefaultDuration, zone)
                    ELSE parseWhen(The(in.end), zone)
  <2>1. times = [start |-> start, end |-> end] /\ \A w \in {in.start} \cup in.end : ~w.dateonly
    BY <1>3 DEF resolveCreateTimes
  <2>2. start = Timed(in.start.wall - Offset[zone], zone)
    BY <2>1 DEF parseWhen
  <2>3. in.end # {} => end = Timed(The(in.end).wall - Offset[zone], zone)
    BY <1>1, <2>1 DEF parseWhen
  <2>4. in.end = {} => end = Timed(start.at + DefaultDuration, zone)
    OBVIOUS
  <2> HIDE DEF start, end
  <2>5. times.start = start /\ times.end = end
    BY <2>1
  <2>6. \A t, z : Timed(t, z).at = t
    BY DEF Timed
  <2>7. \A t : ReadBack(t, in.allday) = t.at
    BY <1>3 DEF ReadBack
  <2>8. times.start.at = in.start.wall - Offset[zone]
    BY <2>2, <2>5, <2>6
  <2>9. in.end # {} => times.end.at = The(in.end).wall - Offset[zone]
    BY <2>3, <2>5, <2>6
  <2>10. in.end = {} => times.end.at = times.start.at + DefaultDuration
    BY <2>4, <2>5, <2>6
  <2> QED BY <1>3, <2>7, <2>8, <2>9, <2>10
<1> QED BY <1>1, <1>2, <1>3

LEMMA CreateFields ==
    ASSUME NEW in, IsCreate(in), NEW e \in CreateOptions(in), NEW zone, zone = Or(in.zone, HomeZone)
    PROVE  /\ IsFresh(e) /\ e.original = {} /\ e.zone = zone /\ e.allday = in.allday
           /\ zone \in Zone /\ e.rrule \in buildRRule(in.recurrence, zone, in.allday)
           /\ \A n \in TextName : e.text[n] = Text(in.text[n])
           /\ e.reminders = in.reminders /\ e.color = in.color \ {"default"}
           /\ \E times \in resolveCreateTimes(in, zone) : e.start = times.start /\ e.end = times.end
<1> DEFINE texts == [n \in TextName |-> Text(in.text[n])]
<1>1. PICK times \in resolveCreateTimes(in, zone), rule \in buildRRule(in.recurrence, zone, in.allday) :
        e = [text |-> texts, start |-> times.start, end |-> times.end, zone |-> zone,
             allday |-> in.allday, rrule |-> rule, original |-> {}, sequence |-> 0,
             reminders |-> in.reminders, color |-> in.color \ {"default"}]
  BY DEF CreateOptions
<1>2. zone \in Zone
  BY HomeZoneInZone DEF IsCreate
<1>3. \A n \in TextName : texts[n] = Text(in.text[n])
  OBVIOUS
<1> HIDE DEF texts
<1>4. /\ e.text = texts /\ e.start = times.start /\ e.end = times.end /\ e.zone = zone
      /\ e.allday = in.allday /\ e.rrule = rule /\ e.original = {}
      /\ e.reminders = in.reminders /\ e.color = in.color \ {"default"}
  BY <1>1
<1>5. IsNew(e)
  BY CreateOptionsType
<1>6. HasInterval(rule)
  BY <1>2, RequestedRules DEF IsCreate
<1>7. \A own : IsText(Text(own))
  BY DEF IsText, Text
<1>8. IsFresh(e)
  BY <1>3, <1>4, <1>5, <1>6, <1>7 DEF IsFresh
<1> QED BY <1>2, <1>3, <1>4, <1>8

AsItWasAsked(in, e) ==
    LET zone == Or(in.zone, HomeZone)
        At(w) == w.wall - IF in.allday THEN 0 ELSE Offset[zone]
    IN  /\ e.allday = in.allday /\ e.start = At(in.start)
        /\ e.end = IF in.end # {} /\ in.allday THEN At(The(in.end)) + DayLength
                   ELSE IF in.end # {} THEN At(The(in.end))
                   ELSE e.start + IF in.allday THEN DayLength ELSE DefaultDuration
        /\ \A n \in TextName : e.text[n].own = in.text[n]
        /\ e.reminders = in.reminders
        /\ EffectiveColor(e) = Or(in.color \ {"default"}, CalendarColor)
        /\ \A day \in in.recurrence.until :
             LET until == e.rule["UNTIL"]
             IN  IF in.allday THEN until = UntilDate(day)
                 ELSE /\ Day(Timed(until.at, zone)) = day
                      /\ Day(Timed(until.at + 1, zone)) = day + 1

LEMMA CreatesAsAsked ==
    ASSUME NEW in \in Creates, NEW keys \in SUBSET Key, CreateEvent(in, keys)
    PROVE  AsItWasAsked(in, Decrypt(main', Key))
<1>1. PICK e \in CreateOptions(in), key \in keys : main' = Create(e, key)
  BY DEF CreateEvent
<1>2. PICK zone : zone = Or(in.zone, HomeZone)
  OBVIOUS
<1>3. PICK shift : shift = IF in.allday THEN 0 ELSE Offset[zone]
  OBVIOUS
<1>4. IsCreate(in) /\ in.allday \in BOOLEAN /\ IsRecurrence(in.recurrence)
  BY RequestsAssumption DEF RequestsAssumption, IsCreate
<1>5. /\ IsFresh(e) /\ e.original = {} /\ e.zone = zone /\ e.allday = in.allday
      /\ zone \in Zone /\ e.rrule \in buildRRule(in.recurrence, zone, in.allday)
      /\ \A n \in TextName : e.text[n] = Text(in.text[n])
      /\ e.reminders = in.reminders /\ e.color = in.color \ {"default"}
      /\ \E times \in resolveCreateTimes(in, zone) : e.start = times.start /\ e.end = times.end
  BY <1>2, <1>4, CreateFields
<1>6. PICK c : c = Decrypt(main', Key)
  OBVIOUS
<1>7. c = ReadsAs(main')
  <2>1. IsRow(main')
    BY <1>1, <1>5, NewRow DEF IsFresh
  <2> QED BY <1>6, <2>1, ContentReads
<1>8. /\ c.start = ReadBack(e.start, e.allday) /\ c.end = ReadBack(e.end, e.allday)
      /\ c.allday = e.allday /\ c.rule = e.rrule /\ c.text = [n \in TextName |-> e.text[n]]
      /\ c.reminders = e.reminders /\ c.color = e.color
  BY <1>1, <1>5, <1>7, NewContent
<1>9. PICK times \in resolveCreateTimes(in, zone) : e.start = times.start /\ e.end = times.end
  BY <1>5
<1>10. /\ ReadBack(times.start, in.allday) = in.start.wall - shift
       /\ in.end # {} /\ in.allday =>
            ReadBack(times.end, in.allday) = The(in.end).wall - shift + DayLength
       /\ in.end # {} /\ ~in.allday => ReadBack(times.end, in.allday) = The(in.end).wall - shift
       /\ in.end = {} => ReadBack(times.end, in.allday) =
            ReadBack(times.start, in.allday) + IF in.allday THEN DayLength ELSE DefaultDuration
  BY <1>3, <1>4, <1>5, CreateTimesMeant
<1>11. c.start = in.start.wall - shift
  BY <1>5, <1>8, <1>9, <1>10
<1>12. c.end = IF in.end # {} /\ in.allday THEN The(in.end).wall - shift + DayLength
               ELSE IF in.end # {} THEN The(in.end).wall - shift
               ELSE c.start + IF in.allday THEN DayLength ELSE DefaultDuration
  BY <1>5, <1>8, <1>9, <1>10
<1>13. \A n \in TextName : c.text[n].own = in.text[n]
  <2>1. \A n \in TextName : c.text[n] = e.text[n]
    BY <1>8
  <2>2. \A own : Text(own).own = own
    BY DEF Text
  <2> QED BY <1>5, <2>1, <2>2
<1>14. EffectiveColor(c) = Or(in.color \ {"default"}, CalendarColor)
  BY <1>5, <1>8 DEF EffectiveColor
<1>15. ASSUME NEW day \in in.recurrence.until
       PROVE  IF in.allday THEN c.rule["UNTIL"] = UntilDate(day)
              ELSE /\ Day(Timed(c.rule["UNTIL"].at, zone)) = day
                   /\ Day(Timed(c.rule["UNTIL"].at + 1, zone)) = day + 1
  <2>1. c.rule["UNTIL"] = IF in.allday THEN UntilDate(day) ELSE UntilInstant(EndOfDay(day, zone))
    BY <1>4, <1>5, <1>8, RequestedUntil
  <2>2. day \in Int
    BY <1>4 DEF IsRecurrence
  <2>3. UntilInstant(EndOfDay(day, zone)).at = EndOfDay(day, zone)
    BY DEF UntilInstant
  <2> QED BY <1>5, <2>1, <2>2, <2>3, EndOfDayIsInDay
<1>16. c.allday = in.allday /\ c.reminders = in.reminders
  BY <1>5, <1>8
<1>17. AsItWasAsked(in, c)
  BY <1>2, <1>3, <1>11, <1>12, <1>13, <1>14, <1>15, <1>16 DEF AsItWasAsked
<1> QED BY <1>6, <1>17

\* Whatever is asked for, a new event reads back as that (ops.go CreateEvent,
\* parse.go).
THEOREM CreatesWhatIsAsked == Spec => CreatedAsAsked
<1>1. [Next]_vars =>
        (main = NoRow /\ main' # NoRow =>
           \A in \in Creates :
             (\E keys \in SUBSET Key : CreateEvent(in, keys)) => AsItWasAsked(in, Decrypt(main', Key)))
  BY CreatesAsAsked
<1> QED BY <1>1, PTL DEF Spec, CreatedAsAsked, AsItWasAsked

-----------------------------------------------------------------------------
(* What an update writes, line by line.                                    *)

\* Where the shared cards are does not change.
LEMMA SurvivedPlaces ==
    ASSUME NEW row, NEW new, NEW text, Survived(row, new, text)
    PROVE  /\ Places(new) = Places(row)
           /\ SharedSigned(new) = SharedSigned(row) /\ SharedEncrypted(new) = SharedEncrypted(row)
<1>1. /\ Places(new) = Places(row)
      /\ \A i \in Places(row) : /\ new.cards[i].part = row.cards[i].part
                                /\ (new.cards[i].enc <=> row.cards[i].enc)
  BY DEF Survived
<1> QED BY <1>1 DEF SharedSigned, SharedEncrypted

LEMMA PrivatePlace ==
    ASSUME NEW row, IsRow(row)
    PROVE  \E q : q \in Places(row) /\ q \in Nat /\ SharedEncrypted(row) = {q}
BY DEF IsRow

\* The texts are on the encrypted shared card only.
LEMMA TextAt ==
    ASSUME NEW row, IsRow(row), NEW q \in Places(row), SharedEncrypted(row) = {q}, NEW n \in TextName
    PROVE  Latest(row, Places(row), n) = Values(row, q, n)
<1>1. n \in Name /\ n \in Private
  BY DEF Name, Private
<1>2. \A i \in Places(row) : IsCard(row.cards[i])
  BY DEF IsRow
<1>3. \A i \in Places(row) : Values(row, i, n) # {} => i \in SharedEncrypted(row)
  BY <1>1, <1>2 DEF IsCard, Values, SharedEncrypted
<1>4. q \in Nat
  BY DEF IsRow
<1> QED BY <1>3, <1>4, OneGiver

LEMMA UpdatedLines ==
    ASSUME NEW row, IsRow(row), NEW opts, IsOptions(opts), NEW new, new = Updated(row, opts),
           NEW signed, signed = SignedFor(row, opts), NEW enc, enc = encPatch(opts)
    PROVE  /\ \A n \in Name : Column(new, n) =
                (IF n \in signed.delete THEN {}
                 ELSE IF signed.set[n] # {} THEN signed.set[n]
                 ELSE Column(row, n)) \cup {v \in signed.append : n = "EXDATE"}
           /\ \A n \in TextName : Latest(new, Places(new), n) =
                IF n \in enc.delete THEN {}
                ELSE IF enc.set[n] # {} THEN enc.set[n] ELSE Latest(row, Places(row), n)
           /\ \A i \in Places(new) : \A n \in TextName : Values(new, i, n) # {} => i \in SharedEncrypted(new)
<1>1. IsRow(new) /\ Survived(row, new, opts.text)
  BY UpdatedRow
<1>2. PICK p : SignedAt(row, p)
  BY SignedPlace
<1>3. PICK q : q \in Places(row) /\ q \in Nat /\ SharedEncrypted(row) = {q}
  BY PrivatePlace
<1>4. Places(new) = Places(row) /\ SharedEncrypted(new) = {q} /\ SignedAt(new, p)
  BY <1>1, <1>2, <1>3, SurvivedPlaces DEF SignedAt
<1>5. new.cards[p] = PatchCard(row.cards[p], signed)
  BY <1>2, UpdatedCards DEF SignedAt
<1>6. new.cards[q] = PatchCard(row.cards[q], enc)
  BY <1>3, UpdatedCards
<1>7. IsCard(row.cards[p]) /\ IsCard(row.cards[q])
  BY <1>2, <1>3 DEF SignedAt, IsRow
<1>8. ASSUME NEW n \in Name
      PROVE  Column(new, n) =
               (IF n \in signed.delete THEN {}
                ELSE IF signed.set[n] # {} THEN signed.set[n]
                ELSE Column(row, n)) \cup {v \in signed.append : n = "EXDATE"}
  <2>1. Values(new, p, n) = PatchedLines(row.cards[p], signed, n)
    BY <1>5, <1>7, CardPatched DEF Values
  <2>2. Column(new, n) = Values(new, p, n) /\ Column(row, n) = row.cards[p].props[n]
    BY <1>2, <1>4, ColumnAt DEF Values
  <2> QED BY <2>1, <2>2, Zenon DEF PatchedLines
<1>9. ASSUME NEW n \in TextName
      PROVE  Latest(new, Places(new), n) =
                IF n \in enc.delete THEN {}
                ELSE IF enc.set[n] # {} THEN enc.set[n] ELSE Latest(row, Places(row), n)
  <2>1. n \in Name /\ n # "EXDATE"
    BY DEF Name, TextName
  <2>2. Values(new, q, n) = PatchedLines(row.cards[q], enc, n)
    BY <1>6, <1>7, <2>1, CardPatched DEF Values
  <2>3. Latest(new, Places(new), n) = Values(new, q, n)
    BY <1>1, <1>3, <1>4, TextAt
  <2>4. Latest(row, Places(row), n) = row.cards[q].props[n]
    BY <1>3, TextAt DEF Values
  <2>5. {v \in enc.append : n = "EXDATE"} = {}
    BY <2>1
  <2> QED BY <2>2, <2>3, <2>4, <2>5 DEF PatchedLines
<1>10. ASSUME NEW i \in Places(new), NEW n \in TextName, Values(new, i, n) # {}
       PROVE  i \in SharedEncrypted(new)
  <2>1. n \in Name /\ n \in Private /\ IsCard(new.cards[i])
    BY <1>1 DEF Name, Private, IsRow
  <2> QED BY <1>10, <2>1 DEF IsCard, Values, SharedEncrypted
<1> QED BY <1>8, <1>9, <1>10

-----------------------------------------------------------------------------
(* What an updated row reads as.                                           *)

\* The dates of a row are all dates or none is.
LEMMA CoherentDates ==
    ASSUME NEW row, IsRow(row), IsCoherent(row), NEW allday, allday <=> IsAllDay(row),
           NEW n \in {"DTSTART", "DTEND", "RECURRENCE-ID"}, NEW v \in Column(row, n)
    PROVE  IsDateOf(v, allday)
<1>1. v \in Date
  BY DEF IsRow, IsSchedule, Date
<1>2. (v.allday <=> IsAllDay(row)) /\ (v.allday => v.zone = UTC /\ v.wall % DayLength = 0)
  BY DEF IsCoherent
<1> QED BY <1>1, <1>2 DEF IsDateOf, IsMidnight

LEMMA OneDate ==
    ASSUME NEW row, IsRow(row), NEW n \in {"DTSTART", "DTEND"}
    PROVE  \E v \in Column(row, n) : Column(row, n) = {v} /\ The(Column(row, n)) = v
<1>1. PICK p : SignedAt(row, p)
  BY SignedPlace
<1>2. n \in SingleValued
  BY DEF SingleValued, Name, Structure, multiValuedProps
<1>3. AtMostOne(Column(row, n))
  BY <1>1, <1>2, ColumnAt DEF SignedAt, IsRow, IsCard, Values
<1>4. Column(row, n) # {}
  BY DEF IsRow, IsSchedule
<1>5. PICK v \in Column(row, n) : Column(row, n) = {v}
  BY <1>3, <1>4 DEF AtMostOne
<1> QED BY <1>5, TheOnly

\* An update starts from what the row reads as.
LEMMA CurrentReads ==
    ASSUME NEW row, IsRow(row), NEW current, current = Decrypt(Get(row), {row.key}),
           NEW c, c = ReadsAs(row)
    PROVE  /\ current.start = c.start /\ current.end = c.end /\ current.zone = c.zone
           /\ current.allday = c.allday /\ current.sequence = c.sequence
           /\ c.start \in Int /\ c.end \in Int /\ c.zone \in Zone /\ c.allday \in BOOLEAN
           /\ c.sequence \in Int
<1>1. PICK got : got = Get(row)
  OBVIOUS
<1>2. IsRow(got) /\ got.cards = row.cards /\ got.key = row.key
  BY <1>1, GotRow
<1>3. Places(got) = Places(row) /\ \A n : Column(got, n) = Column(row, n)
  BY <1>2, SameCards
<1>4. Readable(got, {row.key}) = Places(got)
  BY <1>2 DEF Readable
<1>5. current = ReadsAs(got)
  BY <1>1, <1>2, <1>4, ReadWithKey
<1>6. StartTimezone(got) = StartTimezone(row) /\ IsAllDay(got) = IsAllDay(row)
  BY <1>3 DEF StartTimezone, IsAllDay
<1>7. current.start = c.start /\ current.end = c.end /\ current.sequence = c.sequence
  BY <1>3, <1>5, ReadFields
<1>8. current.zone = c.zone
  BY <1>5, <1>6, ReadFields
<1>9. current.allday = c.allday
  BY <1>5, <1>6, ReadFields
<1>10. /\ current.start \in Int /\ current.end \in Int /\ current.zone \in Zone
       /\ current.allday \in BOOLEAN /\ current.sequence \in Int
  BY <1>1, <1>2, ReadsSchedule
<1> QED BY <1>7, <1>8, <1>9, <1>10

\* A date that an update moves, or leaves.
LEMMA MovedReads ==
    ASSUME NEW opts, IsOptions(opts), NEW c, c.zone \in Zone, c.allday \in BOOLEAN,
           NEW given \in SUBSET Instant, AtMostOne(given), NEW v, IsDateOf(v, c.allday),
           NEW old, old = parseDateTime(v), NEW moved, moved = MovedTo(opts, c, given, old),
           NEW x, x = (IF moved # {} THEN The(moved) ELSE v)
    PROVE  /\ IsDateOf(x, c.allday)
           /\ \A w \in moved : w = x
           /\ given = {} => parseDateTime(x) = old
           /\ \A t \in given : parseDateTime(x) = ReadBack(t, c.allday)
           /\ v.zone = c.zone => x.zone = IF c.allday THEN UTC ELSE Or(opts.zone, c.zone)
<1> DEFINE zone == Or(opts.zone, c.zone)
           rezoned == given = {} /\ opts.zone # {} /\ opts.zone # {c.zone}
           from == IF rezoned THEN {Timed(old, UTC)} ELSE given
<1>1. zone \in Zone
  BY OrIsOne DEF Or, IsOptions
<1>2. moved = {DateValue(t, zone, c.allday) : t \in from}
  BY Zenon DEF MovedTo
<1>3. old \in Int /\ (c.allday => IsMidnight(old))
  BY DateIsMidnight
<1>4. Timed(old, UTC) \in Instant /\ ReadBack(Timed(old, UTC), c.allday) = old
  BY <1>3, MidnightReadsBack
<1>5. from \subseteq Instant /\ AtMostOne(from)
  BY <1>4 DEF AtMostOne
<1>6. ASSUME NEW t \in from
      PROVE  /\ moved = {DateValue(t, zone, c.allday)} /\ x = DateValue(t, zone, c.allday)
             /\ parseDateTime(x) = ReadBack(t, c.allday) /\ IsDateOf(x, c.allday)
             /\ x.zone = IF c.allday THEN UTC ELSE zone
  <2> HIDE DEF from, zone
  <2>1. from = {t}
    BY <1>5 DEF AtMostOne
  <2>2. moved = {DateValue(t, zone, c.allday)}
    BY <1>2, <2>1
  <2>3. x = DateValue(t, zone, c.allday)
    BY <2>2, TheOnly
  <2>4. t \in Instant
    BY <1>5
  <2> QED BY <1>1, <2>2, <2>3, <2>4, DateReadsBack
<1>7. CASE from = {}
  <2>1. given = {} /\ ~rezoned
    BY <1>7
  <2>2. moved = {} /\ x = v
    BY <1>2, <1>7
  <2>3. c.allday => v.zone = UTC
    BY DEF IsDateOf
  <2>4. Or(opts.zone, c.zone) = c.zone
    BY <2>1, TheOnly DEF Or
  <2> QED BY <2>1, <2>2, <2>3, <2>4
<1>8. ASSUME NEW t \in from
      PROVE  /\ IsDateOf(x, c.allday) /\ \A w \in moved : w = x
             /\ given = {} => parseDateTime(x) = old
             /\ \A s \in given : parseDateTime(x) = ReadBack(s, c.allday)
             /\ x.zone = IF c.allday THEN UTC ELSE Or(opts.zone, c.zone)
  <2>1. given = {} => t = Timed(old, UTC)
    OBVIOUS
  <2>2. \A s \in given : s = t
    BY DEF AtMostOne
  <2> QED BY <1>4, <1>6, <2>1, <2>2
<1>9. from = {} \/ \E t \in from : TRUE
  OBVIOUS
<1> QED BY <1>7, <1>8, <1>9

\* The dates an update appends to those that are skipped.
Appended(current, opts) ==
    {DateValue(t, Or(opts.zone, current.zone), current.allday) : t \in opts.addExdates}

\* What an update does to the signed shared card.
IsSignedPatch(patch, current, opts) ==
    /\ patch.set["DTSTART"] = MovedTo(opts, current, opts.start, current.start)
    /\ patch.set["DTEND"] = MovedTo(opts, current, opts.end, current.end)
    /\ patch.set["SEQUENCE"] = IF Significant(opts) THEN {current.sequence + 1} ELSE {}
    /\ patch.set["RRULE"] = IF opts.clearRRule THEN {} ELSE opts.rrule
    /\ \A n \in Name \ {"DTSTART", "DTEND", "SEQUENCE", "RRULE"} : patch.set[n] = {}
    /\ patch.delete = IF opts.clearRRule THEN {"RRULE", "EXDATE"} ELSE {}
    /\ patch.append = Appended(current, opts)

LEMMA SignedPatchLines ==
    ASSUME NEW current, NEW opts
    PROVE  IsSignedPatch(signedPatch(current, opts), current, opts)
<1> DEFINE starts == MovedTo(opts, current, opts.start, current.start)
           ends == MovedTo(opts, current, opts.end, current.end)
           sequence == IF Significant(opts) THEN {current.sequence + 1} ELSE {}
           rule == IF opts.clearRRule THEN {} ELSE opts.rrule
           appended == Appended(current, opts)
           deleted == IF opts.clearRRule THEN {"RRULE", "EXDATE"} ELSE {}
           lines == [NoLines EXCEPT !["DTSTART"] = starts, !["DTEND"] = ends,
                                    !["SEQUENCE"] = sequence, !["RRULE"] = rule]
           patch == signedPatch(current, opts)
<1>1. patch = [delete |-> deleted, set |-> lines, append |-> appended]
  BY Zenon DEF signedPatch, MovedTo, Appended
<1> HIDE DEF starts, ends, sequence, rule, appended, deleted, patch
<1>2. /\ lines["DTSTART"] = starts /\ lines["DTEND"] = ends
      /\ lines["SEQUENCE"] = sequence /\ lines["RRULE"] = rule
      /\ \A n \in Name \ {"DTSTART", "DTEND", "SEQUENCE", "RRULE"} : lines[n] = {}
  BY DEF NoLines, Name, Structure, TextName
<1>3. patch.set = lines /\ patch.append = appended /\ patch.delete = deleted
  BY <1>1
<1> HIDE DEF lines
<1>4. /\ patch.set["DTSTART"] = starts /\ patch.set["DTEND"] = ends
      /\ patch.set["SEQUENCE"] = sequence /\ patch.set["RRULE"] = rule
      /\ \A n \in Name \ {"DTSTART", "DTEND", "SEQUENCE", "RRULE"} : patch.set[n] = {}
  BY <1>2, <1>3
<1>5. IsSignedPatch(patch, current, opts)
  BY <1>3, <1>4, Zenon DEF IsSignedPatch, starts, ends, sequence, rule, appended, deleted
<1> QED BY <1>5 DEF patch

LEMMA EncPatchLines ==
    ASSUME NEW opts, NEW n \in TextName, NEW patch, patch = encPatch(opts)
    PROVE  /\ n \in patch.delete <=> opts.text[n] = {""}
           /\ patch.set[n] = {Text(own) : own \in opts.text[n] \ {""}}
<1>1. n \in Name
  BY DEF Name
<1>2. patch.delete = {m \in TextName : opts.text[m] = {""}}
  BY Zenon DEF encPatch
<1>3. patch.set[n] = {Text(own) : own \in opts.text[n] \ {""}}
  BY <1>1 DEF encPatch
<1> QED BY <1>2, <1>3

\* A text that an update replaces, deletes or leaves, as it is read.
LEMMA PatchedText ==
    ASSUME NEW opts, IsOptions(opts), NEW n \in TextName, NEW enc, enc = encPatch(opts),
           NEW old, NEW lines, lines = IF n \in enc.delete THEN {}
                                       ELSE IF enc.set[n] # {} THEN enc.set[n] ELSE old
    PROVE  /\ opts.text[n] = {} => lines = old
           /\ opts.text[n] # {} => Or(lines, Text("")) = Text(The(opts.text[n]))
<1>1. /\ n \in enc.delete <=> opts.text[n] = {""}
      /\ enc.set[n] = {Text(own) : own \in opts.text[n] \ {""}}
  BY EncPatchLines
<1>2. CASE opts.text[n] = {}
  <2>1. enc.set[n] = {} /\ opts.text[n] # {""}
    BY <1>1, <1>2
  <2> QED BY <1>1, <1>2, <2>1
<1>3. CASE opts.text[n] # {}
  <2>1. PICK own \in opts.text[n] : opts.text[n] = {own}
    BY <1>3 DEF IsOptions, AtMostOne
  <2>2. The(opts.text[n]) = own
    BY <2>1, TheOnly
  <2>3. CASE own = ""
    <3>1. lines = {}
      BY <1>1, <2>1, <2>3
    <3> QED BY <1>3, <2>2, <2>3, <3>1 DEF Or
  <2>4. CASE own # ""
    <3>1. enc.set[n] = {Text(own)} /\ n \notin enc.delete
      BY <1>1, <2>1, <2>4
    <3>2. lines = {Text(own)}
      BY <3>1
    <3> QED BY <1>3, <2>2, <3>2, TheOnly
  <2> QED BY <2>3, <2>4
<1> QED BY <1>2, <1>3

LEMMA PatchedTextType ==
    ASSUME NEW opts, NEW n \in TextName, NEW enc, enc = encPatch(opts),
           NEW old, \A t \in old : IsText(t),
           NEW lines, lines = IF n \in enc.delete THEN {}
                              ELSE IF enc.set[n] # {} THEN enc.set[n] ELSE old
    PROVE  \A t \in lines : IsText(t)
<1>1. enc.set[n] = {Text(own) : own \in opts.text[n] \ {""}}
  BY EncPatchLines
<1>2. \A own : IsText(Text(own))
  BY DEF IsText, Text
<1> QED BY <1>1, <1>2

\* What an update makes of a content c.
UpdatedAs(c, opts, d) ==
    /\ d.allday = c.allday
    /\ opts.start = {} => d.start = c.start
    /\ \A t \in opts.start : d.start = ReadBack(t, c.allday)
    /\ opts.end = {} => d.end = c.end
    /\ \A t \in opts.end : d.end = ReadBack(t, c.allday)
    /\ d.zone = IF c.allday THEN UTC ELSE Or(opts.zone, c.zone)
    /\ d.rule = IF opts.clearRRule THEN NoRule ELSE Or(opts.rrule, c.rule)
    /\ d.exdates = (IF opts.clearRRule THEN {} ELSE c.exdates)
                   \cup {ReadBack(t, c.allday) : t \in opts.addExdates}
    /\ d.original = c.original /\ d.organizer = c.organizer /\ d.conference = c.conference
    /\ d.text = [n \in TextName |-> IF opts.text[n] = {} THEN c.text[n] ELSE Text(The(opts.text[n]))]
    /\ d.sequence = c.sequence + IF Significant(opts) THEN 1 ELSE 0
    /\ d.reminders = Or(opts.reminders, c.reminders)
    /\ d.color = IF opts.color = {} THEN c.color ELSE opts.color

LEMMA UpdatedSchedule ==
    ASSUME NEW row, IsRow(row), IsCoherent(row), NEW opts, IsOptions(opts),
           NEW new, new = Updated(row, opts),
           NEW c, c = ReadsAs(row), NEW d, d = ReadsAs(new)
    PROVE  /\ d.allday = c.allday /\ (IsAllDay(new) <=> IsAllDay(row))
           /\ opts.start = {} => d.start = c.start
           /\ \A t \in opts.start : d.start = ReadBack(t, c.allday)
           /\ opts.end = {} => d.end = c.end
           /\ \A t \in opts.end : d.end = ReadBack(t, c.allday)
           /\ d.zone = IF c.allday THEN UTC ELSE Or(opts.zone, c.zone)
           /\ \A n \in {"DTSTART", "DTEND"} : \A v \in Column(new, n) : IsDateOf(v, c.allday)
<1>1. PICK current : current = Decrypt(Get(row), {row.key})
  OBVIOUS
<1>2. /\ current.start = c.start /\ current.end = c.end /\ current.zone = c.zone
      /\ current.allday = c.allday /\ c.zone \in Zone /\ c.allday \in BOOLEAN
  BY <1>1, CurrentReads
<1>3. PICK signed : signed = signedPatch(current, opts)
  OBVIOUS
<1>4. signed = SignedFor(row, opts)
  BY <1>1, <1>3 DEF SignedFor
<1>5. /\ signed.set["DTSTART"] = MovedTo(opts, c, opts.start, c.start)
      /\ signed.set["DTEND"] = MovedTo(opts, c, opts.end, c.end)
      /\ signed.delete \subseteq {"RRULE", "EXDATE"}
  <2>1. ASSUME NEW given, NEW old
        PROVE  MovedTo(opts, current, given, old) = MovedTo(opts, c, given, old)
    BY <1>2 DEF MovedTo
  <2>2. /\ signed.set["DTSTART"] = MovedTo(opts, current, opts.start, current.start)
        /\ signed.set["DTEND"] = MovedTo(opts, current, opts.end, current.end)
    BY <1>3, SignedPatchLines DEF IsSignedPatch
  <2>3. signed.delete = IF opts.clearRRule THEN {"RRULE", "EXDATE"} ELSE {}
    BY <1>3, SignedPatchLines DEF IsSignedPatch
  <2> QED BY <1>2, <2>1, <2>2, <2>3
<1>6. \A n \in {"DTSTART", "DTEND"} :
        Column(new, n) = IF signed.set[n] # {} THEN signed.set[n] ELSE Column(row, n)
  <2>1. \A n \in Name : Column(new, n) =
                (IF n \in signed.delete THEN {}
                 ELSE IF signed.set[n] # {} THEN signed.set[n]
                 ELSE Column(row, n)) \cup {v \in signed.append : n = "EXDATE"}
    BY <1>4, UpdatedLines
  <2> QED BY <1>5, <2>1 DEF Name, Structure
<1>7. /\ opts.start \in SUBSET Instant /\ opts.end \in SUBSET Instant
      /\ AtMostOne(opts.start) /\ AtMostOne(opts.end)
  BY DEF IsOptions
<1>8. c.allday <=> IsAllDay(row)
  BY ReadFields
<1>9. PICK v \in Column(row, "DTSTART") : Column(row, "DTSTART") = {v} /\ The(Column(row, "DTSTART")) = v
  BY OneDate
<1>10. PICK w \in Column(row, "DTEND") : Column(row, "DTEND") = {w} /\ The(Column(row, "DTEND")) = w
  BY OneDate
<1>11. IsDateOf(v, c.allday) /\ IsDateOf(w, c.allday)
  BY <1>8, CoherentDates
<1>12. c.start = parseDateTime(v) /\ c.end = parseDateTime(w)
  BY <1>9, <1>10, ReadFields
<1>13. v.zone = c.zone
  BY <1>9, ReadFields DEF StartTimezone
<1>14. PICK starts : starts = signed.set["DTSTART"]
  OBVIOUS
<1>15. PICK ends : ends = signed.set["DTEND"]
  OBVIOUS
<1>16. PICK x : x = IF starts # {} THEN The(starts) ELSE v
  OBVIOUS
<1>17. PICK y : y = IF ends # {} THEN The(ends) ELSE w
  OBVIOUS
<1>18. /\ IsDateOf(x, c.allday) /\ \A u \in starts : u = x
       /\ opts.start = {} => parseDateTime(x) = c.start
       /\ \A t \in opts.start : parseDateTime(x) = ReadBack(t, c.allday)
       /\ x.zone = IF c.allday THEN UTC ELSE Or(opts.zone, c.zone)
  BY <1>2, <1>5, <1>7, <1>11, <1>12, <1>13, <1>14, <1>16, MovedReads
<1>19. /\ IsDateOf(y, c.allday) /\ \A u \in ends : u = y
       /\ opts.end = {} => parseDateTime(y) = c.end
       /\ \A t \in opts.end : parseDateTime(y) = ReadBack(t, c.allday)
  BY <1>2, <1>5, <1>7, <1>11, <1>12, <1>15, <1>17, MovedReads
<1>20. Column(new, "DTSTART") = {x}
  <2>1. Column(new, "DTSTART") = IF starts # {} THEN starts ELSE {v}
    BY <1>6, <1>9, <1>14
  <2> QED BY <1>16, <1>18, <2>1
<1>21. Column(new, "DTEND") = {y}
  <2>1. Column(new, "DTEND") = IF ends # {} THEN ends ELSE {w}
    BY <1>6, <1>10, <1>15
  <2> QED BY <1>17, <1>19, <2>1
<1>22. The(Column(new, "DTSTART")) = x /\ The(Column(new, "DTEND")) = y
  BY <1>20, <1>21, TheOnly
<1>23. d.start = parseDateTime(x) /\ d.end = parseDateTime(y)
  BY <1>22, ReadFields
<1>24. d.zone = x.zone
  BY <1>22, ReadFields DEF StartTimezone
<1>25. d.allday = x.allday /\ IsAllDay(new) = x.allday
  BY <1>22, ReadFields DEF IsAllDay
<1>26. d.allday = c.allday /\ (IsAllDay(new) <=> IsAllDay(row))
  <2>1. x.allday \in BOOLEAN /\ (x.allday <=> c.allday)
    BY <1>18 DEF IsDateOf, Date
  <2>2. x.allday = c.allday
    BY <1>2, <2>1
  <2> QED BY <1>8, <1>25, <2>2
<1>27. \A n \in {"DTSTART", "DTEND"} : \A u \in Column(new, n) : IsDateOf(u, c.allday)
  BY <1>18, <1>19, <1>20, <1>21
<1> QED BY <1>18, <1>19, <1>23, <1>24, <1>26, <1>27

LEMMA UpdatedFields ==
    ASSUME NEW row, IsRow(row), NEW opts, NEW new, new = Updated(row, opts)
    PROVE  /\ new.notifications = Or(opts.reminders, row.notifications)
           /\ new.color = (IF opts.color = {} THEN row.color ELSE opts.color)
           /\ new.answers = Get(row).answers
<1> DEFINE raw == Get(row)
           color == IF opts.color = {} THEN raw.color ELSE opts.color
           cards == [i \in DOMAIN raw.cards |->
                       IF raw.cards[i].part = "shared"
                       THEN resealCard(raw.cards[i], signedPatch(Decrypt(raw, {raw.key}), opts), encPatch(opts))
                       ELSE raw.cards[i]]
           reminders == Or(opts.reminders, raw.notifications)
           body == [raw EXCEPT !.cards = cards, !.notifications = reminders, !.color = color]
           sent == IF body.color = {} THEN row.color ELSE body.color
<1>1. body = buildUpdateBody(raw, opts)
  BY Zenon DEF buildUpdateBody
<1>2. new = [body EXCEPT !.color = sent]
  BY <1>1, Zenon DEF Updated, Put
<1>3. DOMAIN raw = {"cards", "answers", "notifications", "color", "key"}
  BY GotRow DEF IsRow
<1>4. raw.notifications = row.notifications /\ raw.color = row.color
  BY DEF Get, IsRow
<1>5. color = IF opts.color = {} THEN row.color ELSE opts.color
  BY <1>4
<1>6. reminders = Or(opts.reminders, row.notifications)
  BY <1>4
<1> HIDE DEF raw, color, cards, reminders
<1>7. /\ DOMAIN body = {"cards", "answers", "notifications", "color", "key"}
      /\ body.answers = raw.answers /\ body.notifications = reminders /\ body.color = color
  BY <1>3
<1>8. sent = color
  BY <1>5, <1>7
<1> HIDE DEF body, sent
<1>9. new.answers = raw.answers /\ new.notifications = reminders /\ new.color = sent
  BY <1>2, <1>7
<1>10. new.answers = Get(row).answers
  BY <1>9 DEF raw
<1> QED BY <1>5, <1>6, <1>8, <1>9, <1>10

\* What is not about texts and the schedule is read as before.
LEMMA SurvivedReads ==
    ASSUME NEW row, IsRow(row), NEW new, IsRow(new), NEW text, Survived(row, new, text),
           NEW n \in Name \ (TextName \cup {"DTSTART", "DTEND", "RRULE", "EXDATE", "SEQUENCE"})
    PROVE  /\ AllOf(new, Places(new), n) = AllOf(row, Places(row), n)
           /\ n \in SingleValued => Latest(new, Places(new), n) = Latest(row, Places(row), n)
<1>1. Places(new) = Places(row) /\ \A i \in Places(row) : Values(new, i, n) = Values(row, i, n)
  BY DEF Survived
<1>2. AllOf(new, Places(new), n) = AllOf(row, Places(row), n)
  BY <1>1 DEF AllOf
<1>3. ASSUME n \in SingleValued
      PROVE  Latest(new, Places(new), n) = Latest(row, Places(row), n)
  <2>1. Latest(row, Places(row), n) = AllOf(row, Places(row), n)
    BY <1>3, SingleIsAll DEF IsRow
  <2>2. Latest(new, Places(new), n) = AllOf(new, Places(new), n)
    BY <1>3, SingleIsAll DEF IsRow
  <2> QED BY <1>2, <2>1, <2>2
<1> QED BY <1>2, <1>3

\* A text as it is shown: without its block in the description of a meeting
\* with a conference.
Masked(t, hidden) == [t EXCEPT !.block = @ /\ ~hidden]

LEMMA TextsAre ==
    ASSUME NEW row, NEW n \in TextName, NEW hidden,
           hidden = (n = "DESCRIPTION" /\ assembleConference(row, Places(row)) # {})
    PROVE  TextsAt(row, Places(row))[n] = Masked(Or(Latest(row, Places(row), n), Text("")), hidden)
BY Zenon DEF TextsAt, Masked

LEMMA UpdatedText ==
    ASSUME NEW row, IsRow(row), IsCoherent(row), NEW opts, IsOptions(opts),
           NEW new, new = Updated(row, opts), NEW n \in TextName
    PROVE  /\ TextsAt(new, Places(new))[n] =
                IF opts.text[n] = {} THEN TextsAt(row, Places(row))[n] ELSE Text(The(opts.text[n]))
           /\ \A i \in Places(new) : \A t \in Values(new, i, n) : IsText(t)
<1>1. IsRow(new) /\ Survived(row, new, opts.text)
  BY UpdatedRow
<1>2. PICK enc : enc = encPatch(opts)
  OBVIOUS
<1>3. PICK old, lines : old = Latest(row, Places(row), n) /\ lines = Latest(new, Places(new), n)
  OBVIOUS
<1>4. lines = IF n \in enc.delete THEN {} ELSE IF enc.set[n] # {} THEN enc.set[n] ELSE old
  BY <1>2, <1>3, UpdatedLines
<1>5. PICK q : q \in Places(row) /\ q \in Nat /\ SharedEncrypted(row) = {q}
  BY PrivatePlace
<1>6. q \in Places(new) /\ SharedEncrypted(new) = {q}
  BY <1>1, <1>5, SurvivedPlaces
<1>7. old = Values(row, q, n) /\ lines = Values(new, q, n)
  BY <1>1, <1>3, <1>5, <1>6, TextAt
<1>8. \A t \in old : IsText(t)
  BY <1>5, <1>7 DEF IsCoherent
<1>9. /\ opts.text[n] = {} => lines = old
      /\ opts.text[n] # {} => Or(lines, Text("")) = Text(The(opts.text[n]))
      /\ \A t \in lines : IsText(t)
  <2>1. opts.text[n] = {} => lines = old
    BY <1>2, <1>4, PatchedText
  <2>2. opts.text[n] # {} => Or(lines, Text("")) = Text(The(opts.text[n]))
    BY <1>2, <1>4, PatchedText
  <2>3. \A t \in lines : IsText(t)
    BY <1>2, <1>4, <1>8, PatchedTextType
  <2> QED BY <2>1, <2>2, <2>3
<1>10. \A i \in Places(new) : \A t \in Values(new, i, n) : IsText(t)
  <2>1. \A i \in Places(new) : Values(new, i, n) # {} => i = q
    BY <1>6, UpdatedLines
  <2> QED BY <1>7, <1>9, <2>1
<1>11. assembleConference(new, Places(new)) = assembleConference(row, Places(row))
  <2>1. \A m \in {"X-PM-CONFERENCE-ID", "X-PM-CONFERENCE-URL"} :
          /\ m \in Name \ (TextName \cup {"DTSTART", "DTEND", "RRULE", "EXDATE", "SEQUENCE"})
          /\ m \in SingleValued
    BY DEF Name, TextName, Structure, SingleValued, multiValuedProps
  <2>2. \A m \in {"X-PM-CONFERENCE-ID", "X-PM-CONFERENCE-URL"} :
          Latest(new, Places(new), m) = Latest(row, Places(row), m)
    BY <1>1, <2>1, SurvivedReads
  <2> QED BY <2>2 DEF assembleConference
<1>12. PICK hidden : hidden = (n = "DESCRIPTION" /\ assembleConference(row, Places(row)) # {})
  OBVIOUS
<1>13. /\ TextsAt(row, Places(row))[n] = Masked(Or(old, Text("")), hidden)
       /\ TextsAt(new, Places(new))[n] = Masked(Or(lines, Text("")), hidden)
  BY <1>3, <1>11, <1>12, TextsAre
<1>14. \A own : Masked(Text(own), hidden) = Text(own)
  <2>1. ASSUME NEW own PROVE Masked(Text(own), hidden) = Text(own)
    <3>1. IsText(Text(own)) /\ ~Text(own).block
      BY DEF Text, IsText
    <3>2. [Text(own) EXCEPT !.block = @ /\ ~hidden] = Text(own)
      BY <3>1, TextAsIs
    <3> QED BY <3>2, Zenon DEF Masked
  <2> QED BY <2>1
<1>15. CASE opts.text[n] = {}
  <2>1. lines = old
    BY <1>9, <1>15
  <2> QED BY <1>10, <1>13, <1>15, <2>1
<1>16. CASE opts.text[n] # {}
  <2>1. Or(lines, Text("")) = Text(The(opts.text[n]))
    BY <1>9, <1>16
  <2> QED BY <1>10, <1>13, <1>14, <1>16, <2>1
<1> QED BY <1>15, <1>16

LEMMA UpdatedRule ==
    ASSUME NEW row, IsRow(row), NEW opts, IsOptions(opts), NEW new, new = Updated(row, opts)
    PROVE  RRule(new) = IF opts.clearRRule THEN NoRule ELSE Or(opts.rrule, RRule(row))
<1>1. PICK current : current = Decrypt(Get(row), {row.key})
  OBVIOUS
<1>2. PICK signed : signed = signedPatch(current, opts)
  OBVIOUS
<1>3. signed = SignedFor(row, opts)
  BY <1>1, <1>2 DEF SignedFor
<1>4. /\ signed.set["RRULE"] = (IF opts.clearRRule THEN {} ELSE opts.rrule)
      /\ signed.delete = (IF opts.clearRRule THEN {"RRULE", "EXDATE"} ELSE {})
  BY <1>2, SignedPatchLines DEF IsSignedPatch
<1>5. Column(new, "RRULE") = IF "RRULE" \in signed.delete THEN {}
                             ELSE IF signed.set["RRULE"] # {} THEN signed.set["RRULE"]
                             ELSE Column(row, "RRULE")
  <2>1. \A n \in Name : Column(new, n) =
                (IF n \in signed.delete THEN {}
                 ELSE IF signed.set[n] # {} THEN signed.set[n]
                 ELSE Column(row, n)) \cup {v \in signed.append : n = "EXDATE"}
    BY <1>3, UpdatedLines
  <2> QED BY <2>1 DEF Name, Structure
<1>6. Column(new, "RRULE") = IF opts.clearRRule THEN {}
                             ELSE IF opts.rrule # {} THEN opts.rrule ELSE Column(row, "RRULE")
  BY <1>4, <1>5
<1> QED BY <1>6 DEF RRule, Or

LEMMA UpdatedExdates ==
    ASSUME NEW row, IsRow(row), NEW opts, IsOptions(opts), NEW new, new = Updated(row, opts),
           NEW c, c = ReadsAs(row)
    PROVE  {parseDateTime(v) : v \in Column(new, "EXDATE")} =
             (IF opts.clearRRule THEN {} ELSE c.exdates)
             \cup {ReadBack(t, c.allday) : t \in opts.addExdates}
<1>1. PICK current : current = Decrypt(Get(row), {row.key})
  OBVIOUS
<1>2. /\ current.zone = c.zone /\ current.allday = c.allday /\ c.zone \in Zone /\ c.allday \in BOOLEAN
  BY <1>1, CurrentReads
<1>3. PICK signed : signed = signedPatch(current, opts)
  OBVIOUS
<1>4. signed = SignedFor(row, opts)
  BY <1>1, <1>3 DEF SignedFor
<1>5. PICK zone : zone = Or(opts.zone, c.zone)
  OBVIOUS
<1>6. zone \in Zone
  BY <1>2, <1>5, OrIsOne DEF Or, IsOptions
<1>7. signed.append = {DateValue(t, zone, c.allday) : t \in opts.addExdates}
  <2>1. signed.append = Appended(current, opts)
    BY <1>3, SignedPatchLines DEF IsSignedPatch
  <2> QED BY <1>2, <1>5, <2>1 DEF Appended
<1>8. /\ signed.delete = (IF opts.clearRRule THEN {"RRULE", "EXDATE"} ELSE {})
      /\ "EXDATE" \in Name /\ signed.set["EXDATE"] = {}
  <2>1. "EXDATE" \in Name \ {"DTSTART", "DTEND", "SEQUENCE", "RRULE"}
    BY DEF Name
  <2>2. \A n \in Name \ {"DTSTART", "DTEND", "SEQUENCE", "RRULE"} : signed.set[n] = {}
    BY <1>3, SignedPatchLines DEF IsSignedPatch
  <2>3. signed.delete = IF opts.clearRRule THEN {"RRULE", "EXDATE"} ELSE {}
    BY <1>3, SignedPatchLines DEF IsSignedPatch
  <2> QED BY <2>1, <2>2, <2>3
<1>9. Column(new, "EXDATE") = (IF opts.clearRRule THEN {} ELSE Column(row, "EXDATE")) \cup signed.append
  <2>1. \A n \in Name : Column(new, n) =
                (IF n \in signed.delete THEN {}
                 ELSE IF signed.set[n] # {} THEN signed.set[n]
                 ELSE Column(row, n)) \cup {v \in signed.append : n = "EXDATE"}
    BY <1>4, UpdatedLines
  <2> QED BY <1>8, <2>1
<1>10. \A t \in opts.addExdates : parseDateTime(DateValue(t, zone, c.allday)) = ReadBack(t, c.allday)
  BY <1>2, <1>6, DateReadsBack DEF IsOptions
<1>11. c.exdates = {parseDateTime(v) : v \in Column(row, "EXDATE")}
  BY ReadFields
<1>12. {parseDateTime(v) : v \in signed.append} = {ReadBack(t, c.allday) : t \in opts.addExdates}
  BY <1>7, <1>10
<1>13. CASE opts.clearRRule
  <2>1. Column(new, "EXDATE") = signed.append
    BY <1>9, <1>13
  <2> QED BY <1>12, <1>13, <2>1
<1>14. CASE ~opts.clearRRule
  <2>1. Column(new, "EXDATE") = Column(row, "EXDATE") \cup signed.append
    BY <1>9, <1>14
  <2>2. {parseDateTime(v) : v \in Column(new, "EXDATE")} =
          {parseDateTime(v) : v \in Column(row, "EXDATE")} \cup {parseDateTime(v) : v \in signed.append}
    BY <2>1
  <2> QED BY <1>11, <1>12, <1>14, <2>2
<1> QED BY <1>13, <1>14

LEMMA UpdatedSequence ==
    ASSUME NEW row, IsRow(row), NEW opts, IsOptions(opts), NEW new, new = Updated(row, opts)
    PROVE  Or(Column(new, "SEQUENCE"), 0) =
             Or(Column(row, "SEQUENCE"), 0) + IF Significant(opts) THEN 1 ELSE 0
<1>1. PICK current : current = Decrypt(Get(row), {row.key})
  OBVIOUS
<1>2. PICK c : c = ReadsAs(row)
  OBVIOUS
<1>3. current.sequence = c.sequence /\ c.sequence \in Int /\ c.sequence = Or(Column(row, "SEQUENCE"), 0)
  <2>1. current.sequence = c.sequence /\ c.sequence \in Int
    BY <1>1, <1>2, CurrentReads
  <2> QED BY <1>2, <2>1, ReadFields
<1>4. PICK signed : signed = signedPatch(current, opts)
  OBVIOUS
<1>5. signed = SignedFor(row, opts)
  BY <1>1, <1>4 DEF SignedFor
<1>6. signed.set["SEQUENCE"] = (IF Significant(opts) THEN {current.sequence + 1} ELSE {})
  BY <1>4, SignedPatchLines DEF IsSignedPatch
<1>7. Column(new, "SEQUENCE") =
        IF signed.set["SEQUENCE"] # {} THEN signed.set["SEQUENCE"] ELSE Column(row, "SEQUENCE")
  <2>1. \A n \in Name : Column(new, n) =
                (IF n \in signed.delete THEN {}
                 ELSE IF signed.set[n] # {} THEN signed.set[n]
                 ELSE Column(row, n)) \cup {v \in signed.append : n = "EXDATE"}
    BY <1>5, UpdatedLines
  <2>2. signed.delete = IF opts.clearRRule THEN {"RRULE", "EXDATE"} ELSE {}
    BY <1>4, SignedPatchLines DEF IsSignedPatch
  <2>3. "SEQUENCE" \in Name /\ "SEQUENCE" \notin signed.delete
    BY <2>2 DEF Name, Structure
  <2> QED BY <2>1, <2>3
<1>8. CASE Significant(opts)
  <2>1. Column(new, "SEQUENCE") = {current.sequence + 1}
    BY <1>6, <1>7, <1>8
  <2>2. Or(Column(new, "SEQUENCE"), 0) = current.sequence + 1
    BY <2>1, TheOnly
  <2> QED BY <1>3, <1>8, <2>2
<1>9. CASE ~Significant(opts)
  <2>1. Column(new, "SEQUENCE") = Column(row, "SEQUENCE")
    BY <1>6, <1>7, <1>9
  <2> QED BY <1>3, <1>9, <2>1
<1> QED BY <1>8, <1>9

-----------------------------------------------------------------------------
(* The answers that come back with a row.                                  *)

GotAnswers(answers) ==
    {t \in DOMAIN answers : Cardinality({u \in DOMAIN answers : u < t}) < MaxAnswers}

LEMMA GetAnswers ==
    ASSUME NEW row, IsRow(row)
    PROVE  Get(row).answers = [t \in GotAnswers(row.answers) |-> row.answers[t]]
<1>1. Get(row) = [row EXCEPT !.answers = [t \in GotAnswers(row.answers) |-> row.answers[t]]]
  BY Zenon DEF Get, GotAnswers
<1>2. "answers" \in DOMAIN row
  BY DEF IsRow
<1> QED BY <1>1, <1>2

\* All of them do, if there are no more than the limit.
LEMMA FewAnswers ==
    ASSUME NEW answers, NEW tokens, DOMAIN answers \subseteq tokens, tokens \subseteq Token,
           Cardinality(tokens) <= MaxAnswers
    PROVE  GotAnswers(answers) = DOMAIN answers
<1>1. IsFiniteSet(Token) /\ Token \subseteq Nat /\ MaxAnswers \in Nat
  BY ConstantsAssumption DEF ConstantsAssumption
<1>2. IsFiniteSet(tokens)
  BY <1>1, FS_Subset
<1>3. ASSUME NEW t \in DOMAIN answers
      PROVE  Cardinality({u \in DOMAIN answers : u < t}) < MaxAnswers
  <2> DEFINE before == {u \in DOMAIN answers : u < t}
  <2>1. t \in Nat
    BY <1>1
  <2>2. before \subseteq tokens /\ t \in tokens /\ t \notin before
    BY <2>1
  <2> HIDE DEF before
  <2>3. before \subseteq tokens /\ before # tokens
    BY <2>2
  <2>4. Cardinality(before) \in Nat /\ Cardinality(tokens) \in Nat
    BY <1>2, <2>3, FS_Subset, FS_CardinalityType
  <2>5. Cardinality(before) < Cardinality(tokens)
    <3>1. Cardinality(before) <= Cardinality(tokens)
      BY <1>2, <2>3, FS_Subset
    <3>2. Cardinality(before) = Cardinality(tokens) => before = tokens
      BY <1>2, <2>3, FS_Subset
    <3> QED BY <2>3, <2>4, <3>1, <3>2
  <2>6. Cardinality(before) < MaxAnswers
    BY <1>1, <2>4, <2>5
  <2> QED BY <2>6 DEF before
<1> QED BY <1>3 DEF GotAnswers

\* What is left of the answers after a row was rewritten.
LeftOf(a, b) ==
    /\ Cardinality(DOMAIN a) <= MaxAnswers => b = a
    /\ \E kept \in SUBSET DOMAIN a : b = [t \in DOMAIN a |-> IF t \in kept THEN a[t] ELSE -1]

LEMMA AnswersLeft ==
    ASSUME NEW answers, NEW tokens, DOMAIN answers \subseteq tokens, tokens \subseteq Token,
           NEW got, got = [t \in GotAnswers(answers) |-> answers[t]]
    PROVE  LeftOf(enrichAttendeeStatus(tokens, answers), enrichAttendeeStatus(tokens, got))
<1> DEFINE a == [t \in tokens |-> IF t \in DOMAIN answers THEN answers[t] ELSE -1]
           b == [t \in tokens |-> IF t \in GotAnswers(answers) THEN answers[t] ELSE -1]
<1>1. enrichAttendeeStatus(tokens, answers) = a
  BY DEF enrichAttendeeStatus
<1>2. GotAnswers(answers) \subseteq DOMAIN answers
  BY DEF GotAnswers
<1>3. DOMAIN got = GotAnswers(answers) /\ \A t \in GotAnswers(answers) : got[t] = answers[t]
  OBVIOUS
<1>4. enrichAttendeeStatus(tokens, got) = b
  <2>1. \A t \in tokens : (IF t \in DOMAIN got THEN got[t] ELSE -1) = b[t]
    BY <1>3
  <2>2. enrichAttendeeStatus(tokens, got) = [t \in tokens |-> IF t \in DOMAIN got THEN got[t] ELSE -1]
    BY DEF enrichAttendeeStatus
  <2> QED BY <2>1, <2>2
<1>5. DOMAIN a = tokens
  OBVIOUS
<1>6. \A t \in GotAnswers(answers) : t \in tokens /\ a[t] = answers[t]
  BY <1>2
<1>7. b = [t \in tokens |-> IF t \in GotAnswers(answers) THEN a[t] ELSE -1]
  BY <1>6
<1>8. GotAnswers(answers) \in SUBSET tokens
  BY <1>2
<1>9. Cardinality(tokens) <= MaxAnswers => b = a
  <2>1. Cardinality(tokens) <= MaxAnswers => GotAnswers(answers) = DOMAIN answers
    BY FewAnswers
  <2> QED BY <2>1
<1> HIDE DEF a, b
<1> QED BY <1>1, <1>4, <1>5, <1>7, <1>8, <1>9 DEF LeftOf

-----------------------------------------------------------------------------

LEMMA UpdatedContent ==
    ASSUME NEW row, IsRow(row), IsCoherent(row), NEW opts, IsOptions(opts),
           NEW new, new = Updated(row, opts), NEW c, c = ReadsAs(row), NEW d, d = ReadsAs(new)
    PROVE  UpdatedAs(c, opts, d) /\ LeftOf(c.answers, d.answers)
<1>1. IsRow(new) /\ Survived(row, new, opts.text) /\ RecurrenceID(new) = RecurrenceID(row)
  BY UpdatedRow
<1>2. /\ d.allday = c.allday
      /\ opts.start = {} => d.start = c.start
      /\ \A t \in opts.start : d.start = ReadBack(t, c.allday)
      /\ opts.end = {} => d.end = c.end
      /\ \A t \in opts.end : d.end = ReadBack(t, c.allday)
      /\ d.zone = IF c.allday THEN UTC ELSE Or(opts.zone, c.zone)
  BY UpdatedSchedule
<1>3. d.rule = IF opts.clearRRule THEN NoRule ELSE Or(opts.rrule, c.rule)
  BY UpdatedRule, ReadFields
<1>4. d.exdates = (IF opts.clearRRule THEN {} ELSE c.exdates)
                  \cup {ReadBack(t, c.allday) : t \in opts.addExdates}
  <2>1. d.exdates = {parseDateTime(v) : v \in Column(new, "EXDATE")}
    BY ReadFields
  <2> QED BY <2>1, UpdatedExdates
<1>5. d.original = c.original
  BY <1>1, ReadFields
<1>6. \A m \in {"ORGANIZER", "X-PM-CONFERENCE-ID", "X-PM-CONFERENCE-URL", "ATTENDEE"} :
        m \in Name \ (TextName \cup {"DTSTART", "DTEND", "RRULE", "EXDATE", "SEQUENCE"})
  BY DEF Name, TextName, Structure
<1>7. \A m \in {"ORGANIZER", "X-PM-CONFERENCE-ID", "X-PM-CONFERENCE-URL"} :
        Latest(new, Places(new), m) = Latest(row, Places(row), m)
  <2>1. \A m \in {"ORGANIZER", "X-PM-CONFERENCE-ID", "X-PM-CONFERENCE-URL"} : m \in SingleValued
    BY <1>6 DEF SingleValued, multiValuedProps
  <2> QED BY <1>1, <1>6, <2>1, SurvivedReads
<1>8. d.organizer = c.organizer /\ d.conference = c.conference
  <2>1. assembleConference(new, Places(new)) = assembleConference(row, Places(row))
    BY <1>7 DEF assembleConference
  <2> QED BY <1>7, <2>1, ReadFields
<1>9. d.text = [n \in TextName |-> IF opts.text[n] = {} THEN c.text[n] ELSE Text(The(opts.text[n]))]
  <2>1. c.text = TextsAt(row, Places(row)) /\ d.text = TextsAt(new, Places(new))
    BY ReadFields
  <2>2. \A n \in TextName : d.text[n] = IF opts.text[n] = {} THEN c.text[n] ELSE Text(The(opts.text[n]))
    BY <2>1, UpdatedText
  <2>3. d.text = [n \in TextName |-> d.text[n]]
    BY <2>1 DEF TextsAt
  <2> QED BY <2>2, <2>3
<1>10. d.sequence = c.sequence + IF Significant(opts) THEN 1 ELSE 0
  <2>1. c.sequence = Or(Column(row, "SEQUENCE"), 0) /\ d.sequence = Or(Column(new, "SEQUENCE"), 0)
    BY ReadFields
  <2> QED BY <2>1, UpdatedSequence
<1>11. /\ d.reminders = Or(opts.reminders, c.reminders)
       /\ d.color = IF opts.color = {} THEN c.color ELSE opts.color
  <2>1. d.reminders = new.notifications /\ d.color = new.color
    BY ReadFields
  <2>2. c.reminders = row.notifications /\ c.color = row.color
    BY ReadFields
  <2>3. /\ new.notifications = Or(opts.reminders, row.notifications)
        /\ new.color = IF opts.color = {} THEN row.color ELSE opts.color
    BY UpdatedFields
  <2> QED BY <2>1, <2>2, <2>3
<1>12. UpdatedAs(c, opts, d)
  BY <1>2, <1>3, <1>4, <1>5, <1>8, <1>9, <1>10, <1>11 DEF UpdatedAs
<1>13. LeftOf(c.answers, d.answers)
  <2>1. PICK tokens : tokens = AllOf(row, Places(row), "ATTENDEE")
    OBVIOUS
  <2>2. AllOf(new, Places(new), "ATTENDEE") = tokens
    BY <1>1, <1>6, <2>1, SurvivedReads
  <2>3. tokens \subseteq Token /\ DOMAIN row.answers \subseteq tokens
    BY <2>1 DEF IsCoherent
  <2>4. new.answers = [t \in GotAnswers(row.answers) |-> row.answers[t]]
    BY UpdatedFields, GetAnswers
  <2>5. c.answers = enrichAttendeeStatus(tokens, row.answers)
    BY <2>1, ReadFields
  <2>6. d.answers = enrichAttendeeStatus(tokens, new.answers)
    BY <2>2, ReadFields
  <2> QED BY <2>3, <2>4, <2>5, <2>6, AnswersLeft
<1> QED BY <1>12, <1>13

LEMMA UpdatedCoherent ==
    ASSUME NEW row, IsRow(row), IsCoherent(row), NEW opts, IsOptions(opts),
           \A rule \in opts.rrule : HasInterval(rule),
           NEW new, new = Updated(row, opts)
    PROVE  IsCoherent(new) /\ (IsAllDay(new) <=> IsAllDay(row))
<1>1. IsRow(new) /\ Survived(row, new, opts.text)
  BY UpdatedRow
<1>2. PICK c : c = ReadsAs(row)
  OBVIOUS
<1>3. c.allday <=> IsAllDay(row)
  BY <1>2, ReadFields
<1>4. /\ IsAllDay(new) <=> IsAllDay(row)
      /\ \A n \in {"DTSTART", "DTEND"} : \A v \in Column(new, n) : IsDateOf(v, c.allday)
  BY <1>2, UpdatedSchedule
<1>5. PICK p : SignedAt(row, p)
  BY SignedPlace
<1>6. SignedAt(new, p) /\ Places(new) = Places(row)
  BY <1>1, <1>5, SurvivedPlaces DEF SignedAt
<1>7. Column(new, "RECURRENCE-ID") = Column(row, "RECURRENCE-ID")
  <2>1. Values(new, p, "RECURRENCE-ID") = Values(row, p, "RECURRENCE-ID")
    BY <1>1, <1>5 DEF Survived, SignedAt, Name, Structure, TextName
  <2> QED BY <1>5, <1>6, <2>1, ColumnAt
<1>8. ASSUME NEW n \in {"DTSTART", "DTEND", "RECURRENCE-ID"}, NEW v \in Column(new, n)
      PROVE  (v.allday <=> IsAllDay(new)) /\ (v.allday => v.zone = UTC /\ v.wall % DayLength = 0)
  <2>1. IsDateOf(v, c.allday)
    <3>1. CASE n = "RECURRENCE-ID"
      BY <1>3, <1>7, <1>8, <3>1, CoherentDates
    <3>2. CASE n # "RECURRENCE-ID"
      BY <1>4, <1>8, <3>2
    <3> QED BY <3>1, <3>2
  <2> QED BY <1>3, <1>4, <2>1 DEF IsDateOf, IsMidnight
<1>9. \A rule \in Column(new, "RRULE") : HasInterval(rule)
  <2>1. PICK signed : signed = SignedFor(row, opts)
    OBVIOUS
  <2>2. signed.set["RRULE"] = IF opts.clearRRule THEN {} ELSE opts.rrule
    <3>1. PICK current : current = Decrypt(Get(row), {row.key})
      OBVIOUS
    <3>2. signed = signedPatch(current, opts)
      BY <2>1, <3>1 DEF SignedFor
    <3>3. IsSignedPatch(signed, current, opts)
      BY <3>2, SignedPatchLines
    <3> QED BY <3>3 DEF IsSignedPatch
  <2>3. \A n \in Name : Column(new, n) =
                (IF n \in signed.delete THEN {}
                 ELSE IF signed.set[n] # {} THEN signed.set[n]
                 ELSE Column(row, n)) \cup {v \in signed.append : n = "EXDATE"}
    BY <2>1, UpdatedLines
  <2>4. "RRULE" \in Name
    BY DEF Name, Structure
  <2>5. Column(new, "RRULE") \subseteq opts.rrule \cup Column(row, "RRULE")
    BY <2>2, <2>3, <2>4
  <2> QED BY <2>5 DEF IsCoherent
<1>10. \A i \in Places(new) : \A n \in TextName : \A t \in Values(new, i, n) : IsText(t)
  BY UpdatedText
<1>11. AllOf(new, Places(new), "ATTENDEE") = AllOf(row, Places(row), "ATTENDEE")
  <2>1. "ATTENDEE" \in Name \ (TextName \cup {"DTSTART", "DTEND", "RRULE", "EXDATE", "SEQUENCE"})
    BY DEF Name, TextName
  <2> QED BY <1>1, <2>1, SurvivedReads
<1>12. DOMAIN new.answers \subseteq DOMAIN row.answers
  BY UpdatedCards
<1>13. IsCoherent(new)
  BY <1>8, <1>9, <1>10, <1>11, <1>12 DEF IsCoherent
<1> QED BY <1>4, <1>13

-----------------------------------------------------------------------------
(* What an update is asked for.                                            *)

\* The options of an update are those of the request.
OptionsOf(in, opts) ==
    LET zone == Or(in.zone, HomeZone)
    IN  /\ opts.text = in.text
        /\ opts.start = {parseWhen(w, zone) : w \in in.start}
        /\ opts.end = {parseWhen(w, zone) : w \in in.end}
        /\ opts.zone = updateTZName(in.zone, in.start # {} \/ in.end # {})
        /\ opts.clearRRule = in.norepeat /\ opts.addExdates = {}
        /\ opts.reminders = in.reminders
        /\ opts.color = {IF c = "default" THEN CalendarColor ELSE c : c \in in.color}

LEMMA AskedOptions ==
    ASSUME NEW in, IsRequest(in), NEW allday \in BOOLEAN, NEW opts \in UpdateOptions(in, allday)
    PROVE  /\ OptionsOf(in, opts)
           /\ in.occurrence = {} /\ ~Empty(in.recurrence) =>
                \E rule \in buildRRule(in.recurrence, Or(in.zone, HomeZone), allday) :
                  opts.rrule = {rule} /\ rule # NoRule
           /\ ~(in.occurrence = {} /\ ~Empty(in.recurrence)) => opts.rrule = {}
           /\ \A rule \in opts.rrule : HasInterval(rule)
<1> DEFINE zone == Or(in.zone, HomeZone)
           given == in.occurrence = {} /\ ~Empty(in.recurrence)
           rules == IF given THEN buildRRule(in.recurrence, zone, allday) ELSE {NoRule}
           tz == updateTZName(in.zone, in.start # {} \/ in.end # {})
           starts == {parseWhen(w, zone) : w \in in.start}
           ends == {parseWhen(w, zone) : w \in in.end}
           color == {IF c = "default" THEN CalendarColor ELSE c : c \in in.color}
<1>1. PICK rule \in {r \in rules : validate(in)} :
        opts = [text |-> in.text, start |-> starts, end |-> ends, zone |-> tz,
                rrule |-> {rule} \ {NoRule}, clearRRule |-> in.norepeat, addExdates |-> {},
                reminders |-> in.reminders, color |-> color]
  BY Zenon DEF UpdateOptions
<1>2. zone \in Zone /\ IsRecurrence(in.recurrence)
  BY HomeZoneInZone DEF IsRequest
<1>3. given => rule \in buildRRule(in.recurrence, zone, allday)
  OBVIOUS
<1>4. ~given => rule = NoRule
  OBVIOUS
<1>5. given => rule # NoRule /\ HasInterval(rule)
  <2>1. given => HasInterval(rule) /\ (rule = NoRule <=> Empty(in.recurrence))
    BY <1>2, <1>3, RequestedRules
  <2> QED BY <2>1
<1> HIDE DEF starts, ends, tz, color, rules
<1>6. /\ opts.text = in.text /\ opts.start = starts /\ opts.end = ends /\ opts.zone = tz
      /\ opts.clearRRule = in.norepeat /\ opts.addExdates = {}
      /\ opts.reminders = in.reminders /\ opts.color = color
  BY <1>1
<1>7. opts.rrule = {rule} \ {NoRule}
  BY <1>1
<1>8. OptionsOf(in, opts)
  BY <1>6, Zenon DEF OptionsOf, starts, ends, tz, color
<1>9. given => opts.rrule = {rule}
  BY <1>5, <1>7
<1>10. ~given => opts.rrule = {}
  BY <1>4, <1>7
<1>11. \A r \in opts.rrule : HasInterval(r)
  BY <1>5, <1>9, <1>10
<1> HIDE DEF zone
<1>12. given => \E r \in buildRRule(in.recurrence, zone, allday) : opts.rrule = {r} /\ r # NoRule
  BY <1>3, <1>5, <1>9
<1> QED BY <1>8, <1>10, <1>11, <1>12 DEF zone

-----------------------------------------------------------------------------
(* What the record makes of the same request.                              *)

LEMMA RecordMeant ==
    ASSUME NEW in, NEW c, NEW w
    PROVE  Record!MeantBy(in, c, w) = ReadBack(parseWhen(w, Or(in.zone, HomeZone)), c.allday)
<1>1. PICK t : t = parseWhen(w, Or(in.zone, HomeZone))
  OBVIOUS
<1>2. Record!Given(in, w) = t
  BY <1>1, RecordOr, RecordWhen DEF Record!Given
<1> QED BY <1>1, <1>2, RecordDay DEF Record!MeantBy, ReadBack

LEMMA RecordZone ==
    ASSUME NEW in
    PROVE  Record!ZoneGiven(in) = updateTZName(in.zone, in.start # {} \/ in.end # {})
<1>1. Record!TimesGiven(in) <=> in.start # {} \/ in.end # {}
  BY DEF Record!TimesGiven
<1>2. CASE in.zone = {}
  BY <1>1, <1>2 DEF Record!ZoneGiven, updateTZName
<1>3. CASE in.zone # {}
  BY <1>3 DEF Record!ZoneGiven, updateTZName
<1> QED BY <1>2, <1>3

-----------------------------------------------------------------------------
(* What the record makes of a request, line by line.                       *)

\* The times the record means by the ones given.
MeantTimes(in, c, given) == {Record!MeantBy(in, c, w) : w \in given}
MeantColor(in, c) ==
    IF in.color = {} THEN c.color ELSE {IF x = "default" THEN CalendarColor ELSE x : x \in in.color}
MeantText(text, c) == [n \in DOMAIN c.text |-> IF text[n] = {} THEN c.text[n] ELSE Text(The(text[n]))]

IsOverridden(o, c, in, rule) ==
    /\ o.start = Or(MeantTimes(in, c, in.start), c.start)
    /\ o.end = Or(MeantTimes(in, c, in.end), c.end)
    /\ o.zone = (IF c.allday THEN UTC ELSE Or(Record!ZoneGiven(in), c.zone))
    /\ o.text = MeantText(in.text, c)
    /\ o.rule = rule
    /\ o.exdates = (IF in.norepeat THEN {} ELSE c.exdates)
    /\ o.sequence = c.sequence + (IF Record!Significant(in) THEN 1 ELSE 0)
    /\ o.reminders = Or(in.reminders, c.reminders)
    /\ o.color = MeantColor(in, c)
    /\ o.allday = c.allday /\ o.original = c.original /\ o.organizer = c.organizer
    /\ o.answers = c.answers /\ o.conference = c.conference
    /\ IsContent(o)

LEMMA OverriddenFields ==
    ASSUME NEW c, IsContent(c), NEW in, NEW rule, NEW o, o = Record!Overridden(c, in, rule)
    PROVE  IsOverridden(o, c, in, rule)
<1> DEFINE start == Record!Or({Record!MeantBy(in, c, w) : w \in in.start}, c.start)
           end == Record!Or({Record!MeantBy(in, c, w) : w \in in.end}, c.end)
           zone == IF c.allday THEN UTC ELSE Record!Or(Record!ZoneGiven(in), c.zone)
           text == [n \in DOMAIN c.text |-> IF in.text[n] = {} THEN c.text[n]
                                            ELSE [own |-> Record!The(in.text[n]), block |-> FALSE]]
           exdates == IF in.norepeat THEN {} ELSE c.exdates
           sequence == c.sequence + (IF Record!Significant(in) THEN 1 ELSE 0)
           reminders == Record!Or(in.reminders, c.reminders)
           color == IF in.color = {} THEN c.color
                    ELSE {IF x = "default" THEN CalendarColor ELSE x : x \in in.color}
<1>1. o = [c EXCEPT !.start = start, !.end = end, !.zone = zone, !.text = text, !.rule = rule,
                    !.exdates = exdates, !.sequence = sequence, !.reminders = reminders,
                    !.color = color]
  BY Zenon DEF Record!Overridden
<1>2. /\ start = Or(MeantTimes(in, c, in.start), c.start)
      /\ end = Or(MeantTimes(in, c, in.end), c.end)
      /\ zone = (IF c.allday THEN UTC ELSE Or(Record!ZoneGiven(in), c.zone))
      /\ reminders = Or(in.reminders, c.reminders)
  BY RecordOr, Zenon DEF MeantTimes
<1>3. text = MeantText(in.text, c)
  BY RecordOr, Zenon DEF Text, MeantText
<1> HIDE DEF start, end, zone, text, exdates, sequence, reminders, color
<1>4. c = [start |-> c.start, end |-> c.end, zone |-> c.zone, allday |-> c.allday, rule |-> c.rule,
           exdates |-> c.exdates, original |-> c.original, text |-> c.text,
           organizer |-> c.organizer, answers |-> c.answers, conference |-> c.conference,
           sequence |-> c.sequence, reminders |-> c.reminders, color |-> c.color]
  BY Zenon DEF IsContent
<1>5. o = [start |-> start, end |-> end, zone |-> zone, allday |-> c.allday, rule |-> rule,
           exdates |-> exdates, original |-> c.original, text |-> text,
           organizer |-> c.organizer, answers |-> c.answers, conference |-> c.conference,
           sequence |-> sequence, reminders |-> reminders, color |-> color]
  BY <1>1, <1>4
<1>6. /\ o.start = start /\ o.end = end /\ o.zone = zone /\ o.text = text /\ o.rule = rule
      /\ o.exdates = exdates /\ o.sequence = sequence /\ o.reminders = reminders /\ o.color = color
      /\ o.allday = c.allday /\ o.original = c.original /\ o.organizer = c.organizer
      /\ o.answers = c.answers /\ o.conference = c.conference
  BY <1>5
<1>7. IsContent(o)
  BY <1>5, <1>6, Zenon DEF IsContent
<1>8. /\ o.exdates = (IF in.norepeat THEN {} ELSE c.exdates)
      /\ o.sequence = c.sequence + (IF Record!Significant(in) THEN 1 ELSE 0)
      /\ o.color = MeantColor(in, c)
  BY <1>6, Zenon DEF exdates, sequence, color, MeantColor
<1> QED BY <1>2, <1>3, <1>6, <1>7, <1>8, Zenon DEF IsOverridden

\* Where one time is asked for, it is the one the record means.
MovedAsAsked(in, c, given, old, new) ==
    /\ given = {} => new = old
    /\ \A w \in given : new = ReadBack(parseWhen(w, Or(in.zone, HomeZone)), c.allday)

LEMMA MeantTime ==
    ASSUME NEW in, NEW c, NEW given, NEW old, NEW new, MovedAsAsked(in, c, given, old, new)
    PROVE  Or(MeantTimes(in, c, given), old) = new
<1>1. CASE given = {}
  <2>1. MeantTimes(in, c, given) = {}
    BY <1>1 DEF MeantTimes
  <2> QED BY <1>1, <2>1 DEF Or, MovedAsAsked
<1>2. CASE given # {}
  <2>1. MeantTimes(in, c, given) # {}
    BY <1>2 DEF MeantTimes
  <2>2. PICK m \in MeantTimes(in, c, given) : m = Or(MeantTimes(in, c, given), old)
    BY <2>1, OrIsOne
  <2>3. \A w \in given : Record!MeantBy(in, c, w) = new
    BY RecordMeant DEF MovedAsAsked
  <2>4. m = new
    BY <2>3 DEF MeantTimes
  <2> QED BY <2>2, <2>4
<1> QED BY <1>1, <1>2

\* The contents e and f differ at most in their answers.
SameButAnswers(e, f) ==
    /\ e.start = f.start /\ e.end = f.end /\ e.zone = f.zone /\ e.allday = f.allday
    /\ e.rule = f.rule /\ e.exdates = f.exdates /\ e.original = f.original /\ e.text = f.text
    /\ e.organizer = f.organizer /\ e.conference = f.conference
    /\ e.sequence = f.sequence /\ e.reminders = f.reminders /\ e.color = f.color

\* An update makes of a content what the record says.
LEMMA UpdateIsOverride ==
    ASSUME NEW in, IsRequest(in), NEW c, IsContent(c), DOMAIN c.text = TextName, c.allday \in BOOLEAN,
           NEW opts \in UpdateOptions(in, c.allday), NEW d, IsContent(d), UpdatedAs(c, opts, d)
    PROVE  /\ Significant(opts) <=> Record!Significant(in)
           /\ \E rule \in Record!RulesMeant(in, c) : \E o :
                /\ o = Record!Overridden(c, in, rule) /\ IsContent(o) /\ o.answers = c.answers
                /\ SameButAnswers(o, d)
<1> DEFINE zone == Or(in.zone, HomeZone)
<1>1. /\ OptionsOf(in, opts)
      /\ in.occurrence = {} /\ ~Empty(in.recurrence) =>
           \E rule \in buildRRule(in.recurrence, zone, c.allday) : opts.rrule = {rule} /\ rule # NoRule
      /\ ~(in.occurrence = {} /\ ~Empty(in.recurrence)) => opts.rrule = {}
  BY AskedOptions
<1>2. Record!RuleGiven(in) <=> in.occurrence = {} /\ ~Empty(in.recurrence)
  BY RecordEmpty DEF Record!RuleGiven
<1>3. /\ opts.text = in.text
      /\ opts.start = {parseWhen(w, zone) : w \in in.start}
      /\ opts.end = {parseWhen(w, zone) : w \in in.end}
      /\ opts.zone = Record!ZoneGiven(in)
      /\ opts.clearRRule = in.norepeat /\ opts.addExdates = {}
      /\ opts.reminders = in.reminders
      /\ (IF opts.color = {} THEN c.color ELSE opts.color) = MeantColor(in, c)
  <2>1. /\ opts.text = in.text
        /\ opts.start = {parseWhen(w, zone) : w \in in.start}
        /\ opts.end = {parseWhen(w, zone) : w \in in.end}
        /\ opts.zone = Record!ZoneGiven(in)
        /\ opts.clearRRule = in.norepeat /\ opts.addExdates = {}
        /\ opts.reminders = in.reminders
        /\ opts.color = {IF x = "default" THEN CalendarColor ELSE x : x \in in.color}
    BY <1>1, RecordZone, Zenon DEF OptionsOf
  <2>2. opts.color = {} <=> in.color = {}
    BY <2>1
  <2> QED BY <2>1, <2>2, Zenon DEF MeantColor
<1>4. (opts.start # {} <=> in.start # {}) /\ (opts.end # {} <=> in.end # {})
  BY <1>3
<1>5. opts.rrule # {} <=> Record!RuleGiven(in)
  BY <1>1, <1>2
<1>6. Significant(opts) <=> Record!Significant(in)
  BY <1>3, <1>4, <1>5 DEF Significant, Record!Significant, Record!TimesGiven
<1>7. PICK rule \in Record!RulesMeant(in, c) :
        rule = IF opts.clearRRule THEN NoRule ELSE Or(opts.rrule, c.rule)
  <2>1. CASE in.norepeat
    BY <1>3, <2>1 DEF Record!RulesMeant, Record!NoRule, NoRule
  <2>2. CASE ~in.norepeat /\ Record!RuleGiven(in)
    <3>1. PICK r \in buildRRule(in.recurrence, zone, c.allday) : opts.rrule = {r}
      BY <1>1, <1>2, <2>2
    <3>2. Or(opts.rrule, c.rule) = r
      BY <3>1, TheOnly
    <3>3. Record!RulesMeant(in, c) = buildRRule(in.recurrence, zone, c.allday)
      BY <2>2, RecordOr, RecordRules DEF Record!RulesMeant
    <3> QED BY <1>3, <2>2, <3>2, <3>3
  <2>3. CASE ~in.norepeat /\ ~Record!RuleGiven(in)
    <3>1. Record!RulesMeant(in, c) = {c.rule}
      BY <2>3 DEF Record!RulesMeant
    <3>2. Or(opts.rrule, c.rule) = c.rule
      BY <1>5, <2>3 DEF Or
    <3> QED BY <1>3, <2>3, <3>1, <3>2
  <2> QED BY <2>1, <2>2, <2>3
<1>8. PICK o : o = Record!Overridden(c, in, rule)
  OBVIOUS
<1>9. IsOverridden(o, c, in, rule)
  BY <1>8, OverriddenFields
<1>10. o.start = d.start /\ o.end = d.end
  <2>1. /\ opts.start = {} => d.start = c.start
        /\ \A t \in opts.start : d.start = ReadBack(t, c.allday)
        /\ opts.end = {} => d.end = c.end
        /\ \A t \in opts.end : d.end = ReadBack(t, c.allday)
    BY DEF UpdatedAs
  <2>2. \A w \in in.start : d.start = ReadBack(parseWhen(w, zone), c.allday)
    BY <1>3, <2>1
  <2>3. \A w \in in.end : d.end = ReadBack(parseWhen(w, zone), c.allday)
    BY <1>3, <2>1
  <2>4. MovedAsAsked(in, c, in.start, c.start, d.start) /\ MovedAsAsked(in, c, in.end, c.end, d.end)
    BY <1>4, <2>1, <2>2, <2>3, Zenon DEF MovedAsAsked
  <2>5. Or(MeantTimes(in, c, in.start), c.start) = d.start
    BY <2>4, MeantTime
  <2>6. Or(MeantTimes(in, c, in.end), c.end) = d.end
    BY <2>4, MeantTime
  <2> QED BY <1>9, <2>5, <2>6 DEF IsOverridden
<1>11. o.zone = d.zone
  BY <1>3, <1>9 DEF IsOverridden, UpdatedAs
<1>12. o.rule = d.rule
  BY <1>7, <1>9 DEF IsOverridden, UpdatedAs
<1>13. o.exdates = d.exdates
  <2>1. d.exdates = (IF opts.clearRRule THEN {} ELSE c.exdates)
                    \cup {ReadBack(t, c.allday) : t \in opts.addExdates}
    BY DEF UpdatedAs
  <2>2. {ReadBack(t, c.allday) : t \in opts.addExdates} = {}
    BY <1>3
  <2>3. o.exdates = (IF in.norepeat THEN {} ELSE c.exdates)
    BY <1>9 DEF IsOverridden
  <2> QED BY <1>3, <2>1, <2>2, <2>3
<1>14. o.text = d.text
  <2>1. o.text = MeantText(in.text, c)
    BY <1>9 DEF IsOverridden
  <2>2. d.text = [n \in TextName |-> IF opts.text[n] = {} THEN c.text[n] ELSE Text(The(opts.text[n]))]
    BY DEF UpdatedAs
  <2> QED BY <1>3, <2>1, <2>2, Zenon DEF MeantText
<1>15. o.sequence = d.sequence
  <2>1. o.sequence = c.sequence + (IF Record!Significant(in) THEN 1 ELSE 0)
    BY <1>9 DEF IsOverridden
  <2>2. d.sequence = c.sequence + (IF Significant(opts) THEN 1 ELSE 0)
    BY DEF UpdatedAs
  <2> QED BY <1>6, <2>1, <2>2
<1>16. o.reminders = d.reminders /\ o.color = d.color
  <2>1. o.reminders = Or(in.reminders, c.reminders) /\ o.color = MeantColor(in, c)
    BY <1>9 DEF IsOverridden
  <2>2. /\ d.reminders = Or(opts.reminders, c.reminders)
        /\ d.color = (IF opts.color = {} THEN c.color ELSE opts.color)
    BY DEF UpdatedAs
  <2> QED BY <1>3, <2>1, <2>2
<1>17. /\ o.allday = d.allday /\ o.original = d.original /\ o.organizer = d.organizer
       /\ o.conference = d.conference /\ o.answers = c.answers /\ IsContent(o)
  BY <1>9 DEF IsOverridden, UpdatedAs
<1>18. SameButAnswers(o, d)
  BY <1>10, <1>11, <1>12, <1>13, <1>14, <1>15, <1>16, <1>17 DEF SameButAnswers
<1> QED BY <1>6, <1>8, <1>17, <1>18

LEMMA RecordCardinality == \A S : Record!Cardinality(S) = Cardinality(S)
BY Zenon DEF Record!Cardinality, Cardinality

LEMMA OtherAnswers ==
    ASSUME NEW e, IsContent(e), NEW a
    PROVE  /\ IsContent([e EXCEPT !.answers = a]) /\ [e EXCEPT !.answers = a].answers = a
           /\ SameButAnswers(e, [e EXCEPT !.answers = a])
<1>1. e = [start |-> e.start, end |-> e.end, zone |-> e.zone, allday |-> e.allday, rule |-> e.rule,
           exdates |-> e.exdates, original |-> e.original, text |-> e.text,
           organizer |-> e.organizer, answers |-> e.answers, conference |-> e.conference,
           sequence |-> e.sequence, reminders |-> e.reminders, color |-> e.color]
  BY Zenon DEF IsContent
<1> DEFINE f == [e EXCEPT !.answers = a]
<1>2. f = [start |-> e.start, end |-> e.end, zone |-> e.zone, allday |-> e.allday, rule |-> e.rule,
           exdates |-> e.exdates, original |-> e.original, text |-> e.text,
           organizer |-> e.organizer, answers |-> a, conference |-> e.conference,
           sequence |-> e.sequence, reminders |-> e.reminders, color |-> e.color]
  BY <1>1
<1> HIDE DEF f
<1>3. /\ e.start = f.start /\ e.end = f.end /\ e.zone = f.zone /\ e.allday = f.allday
      /\ e.rule = f.rule /\ e.exdates = f.exdates /\ e.original = f.original /\ e.text = f.text
      /\ e.organizer = f.organizer /\ e.conference = f.conference /\ f.answers = a
      /\ e.sequence = f.sequence /\ e.reminders = f.reminders /\ e.color = f.color
  BY <1>2
<1>4. IsContent(f)
  BY <1>2, <1>3, Zenon DEF IsContent
<1>5. SameButAnswers(e, f)
  BY <1>3 DEF SameButAnswers
<1> QED BY <1>3, <1>4, <1>5 DEF f

LEMMA SameAnswersToo ==
    ASSUME NEW e, NEW f, IsContent(e), IsContent(f), SameButAnswers(e, f), e.answers = f.answers
    PROVE  e = f
BY SameContent DEF SameButAnswers

LEMMA RewrittenAs ==
    ASSUME NEW o, IsContent(o), NEW d, IsContent(d), SameButAnswers(o, d), LeftOf(o.answers, d.answers)
    PROVE  d \in Record!Rewritten(o)
<1>1. CASE Cardinality(DOMAIN o.answers) <= MaxAnswers
  <2>1. d = o
    BY <1>1, SameAnswersToo DEF LeftOf
  <2> QED BY <1>1, <2>1, RecordCardinality DEF Record!Rewritten
<1>2. CASE ~(Cardinality(DOMAIN o.answers) <= MaxAnswers)
  <2>1. PICK kept \in SUBSET DOMAIN o.answers :
          d.answers = [t \in DOMAIN o.answers |-> IF t \in kept THEN o.answers[t] ELSE -1]
    BY DEF LeftOf
  <2> DEFINE e == [o EXCEPT !.answers = d.answers]
  <2>2. IsContent(e) /\ e.answers = d.answers /\ SameButAnswers(o, e)
    BY OtherAnswers
  <2> HIDE DEF e
  <2>3. SameButAnswers(d, e)
    BY <2>2 DEF SameButAnswers
  <2>4. d = e
    BY <2>2, <2>3, SameAnswersToo
  <2> DEFINE S == {[t \in DOMAIN o.answers |-> IF t \in k THEN o.answers[t] ELSE -1] :
                    k \in SUBSET DOMAIN o.answers}
  <2>5. d.answers \in S
    BY <2>1
  <2>6. Record!Rewritten(o) = {[o EXCEPT !.answers = a] : a \in S}
    BY <1>2, RecordCardinality, Zenon DEF Record!Rewritten
  <2> HIDE DEF S
  <2> QED BY <2>4, <2>5, <2>6 DEF e
<1> QED BY <1>1, <1>2

LEMMA UpdateRewrites ==
    ASSUME NEW in, IsRequest(in), NEW c, IsContent(c), DOMAIN c.text = TextName, c.allday \in BOOLEAN,
           NEW opts \in UpdateOptions(in, c.allday), NEW d, IsContent(d), UpdatedAs(c, opts, d),
           LeftOf(c.answers, d.answers)
    PROVE  /\ Significant(opts) <=> Record!Significant(in)
           /\ \E rule \in Record!RulesMeant(in, c) :
                d \in Record!Rewritten(Record!Overridden(c, in, rule))
<1>1. /\ Significant(opts) <=> Record!Significant(in)
      /\ \E rule \in Record!RulesMeant(in, c) : \E o :
           /\ o = Record!Overridden(c, in, rule) /\ IsContent(o) /\ o.answers = c.answers
           /\ SameButAnswers(o, d)
  BY UpdateIsOverride
<1>2. PICK rule \in Record!RulesMeant(in, c) : \E o :
        o = Record!Overridden(c, in, rule) /\ IsContent(o) /\ o.answers = c.answers /\ SameButAnswers(o, d)
  BY <1>1
<1>3. PICK o :
        o = Record!Overridden(c, in, rule) /\ IsContent(o) /\ o.answers = c.answers /\ SameButAnswers(o, d)
  BY <1>2
<1>4. d \in Record!Rewritten(o)
  BY <1>3, RewrittenAs
<1> QED BY <1>1, <1>3, <1>4

\* An occurrence that is deleted becomes an excluded date, and nothing else changes.
WithSkipped(c, t) == [c EXCEPT !.exdates = @ \cup {t}, !.sequence = @ + 1]

LEMMA SkippedFields ==
    ASSUME NEW c, IsContent(c), NEW t, NEW o, o = WithSkipped(c, t)
    PROVE  /\ o.exdates = c.exdates \cup {t} /\ o.sequence = c.sequence + 1
           /\ o.start = c.start /\ o.end = c.end /\ o.zone = c.zone /\ o.allday = c.allday
           /\ o.rule = c.rule /\ o.original = c.original /\ o.text = c.text
           /\ o.organizer = c.organizer /\ o.conference = c.conference
           /\ o.reminders = c.reminders /\ o.color = c.color /\ o.answers = c.answers
           /\ IsContent(o)
<1>1. c = [start |-> c.start, end |-> c.end, zone |-> c.zone, allday |-> c.allday, rule |-> c.rule,
           exdates |-> c.exdates, original |-> c.original, text |-> c.text,
           organizer |-> c.organizer, answers |-> c.answers, conference |-> c.conference,
           sequence |-> c.sequence, reminders |-> c.reminders, color |-> c.color]
  BY Zenon DEF IsContent
<1>2. o = [start |-> c.start, end |-> c.end, zone |-> c.zone, allday |-> c.allday, rule |-> c.rule,
           exdates |-> c.exdates \cup {t}, original |-> c.original, text |-> c.text,
           organizer |-> c.organizer, answers |-> c.answers, conference |-> c.conference,
           sequence |-> c.sequence + 1, reminders |-> c.reminders, color |-> c.color]
  BY <1>1 DEF WithSkipped
<1>3. /\ o.exdates = c.exdates \cup {t} /\ o.sequence = c.sequence + 1
      /\ o.start = c.start /\ o.end = c.end /\ o.zone = c.zone /\ o.allday = c.allday
      /\ o.rule = c.rule /\ o.original = c.original /\ o.text = c.text
      /\ o.organizer = c.organizer /\ o.conference = c.conference
      /\ o.reminders = c.reminders /\ o.color = c.color /\ o.answers = c.answers
  BY <1>2
<1>4. IsContent(o)
  BY <1>2, <1>3, Zenon DEF IsContent
<1> QED BY <1>3, <1>4

LEMMA SkipRewrites ==
    ASSUME NEW row, IsRow(row), IsCoherent(row), NEW t \in Int, IsAllDay(row) => IsMidnight(t),
           NEW new, new = Updated(row, Skip(t)), NEW c, c = ReadsAs(row), NEW d, d = ReadsAs(new)
    PROVE  d \in Record!Rewritten(WithSkipped(c, t))
<1>1. PICK opts : opts = Skip(t)
  OBVIOUS
<1>2. IsOptions(opts)
  BY <1>1, SkipOptions
<1>3. IsContent(c) /\ IsContent(d)
  BY ReadIsContent
<1>4. UpdatedAs(c, opts, d) /\ LeftOf(c.answers, d.answers)
  BY <1>1, <1>2, UpdatedContent
<1>5. c.allday <=> IsAllDay(row)
  BY ReadFields
<1>6. c.allday \in BOOLEAN /\ c.zone \in Zone
  BY CurrentReads
<1>7. ReadBack(Timed(t, UTC), c.allday) = t
  BY <1>5, <1>6, MidnightReadsBack
<1>8. /\ opts.start = {} /\ opts.end = {} /\ opts.zone = {} /\ opts.rrule = {}
      /\ ~opts.clearRRule /\ opts.addExdates = {Timed(t, UTC)} /\ opts.reminders = {}
      /\ opts.color = {} /\ \A n \in TextName : opts.text[n] = {}
  BY <1>1 DEF Skip, NothingChanged
<1>9. PICK o : o = WithSkipped(c, t)
  OBVIOUS
<1>10. IsContent(o) /\ o.answers = c.answers
  BY <1>3, <1>9, SkippedFields
<1>11. o.exdates = d.exdates
  <2>1. d.exdates = c.exdates \cup {ReadBack(u, c.allday) : u \in opts.addExdates}
    BY <1>4, <1>8 DEF UpdatedAs
  <2>2. {ReadBack(u, c.allday) : u \in opts.addExdates} = {t}
    BY <1>7, <1>8
  <2>3. o.exdates = c.exdates \cup {t}
    BY <1>3, <1>9, SkippedFields
  <2> QED BY <2>1, <2>2, <2>3
<1>12. o.sequence = d.sequence
  <2>1. Significant(opts)
    BY <1>8 DEF Significant
  <2>2. d.sequence = c.sequence + IF Significant(opts) THEN 1 ELSE 0
    BY <1>4 DEF UpdatedAs
  <2>3. o.sequence = c.sequence + 1
    BY <1>3, <1>9, SkippedFields
  <2> QED BY <2>1, <2>2, <2>3
<1>13. c.zone = d.zone
  <2>1. d.zone = (IF c.allday THEN UTC ELSE Or(opts.zone, c.zone))
    BY <1>4 DEF UpdatedAs
  <2>2. PICK v \in Column(row, "DTSTART") : The(Column(row, "DTSTART")) = v
    BY OneDate
  <2>3. IsDateOf(v, c.allday) /\ c.zone = v.zone
    BY <1>5, <2>2, CoherentDates, ReadFields DEF StartTimezone
  <2>4. c.allday => c.zone = UTC
    BY <2>3 DEF IsDateOf
  <2> QED BY <1>6, <1>8, <2>1, <2>4 DEF Or
<1>14. c.text = d.text
  <2>1. c.text = TextsAt(row, Places(row))
    BY ReadFields
  <2>2. c.text = [n \in TextName |-> c.text[n]]
    BY <2>1 DEF TextsAt
  <2>3. d.text = [n \in TextName |-> IF opts.text[n] = {} THEN c.text[n] ELSE Text(The(opts.text[n]))]
    BY <1>4 DEF UpdatedAs
  <2> QED BY <1>8, <2>2, <2>3
<1>15. /\ c.start = d.start /\ c.end = d.end /\ c.allday = d.allday /\ c.rule = d.rule
       /\ c.original = d.original /\ c.organizer = d.organizer /\ c.conference = d.conference
       /\ c.reminders = d.reminders /\ c.color = d.color
  BY <1>4, <1>8 DEF UpdatedAs, Or
<1>16. SameButAnswers(o, d)
  <2>1. /\ o.start = c.start /\ o.end = c.end /\ o.zone = c.zone /\ o.allday = c.allday
        /\ o.rule = c.rule /\ o.original = c.original /\ o.text = c.text
        /\ o.organizer = c.organizer /\ o.conference = c.conference
        /\ o.reminders = c.reminders /\ o.color = c.color
    BY <1>3, <1>9, SkippedFields
  <2> QED BY <1>11, <1>12, <1>13, <1>14, <1>15, <2>1 DEF SameButAnswers
<1> QED BY <1>3, <1>4, <1>9, <1>10, <1>16, RewrittenAs

-----------------------------------------------------------------------------
(* Every step is a step of the record.                                     *)

\* The rows are coherent, and an edited occurrence is all-day as its series is.
Coherent ==
    /\ main # NoRow => IsCoherent(main)
    /\ single # NoRow => IsCoherent(single) /\ (IsAllDay(single) <=> IsAllDay(main))

\* What a step does to the content of the event and of its edited occurrence.
RecordStep(e, x, f, y) ==
    \/ y = x /\ (Record!Made(e, f) \/ Record!Answered(e, f))
    \/ f = e /\ \E in \in Requests : Record!EditedAgain(in, x, y) \/ Record!OccurrenceEdited(in, e, x, y)
    \/ \E in \in Requests : Record!Updated(in, e, x, f, y)
    \/ \E w \in Skips : Record!OccurrenceDeleted(w, e, x, f, y)
    \/ Record!Deleted(e, f, y)

Refined == Coherent' /\ RecordStep(Content(main), Content(single), Content(main'), Content(single'))

LEMMA NoContent == Content(NoRow) = NoRow
BY DEF Content

LEMMA ContentFields ==
    ASSUME NEW row, IsRow(row), NEW c, c = Content(row)
    PROVE  /\ c = ReadsAs(row) /\ IsContent(c) /\ c # NoRow /\ DOMAIN c.text = TextName
           /\ c.allday = IsAllDay(row) /\ c.allday \in BOOLEAN
           /\ c.rule = RRule(row) /\ c.original = RecurrenceID(row)
<1>1. c = ReadsAs(row) /\ c # NoRow
  BY ContentReads, ContentIsSome
<1>2. c.text = TextsAt(row, Places(row))
  BY <1>1, ReadFields
<1>3. DOMAIN c.text = TextName
  BY <1>2 DEF TextsAt
<1>4. c.allday = IsAllDay(row) /\ c.rule = RRule(row) /\ c.original = RecurrenceID(row)
  BY <1>1, ReadFields
<1>5. c.allday \in BOOLEAN
  BY <1>1, CurrentReads
<1> QED BY <1>1, <1>3, <1>4, <1>5, ReadIsContent

LEMMA RuleOfRow ==
    ASSUME NEW row, IsRow(row)
    PROVE  /\ Checked(RRule(row))
           /\ IsCoherent(row) => HasInterval(RRule(row))
<1>1. CASE Column(row, "RRULE") = {}
  <2>1. RRule(row) = NoRule
    BY <1>1 DEF RRule, Or
  <2> QED BY <2>1 DEF Checked, HasInterval, NoRule
<1>2. CASE Column(row, "RRULE") # {}
  <2>1. RRule(row) \in Column(row, "RRULE")
    BY <1>2, OrIsOne DEF RRule
  <2> QED BY <2>1 DEF IsRow, IsSchedule, IsCoherent
<1> QED BY <1>1, <1>2

LEMMA MadeOf ==
    ASSUME NEW row, IsRow(row), RecurrenceID(row) = {}
    PROVE  Record!Made(NoRow, Content(row))
<1>1. PICK c : c = Content(row)
  OBVIOUS
<1>2. c # NoRow /\ c.rule = RRule(row) /\ c.original = {}
  BY <1>1, ContentFields
<1>3. Record!Checked(c.rule)
  BY <1>2, RuleOfRow, RecordLimits
<1> QED BY <1>1, <1>2, <1>3 DEF Record!Made

LEMMA CreateRefines ==
    ASSUME IInv, Steps, NEW keys \in SUBSET Key, NEW in \in Creates, CreateEvent(in, keys)
    PROVE  Refined
<1>1. PICK e \in CreateOptions(in), key \in keys : main' = Create(e, key)
  BY DEF CreateEvent
<1>2. main = NoRow /\ single = NoRow /\ single' = NoRow
  BY DEF CreateEvent, IInv
<1>3. IsFresh(e) /\ e.original = {}
  BY CreateFields, RequestsAssumption DEF RequestsAssumption
<1>4. IsCoherent(main')
  BY <1>1, <1>3, NewContent
<1>5. IsNew(e)
  BY <1>3 DEF IsFresh
<1>6. IsRow(main') /\ RecurrenceID(main') = {parseDateTime(DateValue(t, e.zone, e.allday)) : t \in e.original}
  BY <1>1, <1>5, NewRow
<1>7. RecurrenceID(main') = {}
  BY <1>3, <1>6
<1>8. Coherent'
  BY <1>2, <1>4 DEF Coherent
<1> QED BY <1>2, <1>6, <1>7, <1>8, MadeOf, NoContent DEF Refined, RecordStep

LEMMA AppRefines ==
    ASSUME IInv, AppCreates
    PROVE  Refined
<1>1. main = NoRow /\ single = NoRow /\ single' = NoRow /\ main' \in AppRows
  BY DEF AppCreates, IInv
<1>2. IsRow(main') /\ IsCoherent(main') /\ RecurrenceID(main') = {}
  BY <1>1, AppRowsAssumption DEF AppRowsAssumption
<1>3. Coherent'
  BY <1>1, <1>2 DEF Coherent
<1> QED BY <1>1, <1>2, <1>3, MadeOf, NoContent DEF Refined, RecordStep

LEMMA DeleteRefines ==
    ASSUME IInv, DeleteEvent
    PROVE  Refined
<1>1. main # NoRow /\ main' = NoRow /\ single' = NoRow
  BY DEF DeleteEvent
<1>2. Content(main) # NoRow
  BY <1>1, ContentIsSome DEF IInv
<1>3. Coherent'
  BY <1>1 DEF Coherent
<1> QED BY <1>1, <1>2, <1>3, NoContent DEF Refined, RecordStep, Record!Deleted

\* An update of a row that is there.
LEMMA RowUpdated ==
    ASSUME NEW row, IsRow(row), IsCoherent(row), NEW in \in Requests,
           NEW opts \in UpdateOptions(in, IsAllDay(row)), NEW new, new = Updated(row, opts)
    PROVE  /\ Significant(opts) <=> Record!Significant(in)
           /\ \E rule \in Record!RulesMeant(in, Content(row)) :
                Content(new) \in Record!Rewritten(Record!Overridden(Content(row), in, rule))
           /\ IsCoherent(new) /\ (IsAllDay(new) <=> IsAllDay(row))
<1>1. IsRequest(in)
  BY RequestsAssumption DEF RequestsAssumption
<1>2. IsAllDay(row) \in BOOLEAN
  BY AllDayType
<1>3. IsOptions(opts)
  BY <1>1, <1>2, UpdateOptionsType
<1>4. IsRow(new)
  BY <1>3, UpdatedRow
<1>5. PICK c, d : c = Content(row) /\ d = Content(new)
  OBVIOUS
<1>6. /\ c = ReadsAs(row) /\ IsContent(c) /\ DOMAIN c.text = TextName
      /\ c.allday = IsAllDay(row) /\ c.allday \in BOOLEAN
  BY <1>5, ContentFields
<1>7. d = ReadsAs(new) /\ IsContent(d)
  BY <1>4, <1>5, ContentFields
<1>8. UpdatedAs(c, opts, d) /\ LeftOf(c.answers, d.answers)
  BY <1>3, <1>6, <1>7, UpdatedContent
<1>9. opts \in UpdateOptions(in, c.allday)
  BY <1>6
<1>10. /\ Significant(opts) <=> Record!Significant(in)
       /\ \E rule \in Record!RulesMeant(in, c) :
            d \in Record!Rewritten(Record!Overridden(c, in, rule))
  BY <1>1, <1>6, <1>7, <1>8, <1>9, UpdateRewrites
<1>11. \A rule \in opts.rrule : HasInterval(rule)
  BY <1>1, <1>2, AskedOptions
<1>12. IsCoherent(new) /\ (IsAllDay(new) <=> IsAllDay(row))
  BY <1>3, <1>11, UpdatedCoherent
<1> QED BY <1>5, <1>10, <1>12

LEMMA UpdateRefines ==
    ASSUME IInv, Coherent, NEW keys \in SUBSET Key, NEW in \in Requests, UpdateEvent(in, keys)
    PROVE  Refined
<1>1. PICK opts \in UpdateOptions(in, IsAllDay(main)) :
        /\ main' = Updated(main, opts)
        /\ single' = IF IsMaster(main) /\ Significant(opts) THEN NoRow ELSE single
  BY DEF UpdateEvent
<1>2. main # NoRow /\ in.occurrence = {} /\ IsRow(main) /\ RecurrenceID(main) = {} /\ IsCoherent(main)
  BY DEF UpdateEvent, IInv, Coherent
<1>3. /\ Significant(opts) <=> Record!Significant(in)
      /\ \E rule \in Record!RulesMeant(in, Content(main)) :
           Content(main') \in Record!Rewritten(Record!Overridden(Content(main), in, rule))
      /\ IsCoherent(main') /\ (IsAllDay(main') <=> IsAllDay(main))
  BY <1>1, <1>2, RowUpdated
<1>4. Coherent'
  BY <1>1, <1>3 DEF Coherent
<1>5. PICK e, x, y : e = Content(main) /\ x = Content(single) /\ y = Content(single')
  OBVIOUS
<1>6. e # NoRow /\ e.rule = RRule(main)
  BY <1>2, <1>5, ContentFields
<1>7. y = IF e.rule # NoRule /\ Record!Significant(in) THEN NoRow ELSE x
  <2>1. IsMaster(main) <=> e.rule # NoRule
    BY <1>2, <1>6 DEF IsMaster
  <2> QED BY <1>1, <1>3, <1>5, <2>1, NoContent
<1>8. Record!Updated(in, e, x, Content(main'), y)
  BY <1>2, <1>3, <1>5, <1>6, <1>7 DEF Record!Updated, Record!NoRule, NoRule
<1> QED BY <1>4, <1>5, <1>8 DEF Refined, RecordStep

LEMMA SingleRefines ==
    ASSUME IInv, Coherent, NEW keys \in SUBSET Key, NEW in \in Requests, UpdateSingle(in, keys)
    PROVE  Refined
<1>1. PICK opts \in UpdateOptions(in, IsAllDay(single)) : single' = Updated(single, opts)
  BY DEF UpdateSingle
<1>2. /\ single # NoRow /\ main' = main /\ main # NoRow /\ IsRow(single) /\ IsCoherent(main)
      /\ IsCoherent(single) /\ (IsAllDay(single) <=> IsAllDay(main))
  BY DEF UpdateSingle, IInv, Coherent
<1>3. /\ \E rule \in Record!RulesMeant(in, Content(single)) :
           Content(single') \in Record!Rewritten(Record!Overridden(Content(single), in, rule))
      /\ IsCoherent(single') /\ (IsAllDay(single') <=> IsAllDay(single))
  BY <1>1, <1>2, RowUpdated
<1>4. Coherent'
  BY <1>2, <1>3 DEF Coherent
<1>5. Content(single) # NoRow /\ Content(single).original = RecurrenceID(single)
  BY <1>2, ContentFields
<1>6. ASSUME in.occurrence # {}
      PROVE  Content(single).original = {Record!OriginalStart(in)}
  <2>1. RecurrenceID(single) = {parseWhen(w, Or(in.zone, HomeZone)).at : w \in in.occurrence}
    BY <1>6 DEF UpdateSingle
  <2>2. IsRequest(in)
    BY RequestsAssumption DEF RequestsAssumption
  <2>3. PICK w : in.occurrence = {w}
    BY <1>6, <2>2 DEF IsRequest, AtMostOne
  <2>4. The(in.occurrence) = w
    BY <2>3, TheOnly
  <2>5. Record!OriginalStart(in) = parseWhen(w, Or(in.zone, HomeZone)).at
    BY <2>4, RecordOr, RecordWhen DEF Record!OriginalStart, Record!Given
  <2>6. RecurrenceID(single) = {parseWhen(w, Or(in.zone, HomeZone)).at}
    BY <2>1, <2>3
  <2> QED BY <1>5, <2>5, <2>6
<1>7. Record!EditedAgain(in, Content(single), Content(single'))
  BY <1>3, <1>5, <1>6 DEF Record!EditedAgain
<1> QED BY <1>2, <1>4, <1>7 DEF Refined, RecordStep

LEMMA SlotIsMidnight ==
    ASSUME NEW row, IsRow(row), IsCoherent(row), IsAllDay(row), NEW t \in Int,
           \/ RecurrenceID(row) = {t}
           \/ RRule(row) # NoRule /\ Generates(RRule(row), parseDateTime(The(Column(row, "DTSTART"))), t)
    PROVE  IsMidnight(t)
<1>1. CASE RecurrenceID(row) = {t}
  <2>1. PICK v \in Column(row, "RECURRENCE-ID") : parseDateTime(v) = t
    BY <1>1 DEF RecurrenceID
  <2>2. IsDateOf(v, TRUE)
    BY CoherentDates
  <2> QED BY <2>1, <2>2, DateIsMidnight
<1>2. CASE RRule(row) # NoRule /\ Generates(RRule(row), parseDateTime(The(Column(row, "DTSTART"))), t)
  <2>1. PICK v \in Column(row, "DTSTART") : The(Column(row, "DTSTART")) = v
    BY OneDate
  <2>2. IsDateOf(v, TRUE)
    BY CoherentDates
  <2>3. PICK start \in Int : start = parseDateTime(v) /\ IsMidnight(start)
    BY <2>2, DateIsMidnight
  <2>4. HasInterval(RRule(row)) /\ Generates(RRule(row), start, t)
    BY <1>2, <2>1, <2>3, RuleOfRow
  <2> QED BY <2>3, <2>4, OccurrenceIsMidnight
<1> QED BY <1>1, <1>2

LEMMA SkipCoherent ==
    ASSUME NEW row, IsRow(row), IsCoherent(row), NEW t \in Int, NEW new, new = Updated(row, Skip(t))
    PROVE  IsCoherent(new) /\ (IsAllDay(new) <=> IsAllDay(row)) /\ IsRow(new)
<1>1. IsOptions(Skip(t))
  BY SkipOptions
<1>2. \A rule \in Skip(t).rrule : HasInterval(rule)
  BY DEF Skip
<1> QED BY <1>1, <1>2, UpdatedCoherent, UpdatedRow

LEMMA SkipRefines ==
    ASSUME IInv, Coherent, NEW keys \in SUBSET Key, NEW w \in Skips, DeleteOccurrence(w, keys)
    PROVE  Refined
<1> DEFINE t == parseWhen(w, HomeZone).at
           edited == single # NoRow /\ RecurrenceID(single) = {t}
<1>1. /\ main # NoRow /\ IsMaster(main)
      /\ \/ edited
         \/ /\ Generates(RRule(main), parseDateTime(The(Column(main, "DTSTART"))), t)
            /\ t \notin {parseDateTime(v) : v \in Column(main, "EXDATE")}
      /\ main' = Updated(main, Skip(t)) /\ single' = IF edited THEN NoRow ELSE single
  BY DEF DeleteOccurrence
<1>2. t \in Int
  BY WhenType, RequestsAssumption, ConstantsAssumption
  DEF RequestsAssumption, ConstantsAssumption, Instant
<1>3. Record!parseWhen(w, HomeZone).at = t
  BY RecordWhen
<1> HIDE DEF t
<1>4. /\ IsRow(main) /\ IsCoherent(main)
      /\ single # NoRow => IsRow(single) /\ IsCoherent(single) /\ (IsAllDay(single) <=> IsAllDay(main))
  BY <1>1 DEF IInv, Coherent
<1>5. RRule(main) # NoRule
  BY <1>1 DEF IsMaster
<1>6. IsAllDay(main) => IsMidnight(t)
  <2>1. CASE edited
    BY <1>2, <1>4, <2>1, SlotIsMidnight
  <2>2. CASE ~edited
    BY <1>1, <1>2, <1>4, <1>5, <2>2, SlotIsMidnight
  <2> QED BY <2>1, <2>2
<1>7. IsCoherent(main') /\ (IsAllDay(main') <=> IsAllDay(main)) /\ IsRow(main')
  BY <1>1, <1>2, <1>4, SkipCoherent
<1>8. Coherent'
  BY <1>1, <1>4, <1>7 DEF Coherent
<1>9. PICK e, x, f, y : e = Content(main) /\ x = Content(single) /\ f = Content(main') /\ y = Content(single')
  OBVIOUS
<1>10. f \in Record!Rewritten(WithSkipped(e, t))
  <2>1. e = ReadsAs(main) /\ f = ReadsAs(main')
    BY <1>4, <1>7, <1>9, ContentFields
  <2> QED BY <1>1, <1>2, <1>4, <1>6, <2>1, SkipRewrites
<1>11. e # NoRow /\ e.rule # NoRule
  BY <1>4, <1>5, <1>9, ContentFields
<1>12. x # NoRow /\ x.original = {t} <=> edited
  <2>1. CASE single = NoRow
    BY <1>9, <2>1, NoContent
  <2>2. CASE single # NoRow
    BY <1>4, <1>9, <2>2, ContentFields
  <2> QED BY <2>1, <2>2
<1>13. y = IF x # NoRow /\ x.original = {t} THEN NoRow ELSE x
  BY <1>1, <1>9, <1>12, NoContent
<1>14. Record!OccurrenceDeleted(w, e, x, f, y)
  BY <1>3, <1>10, <1>11, <1>13 DEF Record!OccurrenceDeleted, WithSkipped, Record!NoRule, NoRule
<1> QED BY <1>8, <1>9, <1>14 DEF Refined, RecordStep

LEMMA SameCardsRead ==
    ASSUME NEW r, NEW q, q.cards = r.cards
    PROVE  /\ \A n : Latest(q, Places(q), n) = Latest(r, Places(r), n)
           /\ \A n : AllOf(q, Places(q), n) = AllOf(r, Places(r), n)
           /\ assembleConference(q, Places(q)) = assembleConference(r, Places(r))
           /\ TextsAt(q, Places(q)) = TextsAt(r, Places(r))
<1>1. /\ Places(q) = Places(r) /\ \A i, n : Values(q, i, n) = Values(r, i, n)
      /\ \A at, n : Giving(q, at, n) = Giving(r, at, n)
  BY SameCards
<1>2. \A n : Latest(q, Places(q), n) = Latest(r, Places(r), n)
  BY <1>1 DEF Latest
<1>3. \A n : AllOf(q, Places(q), n) = AllOf(r, Places(r), n)
  BY <1>1 DEF AllOf
<1>4. assembleConference(q, Places(q)) = assembleConference(r, Places(r))
  BY <1>2 DEF assembleConference
<1>5. TextsAt(q, Places(q)) = TextsAt(r, Places(r))
  <2>1. ASSUME NEW n \in TextName
        PROVE  TextsAt(q, Places(q))[n] = TextsAt(r, Places(r))[n]
    <3>1. PICK hidden : hidden = (n = "DESCRIPTION" /\ assembleConference(r, Places(r)) # {})
      OBVIOUS
    <3>2. TextsAt(r, Places(r))[n] = Masked(Or(Latest(r, Places(r), n), Text("")), hidden)
      BY <3>1, TextsAre
    <3>3. TextsAt(q, Places(q))[n] = Masked(Or(Latest(q, Places(q), n), Text("")), hidden)
      BY <1>4, <3>1, TextsAre
    <3> QED BY <1>2, <3>2, <3>3
  <2>2. /\ TextsAt(q, Places(q)) = [n \in TextName |-> TextsAt(q, Places(q))[n]]
        /\ TextsAt(r, Places(r)) = [n \in TextName |-> TextsAt(r, Places(r))[n]]
    BY DEF TextsAt
  <2> QED BY <2>1, <2>2, Zenon
<1> QED BY <1>2, <1>3, <1>4, <1>5

\* A row with other answers reads as before but for those.
LEMMA OnlyAnswers ==
    ASSUME NEW row, IsRow(row), IsCoherent(row), NEW new, new.cards = row.cards,
           new.notifications = row.notifications, new.color = row.color,
           DOMAIN new.answers = DOMAIN row.answers, NEW c, c = ReadsAs(row), NEW d, d = ReadsAs(new)
    PROVE  /\ SameButAnswers(c, d) /\ IsCoherent(new) /\ (IsAllDay(new) <=> IsAllDay(row))
<1>1. /\ Places(new) = Places(row) /\ \A i, n : Values(new, i, n) = Values(row, i, n)
      /\ \A n : Column(new, n) = Column(row, n)
  BY SameCards
<1>2. /\ \A n : Latest(new, Places(new), n) = Latest(row, Places(row), n)
      /\ AllOf(new, Places(new), "ATTENDEE") = AllOf(row, Places(row), "ATTENDEE")
      /\ assembleConference(new, Places(new)) = assembleConference(row, Places(row))
      /\ TextsAt(new, Places(new)) = TextsAt(row, Places(row))
  BY SameCardsRead
<1>3. /\ StartTimezone(new) = StartTimezone(row) /\ IsAllDay(new) = IsAllDay(row)
      /\ RRule(new) = RRule(row) /\ RecurrenceID(new) = RecurrenceID(row)
  BY <1>1 DEF StartTimezone, IsAllDay, RRule, RecurrenceID
<1>4. /\ d.start = parseDateTime(The(Column(row, "DTSTART")))
      /\ d.end = parseDateTime(The(Column(row, "DTEND")))
      /\ d.zone = StartTimezone(row) /\ d.allday = IsAllDay(row) /\ d.rule = RRule(row)
      /\ d.exdates = {parseDateTime(v) : v \in Column(row, "EXDATE")}
      /\ d.original = RecurrenceID(row) /\ d.text = TextsAt(row, Places(row))
      /\ d.organizer = Latest(row, Places(row), "ORGANIZER")
      /\ d.conference = assembleConference(row, Places(row))
      /\ d.sequence = Or(Column(row, "SEQUENCE"), 0)
      /\ d.reminders = row.notifications /\ d.color = row.color
  BY <1>1, <1>2, <1>3 DEF ReadsAs
<1>5. SameButAnswers(c, d)
  <2>1. /\ c.start = parseDateTime(The(Column(row, "DTSTART")))
        /\ c.end = parseDateTime(The(Column(row, "DTEND")))
        /\ c.zone = StartTimezone(row) /\ c.allday = IsAllDay(row) /\ c.rule = RRule(row)
        /\ c.exdates = {parseDateTime(v) : v \in Column(row, "EXDATE")}
        /\ c.original = RecurrenceID(row) /\ c.text = TextsAt(row, Places(row))
        /\ c.organizer = Latest(row, Places(row), "ORGANIZER")
        /\ c.conference = assembleConference(row, Places(row))
        /\ c.sequence = Or(Column(row, "SEQUENCE"), 0)
        /\ c.reminders = row.notifications /\ c.color = row.color
    BY ReadFields
  <2> QED BY <1>4, <2>1 DEF SameButAnswers
<1>6. IsCoherent(new)
  BY <1>1, <1>2, <1>3 DEF IsCoherent
<1> QED BY <1>3, <1>5, <1>6

LEMMA AnswerRefines ==
    ASSUME IInv, Coherent, NEW t \in Token, NEW s \in Status, Answer(t, s)
    PROVE  Refined
<1>1. /\ main # NoRow /\ main' = [main EXCEPT !.answers[t] = s] /\ single' = single
      /\ t \in DOMAIN main.answers
  BY DEF Answer
<1>2. IsRow(main) /\ IsCoherent(main)
  BY <1>1 DEF IInv, Coherent
<1>3. DOMAIN main = {"cards", "answers", "notifications", "color", "key"} /\ DOMAIN main.answers \subseteq Token
  BY <1>2 DEF IsRow
<1> DEFINE answers == [main.answers EXCEPT ![t] = s]
<1>4. /\ main' = [main EXCEPT !.answers = answers] /\ DOMAIN answers = DOMAIN main.answers
      /\ answers[t] = s /\ \A u \in DOMAIN main.answers \ {t} : answers[u] = main.answers[u]
  BY <1>1
<1> HIDE DEF answers
<1>5. /\ main'.cards = main.cards /\ main'.key = main.key /\ DOMAIN main' = DOMAIN main
      /\ main'.answers = answers
      /\ main'.notifications = main.notifications /\ main'.color = main.color
  BY <1>3, <1>4
<1>6. IsRow(main')
  BY <1>2, <1>3, <1>4, <1>5, SameCardsSameRow
<1>7. PICK e, f : e = Content(main) /\ f = Content(main')
  OBVIOUS
<1>8. e = ReadsAs(main) /\ IsContent(e) /\ e # NoRow
  BY <1>2, <1>7, ContentFields
<1>9. f = ReadsAs(main') /\ IsContent(f)
  BY <1>6, <1>7, ContentFields
<1>10. SameButAnswers(e, f) /\ IsCoherent(main') /\ (IsAllDay(main') <=> IsAllDay(main))
  BY <1>2, <1>4, <1>5, <1>8, <1>9, OnlyAnswers
<1>11. Coherent'
  BY <1>1, <1>10 DEF Coherent
<1>12. PICK tokens : tokens = AllOf(main, Places(main), "ATTENDEE")
  OBVIOUS
<1>13. tokens = AllOf(main', Places(main'), "ATTENDEE")
  BY <1>5, <1>12, SameCardsRead
<1>14. /\ e.answers = [u \in tokens |-> IF u \in DOMAIN main.answers THEN main.answers[u] ELSE -1]
       /\ f.answers = [u \in tokens |-> IF u \in DOMAIN answers THEN answers[u] ELSE -1]
  <2>1. e.answers = enrichAttendeeStatus(tokens, main.answers)
    BY <1>8, <1>12, ReadFields
  <2>2. f.answers = enrichAttendeeStatus(tokens, answers)
    BY <1>5, <1>9, <1>13, ReadFields
  <2> QED BY <2>1, <2>2 DEF enrichAttendeeStatus
<1>15. t \in tokens
  BY <1>1, <1>2, <1>12 DEF IsCoherent
<1>16. t \in DOMAIN e.answers /\ f.answers = [e.answers EXCEPT ![t] = s]
  <2>1. DOMAIN e.answers = tokens
    BY <1>14
  <2>2. \A u \in tokens : f.answers[u] = IF u = t THEN s ELSE e.answers[u]
    BY <1>1, <1>4, <1>14
  <2>3. [e.answers EXCEPT ![t] = s] = [u \in tokens |-> IF u = t THEN s ELSE e.answers[u]]
    BY <1>14, <1>15
  <2>4. f.answers = [u \in tokens |-> f.answers[u]]
    BY <1>14
  <2> QED BY <1>15, <2>1, <2>2, <2>3, <2>4
<1>17. f = [e EXCEPT !.answers[t] = s]
  <2> DEFINE g == [e EXCEPT !.answers = f.answers]
  <2>1. IsContent(g) /\ g.answers = f.answers /\ SameButAnswers(e, g)
    BY <1>8, OtherAnswers
  <2> HIDE DEF g
  <2>2. SameButAnswers(f, g)
    BY <1>10, <2>1 DEF SameButAnswers
  <2>3. f = g
    BY <1>9, <2>1, <2>2, SameAnswersToo
  <2>4. g = [e EXCEPT !.answers = [e.answers EXCEPT ![t] = s]]
    BY <1>16 DEF g
  <2> QED BY <2>3, <2>4
<1>18. Record!Answered(e, f)
  BY <1>8, <1>16, <1>17 DEF Record!Answered
<1> QED BY <1>1, <1>7, <1>11, <1>18 DEF Refined, RecordStep

\* What the record makes of an occurrence edited for the first time, when
\* people and conference are left behind.
CopyAt(e, t) == [e EXCEPT !.start = t, !.end = t + e.end - e.start,
                          !.rule = NoRule, !.exdates = {}, !.original = {t}]

LEMMA CopyFields ==
    ASSUME NEW e, IsContent(e), NEW t, NEW c, c = CopyAt(e, t)
    PROVE  /\ c.start = t /\ c.end = t + e.end - e.start /\ c.exdates = {} /\ c.original = {t}
           /\ c.zone = e.zone /\ c.allday = e.allday /\ c.text = e.text
           /\ c.reminders = e.reminders /\ c.color = e.color
           /\ IsContent(c)
<1>1. e = [start |-> e.start, end |-> e.end, zone |-> e.zone, allday |-> e.allday, rule |-> e.rule,
           exdates |-> e.exdates, original |-> e.original, text |-> e.text,
           organizer |-> e.organizer, answers |-> e.answers, conference |-> e.conference,
           sequence |-> e.sequence, reminders |-> e.reminders, color |-> e.color]
  BY Zenon DEF IsContent
<1>2. PICK end : end = t + e.end - e.start
  OBVIOUS
<1>3. c = [start |-> t, end |-> end, zone |-> e.zone, allday |-> e.allday, rule |-> NoRule,
           exdates |-> {}, original |-> {t}, text |-> e.text,
           organizer |-> e.organizer, answers |-> e.answers, conference |-> e.conference,
           sequence |-> e.sequence, reminders |-> e.reminders, color |-> e.color]
  BY <1>1, <1>2 DEF CopyAt
<1>4. /\ c.start = t /\ c.end = end /\ c.exdates = {} /\ c.original = {t} /\ c.rule = NoRule
      /\ c.zone = e.zone /\ c.allday = e.allday /\ c.text = e.text
      /\ c.reminders = e.reminders /\ c.color = e.color
      /\ c.organizer = e.organizer /\ c.answers = e.answers /\ c.conference = e.conference
      /\ c.sequence = e.sequence
  BY <1>3
<1>5. IsContent(c)
  BY <1>3, <1>4, Zenon DEF IsContent
<1> QED BY <1>2, <1>4, <1>5

\* The content y is such a copy.
IsCopy(y, e, in, t) ==
    /\ IsContent(y) /\ y.allday = e.allday /\ y.rule = NoRule /\ y.exdates = {} /\ y.original = {t}
    /\ MovedAsAsked(in, e, in.start, t, y.start)
    /\ in.end = {} => y.end = y.start + e.end - e.start
    /\ \A w \in in.end : y.end = ReadBack(parseWhen(w, Or(in.zone, HomeZone)), e.allday)
    /\ y.zone = IF e.allday THEN UTC ELSE Or(Record!ZoneGiven(in), e.zone)
    /\ y.text = MeantText(in.text, e)
    /\ y.organizer = {} /\ y.answers = <<>> /\ y.conference = {}
    /\ y.sequence = e.sequence /\ y.reminders = Or(in.reminders, e.reminders)
    /\ y.color = MeantColor(in, e)

LeavingBehind(e, end, sequence, organizer, answers, conference) ==
    [e EXCEPT !.end = end, !.sequence = sequence, !.organizer = organizer,
              !.answers = answers, !.conference = conference]

LEMMA LeftBehind ==
    ASSUME NEW e, IsContent(e), NEW end, NEW sequence, NEW organizer, NEW answers, NEW conference,
           NEW f, f = LeavingBehind(e, end, sequence, organizer, answers, conference)
    PROVE  f = [start |-> e.start, end |-> end, zone |-> e.zone, allday |-> e.allday,
                rule |-> e.rule, exdates |-> e.exdates, original |-> e.original, text |-> e.text,
                organizer |-> organizer, answers |-> answers, conference |-> conference,
                sequence |-> sequence, reminders |-> e.reminders, color |-> e.color]
<1>1. e = [start |-> e.start, end |-> e.end, zone |-> e.zone, allday |-> e.allday, rule |-> e.rule,
           exdates |-> e.exdates, original |-> e.original, text |-> e.text,
           organizer |-> e.organizer, answers |-> e.answers, conference |-> e.conference,
           sequence |-> e.sequence, reminders |-> e.reminders, color |-> e.color]
  BY Zenon DEF IsContent
<1> QED BY <1>1 DEF LeavingBehind

LEMMA Copied ==
    ASSUME NEW e, IsContent(e), NEW in, IsRequest(in), NEW t, NEW y, IsCopy(y, e, in, t)
    PROVE  y \in Record!Copies(e, in, t)
<1>1. PICK c : c = CopyAt(e, t)
  OBVIOUS
<1>2. PICK new : new = Record!Overridden(c, in, Record!NoRule)
  OBVIOUS
<1> DEFINE length == IF in.end # {} THEN new.end ELSE new.start + e.end - e.start
           Left(p) == [new EXCEPT !.end = length, !.sequence = e.sequence, !.organizer = p[1],
                                  !.answers = p[2], !.conference = p[3]]
           left == LeavingBehind(new, length, e.sequence, {}, <<>>, {})
<1>3. left \in Record!Copies(e, in, t)
  <2>1. Record!Copies(e, in, t) =
          {Left(p) : p \in {<<e.organizer, e.answers, e.conference>>, <<{}, <<>>, {}>>}}
    BY <1>1, <1>2, Zenon DEF Record!Copies, CopyAt, Record!NoRule, NoRule
  <2>2. Left(<<{}, <<>>, {}>>) = left
    BY DEF LeavingBehind
  <2> HIDE DEF Left, left
  <2> QED BY <2>1, <2>2
<1>4. IsContent(c) /\ c.start = t /\ c.exdates = {} /\ c.original = {t}
  BY <1>1, CopyFields
<1>5. /\ c.zone = e.zone /\ c.allday = e.allday /\ c.text = e.text
      /\ c.reminders = e.reminders /\ c.color = e.color
  BY <1>1, CopyFields
<1>6. IsOverridden(new, c, in, Record!NoRule)
  BY <1>2, <1>4, OverriddenFields
<1>7. IsContent(new)
  BY <1>6 DEF IsOverridden
<1>8. new.start = y.start
  <2>1. MovedAsAsked(in, c, in.start, t, y.start)
    BY <1>5, Zenon DEF IsCopy, MovedAsAsked
  <2>2. Or(MeantTimes(in, c, in.start), t) = y.start
    BY <2>1, MeantTime
  <2> QED BY <1>4, <1>6, <2>2 DEF IsOverridden
<1>9. length = y.end
  <2>1. CASE in.end = {}
    BY <1>8, <2>1 DEF IsCopy
  <2>2. CASE in.end # {}
    <3>1. MovedAsAsked(in, c, in.end, c.end, y.end)
      BY <1>5, <2>2, Zenon DEF IsCopy, MovedAsAsked
    <3>2. Or(MeantTimes(in, c, in.end), c.end) = y.end
      BY <3>1, MeantTime
    <3> QED BY <1>6, <2>2, <3>2 DEF IsOverridden
  <2> QED BY <2>1, <2>2
<1>10. new.zone = y.zone /\ new.allday = y.allday
  BY <1>5, <1>6 DEF IsOverridden, IsCopy
<1>11. new.text = y.text
  <2>1. new.text = MeantText(in.text, c)
    BY <1>6 DEF IsOverridden
  <2>2. y.text = MeantText(in.text, e)
    BY DEF IsCopy
  <2> QED BY <1>5, <2>1, <2>2, Zenon DEF MeantText
<1>12. new.rule = y.rule /\ new.exdates = y.exdates /\ new.original = y.original
  BY <1>4, <1>6 DEF IsOverridden, IsCopy, Record!NoRule, NoRule
<1>13. new.reminders = y.reminders /\ new.color = y.color
  <2>1. new.reminders = Or(in.reminders, c.reminders) /\ new.color = MeantColor(in, c)
    BY <1>6 DEF IsOverridden
  <2>2. y.reminders = Or(in.reminders, e.reminders) /\ y.color = MeantColor(in, e)
    BY DEF IsCopy
  <2> QED BY <1>5, <2>1, <2>2, Zenon DEF MeantColor
<1>14. IsContent(y) /\ y.organizer = {} /\ y.answers = <<>> /\ y.conference = {} /\ y.sequence = e.sequence
  BY DEF IsCopy
<1> HIDE DEF length
<1>15. left = y
  <2>1. PICK end, sequence, organizer, answers, conference, f :
          /\ end = length /\ sequence = e.sequence
          /\ organizer = {} /\ answers = <<>> /\ conference = {} /\ f = left
    OBVIOUS
  <2>2. f = LeavingBehind(new, end, sequence, organizer, answers, conference)
    BY <2>1, Zenon
  <2>3. f = [start |-> new.start, end |-> end, zone |-> new.zone, allday |-> new.allday,
             rule |-> new.rule, exdates |-> new.exdates, original |-> new.original,
             text |-> new.text, organizer |-> organizer, answers |-> answers,
             conference |-> conference, sequence |-> sequence,
             reminders |-> new.reminders, color |-> new.color]
    BY <1>7, <2>2, LeftBehind
  <2> HIDE DEF left
  <2>4. f = [start |-> y.start, end |-> y.end, zone |-> y.zone, allday |-> y.allday,
             rule |-> y.rule, exdates |-> y.exdates, original |-> y.original,
             text |-> y.text, organizer |-> y.organizer, answers |-> y.answers,
             conference |-> y.conference, sequence |-> y.sequence,
             reminders |-> y.reminders, color |-> y.color]
    BY <1>8, <1>9, <1>10, <1>11, <1>12, <1>13, <1>14, <2>1, <2>3, Zenon
  <2> QED BY <1>14, <2>1, <2>4, Zenon DEF IsContent
<1> QED BY <1>3, <1>15

LEMMA TextIsText ==
    ASSUME NEW row, IsRow(row), IsCoherent(row), NEW n \in TextName
    PROVE  IsText(TextsAt(row, Places(row))[n])
<1>1. PICK q : q \in Places(row) /\ q \in Nat /\ SharedEncrypted(row) = {q}
  BY PrivatePlace
<1>2. PICK t : t = Or(Latest(row, Places(row), n), Text(""))
  OBVIOUS
<1>3. IsText(t)
  <2>1. CASE Latest(row, Places(row), n) = {}
    BY <1>2, <2>1 DEF Or, IsText, Text
  <2>2. CASE Latest(row, Places(row), n) # {}
    <3>1. t \in Values(row, q, n)
      BY <1>1, <1>2, <2>2, OrIsOne, TextAt
    <3> QED BY <1>1, <3>1 DEF IsCoherent
  <2> QED BY <2>1, <2>2
<1>4. PICK hidden : hidden = (n = "DESCRIPTION" /\ assembleConference(row, Places(row)) # {})
  OBVIOUS
<1>5. TextsAt(row, Places(row))[n] = Masked(t, hidden)
  BY <1>2, <1>4, TextsAre
<1>6. PICK block \in BOOLEAN : t = [own |-> t.own, block |-> block]
  BY <1>3 DEF IsText
<1>7. hidden \in BOOLEAN
  BY <1>4
<1>8. Masked(t, hidden) = [own |-> t.own, block |-> block /\ ~hidden]
  BY <1>6 DEF Masked
<1>9. PICK m : m = Masked(t, hidden)
  OBVIOUS
<1>10. m = [own |-> m.own, block |-> block /\ ~hidden] /\ (block /\ ~hidden) \in BOOLEAN
  BY <1>6, <1>7, <1>8, <1>9
<1>11. IsText(m)
  BY <1>10 DEF IsText
<1> QED BY <1>5, <1>9, <1>11

\* What an occurrence's row is seeded with.
SeedText(e, opts) == [n \in TextName |-> Or({Text(own) : own \in opts.text[n]}, e.text[n])]

LEMMA SeedFields ==
    ASSUME NEW e, NEW opts, NEW t, NEW s, s = seedExceptionRow(e, opts, t)
    PROVE  /\ s.start = Or(opts.start, Timed(t, UTC))
           /\ s.end = Or(opts.end, Timed(s.start.at + e.end - e.start, s.start.zone))
           /\ s.text = SeedText(e, opts)
           /\ s.zone = Or(opts.zone, e.zone) /\ s.allday = e.allday /\ s.rrule = NoRule
           /\ s.original = {Timed(t, UTC)} /\ s.sequence = e.sequence
           /\ s.reminders = Or(opts.reminders, e.reminders)
           /\ s.color = IF opts.color = {} THEN e.color ELSE opts.color
<1>1. PICK text : text = SeedText(e, opts)
  OBVIOUS
<1>2. PICK start : start = Or(opts.start, Timed(t, UTC))
  OBVIOUS
<1>3. PICK end : end = Or(opts.end, Timed(start.at + e.end - e.start, start.zone))
  OBVIOUS
<1>4. PICK color : color = IF opts.color = {} THEN e.color ELSE opts.color
  OBVIOUS
<1>5. s = [text |-> text, start |-> start, end |-> end, zone |-> Or(opts.zone, e.zone),
           allday |-> e.allday, rrule |-> NoRule, original |-> {Timed(t, UTC)},
           sequence |-> e.sequence, reminders |-> Or(opts.reminders, e.reminders), color |-> color]
  BY <1>1, <1>2, <1>3, <1>4, Zenon DEF seedExceptionRow, SeedText
<1>6. /\ s.text = text /\ s.start = start /\ s.end = end /\ s.zone = Or(opts.zone, e.zone)
      /\ s.allday = e.allday /\ s.rrule = NoRule /\ s.original = {Timed(t, UTC)}
      /\ s.sequence = e.sequence /\ s.reminders = Or(opts.reminders, e.reminders)
      /\ s.color = color
  BY <1>5
<1> QED BY <1>1, <1>2, <1>3, <1>4, <1>6

LEMMA SeedTexts ==
    ASSUME NEW e, DOMAIN e.text = TextName, \A n \in TextName : IsText(e.text[n]),
           NEW opts, \A n \in TextName : AtMostOne(opts.text[n])
    PROVE  /\ \A n \in TextName : IsText(SeedText(e, opts)[n])
           /\ SeedText(e, opts) = MeantText(opts.text, e)
<1>1. ASSUME NEW n \in TextName
      PROVE  /\ SeedText(e, opts)[n] = (IF opts.text[n] = {} THEN e.text[n] ELSE Text(The(opts.text[n])))
             /\ IsText(SeedText(e, opts)[n])
  <2>1. SeedText(e, opts)[n] = Or({Text(own) : own \in opts.text[n]}, e.text[n])
    BY DEF SeedText
  <2>2. CASE opts.text[n] = {}
    BY <2>1, <2>2 DEF Or
  <2>3. CASE opts.text[n] # {}
    <3>1. PICK own : opts.text[n] = {own}
      BY <2>3 DEF AtMostOne
    <3>2. The(opts.text[n]) = own
      BY <3>1, TheOnly
    <3>3. {Text(x) : x \in opts.text[n]} = {Text(own)}
      BY <3>1
    <3>4. SeedText(e, opts)[n] = Text(own)
      BY <2>1, <3>3, TheOnly
    <3>5. IsText(Text(own))
      BY DEF IsText, Text
    <3> QED BY <2>3, <3>2, <3>4, <3>5
  <2> QED BY <2>2, <2>3
<1>2. SeedText(e, opts) = [n \in TextName |-> SeedText(e, opts)[n]]
  BY DEF SeedText
<1>3. MeantText(opts.text, e) =
        [n \in TextName |-> IF opts.text[n] = {} THEN e.text[n] ELSE Text(The(opts.text[n]))]
  BY Zenon DEF MeantText
<1> QED BY <1>1, <1>2, <1>3

LEMMA SeedIsCopy ==
    ASSUME NEW row, IsRow(row), IsCoherent(row), NEW e, e = ReadsAs(row), NEW in, IsRequest(in),
           NEW opts \in UpdateOptions(in, e.allday), NEW t \in Int, e.allday => IsMidnight(t),
           NEW s, s = seedExceptionRow(e, opts, t), NEW key \in Key,
           NEW new, new = Create(s, key), NEW y, y = ReadsAs(new)
    PROVE  IsCopy(y, e, in, t) /\ IsCoherent(new) /\ (IsAllDay(new) <=> e.allday)
<1>1. /\ e.start \in Int /\ e.end \in Int /\ e.zone \in Zone /\ e.allday \in BOOLEAN
      /\ e.sequence \in Int
  BY CurrentReads
<1>2. IsOptions(opts) /\ opts.text = in.text
  BY <1>1, UpdateOptionsType
<1>3. e.text = TextsAt(row, Places(row))
  BY ReadFields
<1>4. DOMAIN e.text = TextName /\ \A n \in TextName : IsText(e.text[n])
  BY <1>3, TextIsText DEF TextsAt
<1>5. /\ s.start = Or(opts.start, Timed(t, UTC))
      /\ s.end = Or(opts.end, Timed(s.start.at + e.end - e.start, s.start.zone))
      /\ s.text = SeedText(e, opts)
      /\ s.zone = Or(opts.zone, e.zone) /\ s.allday = e.allday /\ s.rrule = NoRule
      /\ s.original = {Timed(t, UTC)} /\ s.sequence = e.sequence
  BY SeedFields
<1>6. /\ s.reminders = Or(opts.reminders, e.reminders)
      /\ s.color = IF opts.color = {} THEN e.color ELSE opts.color
  BY SeedFields
<1>7. Timed(t, UTC) \in Instant /\ ReadBack(Timed(t, UTC), e.allday) = t
  BY <1>1, MidnightReadsBack
<1>8. s.start \in Instant
  BY <1>2, <1>5, <1>7, OrIsOne DEF IsOptions, Or
<1>9. PICK d \in Int : d = e.end - e.start
  BY <1>1
<1>10. e.allday => IsMidnight(d)
  <2>1. PICK v \in Column(row, "DTSTART") : The(Column(row, "DTSTART")) = v
    BY OneDate
  <2>2. PICK w \in Column(row, "DTEND") : The(Column(row, "DTEND")) = w
    BY OneDate
  <2>3. e.allday <=> IsAllDay(row)
    BY ReadFields
  <2>4. IsDateOf(v, e.allday)
    BY <2>3, CoherentDates
  <2>5. IsDateOf(w, e.allday)
    BY <2>3, CoherentDates
  <2>6. e.start = parseDateTime(v) /\ e.end = parseDateTime(w)
    BY <2>1, <2>2, ReadFields
  <2>7. e.allday => IsMidnight(e.start)
    BY <2>4, <2>6, DateIsMidnight
  <2>8. e.allday => IsMidnight(e.end)
    BY <2>5, <2>6, DateIsMidnight
  <2>9. e.allday => IsMidnight(e.end - e.start)
    BY <1>1, <2>7, <2>8, MidnightsAdd
  <2> QED BY <1>9, <2>9
<1>11. PICK later : later = Timed(s.start.at + d, s.start.zone)
  OBVIOUS
<1>12. s.end = Or(opts.end, later)
  <2>1. s.start.at \in Int
    BY <1>8 DEF Instant
  <2>2. s.start.at + e.end - e.start = s.start.at + d
    BY <1>1, <1>9, <2>1
  <2> QED BY <1>5, <1>11, <2>2
<1>13. later \in Instant /\ ReadBack(later, e.allday) = ReadBack(s.start, e.allday) + d
  BY <1>1, <1>8, <1>9, <1>10, <1>11, LaterReadsBack
<1>14. s.end \in Instant
  BY <1>2, <1>12, <1>13, OrIsOne DEF IsOptions, Or
<1>15. \A n \in TextName : AtMostOne(opts.text[n])
  BY <1>2 DEF IsOptions
<1>16. /\ \A n \in TextName : IsText(s.text[n])
       /\ s.text = MeantText(in.text, e)
  BY <1>2, <1>4, <1>5, <1>15, SeedTexts
<1>17. IsFresh(s)
  <2>1. s.zone \in Zone
    BY <1>1, <1>2, <1>5, OrIsOne DEF IsOptions, Or
  <2>2. s.original \subseteq Instant /\ AtMostOne(s.original)
    BY <1>5, <1>7 DEF AtMostOne
  <2>3. Checked(s.rrule) /\ HasInterval(s.rrule)
    BY <1>5 DEF Checked, HasInterval, NoRule
  <2> QED BY <1>1, <1>5, <1>8, <1>14, <1>16, <2>1, <2>2, <2>3 DEF IsFresh, IsNew
<1>18. /\ y.start = ReadBack(s.start, s.allday) /\ y.end = ReadBack(s.end, s.allday)
       /\ y.zone = (IF s.allday THEN UTC ELSE s.zone) /\ y.allday = s.allday
       /\ y.rule = s.rrule /\ y.exdates = {}
       /\ y.original = {ReadBack(u, s.allday) : u \in s.original}
       /\ y.text = [n \in TextName |-> s.text[n]]
       /\ y.organizer = {} /\ y.answers = <<>> /\ y.conference = {}
       /\ y.sequence = s.sequence /\ y.reminders = s.reminders /\ y.color = s.color
       /\ IsCoherent(new) /\ (IsAllDay(new) <=> s.allday)
  BY <1>17, NewContent
<1>19. /\ opts.start = {parseWhen(w, Or(in.zone, HomeZone)) : w \in in.start}
       /\ opts.end = {parseWhen(w, Or(in.zone, HomeZone)) : w \in in.end}
       /\ opts.zone = Record!ZoneGiven(in) /\ opts.reminders = in.reminders
       /\ opts.color = {IF c = "default" THEN CalendarColor ELSE c : c \in in.color}
  <2>1. OptionsOf(in, opts)
    BY <1>1, AskedOptions
  <2> QED BY <2>1, RecordZone, Zenon DEF OptionsOf
<1>20. MovedAsAsked(in, e, in.start, t, y.start)
  <2>1. y.start = ReadBack(Or(opts.start, Timed(t, UTC)), e.allday)
    BY <1>5, <1>18
  <2>2. in.start = {} => y.start = t
    <3>1. in.start = {} => opts.start = {}
      BY <1>19
    <3> QED BY <1>7, <2>1, <3>1 DEF Or
  <2>3. ASSUME NEW w \in in.start
        PROVE  y.start = ReadBack(parseWhen(w, Or(in.zone, HomeZone)), e.allday)
    <3>1. parseWhen(w, Or(in.zone, HomeZone)) \in opts.start
      BY <1>19
    <3>2. opts.start = {parseWhen(w, Or(in.zone, HomeZone))}
      BY <1>2, <3>1 DEF IsOptions, AtMostOne
    <3> QED BY <2>1, <3>2, TheOnly
  <2> QED BY <2>2, <2>3 DEF MovedAsAsked
<1>21. in.end = {} => y.end = y.start + e.end - e.start
  <2>1. in.end = {} => opts.end = {}
    BY <1>19
  <2>2. in.end = {} => y.end = y.start + d
    BY <1>5, <1>12, <1>13, <1>18, <2>1 DEF Or
  <2>3. y.start \in Int
    <3>1. ReadBack(s.start, e.allday) \in Int
      BY <1>1, <1>8, DateReadsBack
    <3> QED BY <1>5, <1>18, <3>1
  <2>4. y.start + d = y.start + e.end - e.start
    BY <1>1, <1>9, <2>3
  <2> QED BY <2>2, <2>4
<1>22. ASSUME NEW w \in in.end
       PROVE  y.end = ReadBack(parseWhen(w, Or(in.zone, HomeZone)), e.allday)
  <2>1. parseWhen(w, Or(in.zone, HomeZone)) \in opts.end
    BY <1>19
  <2>2. opts.end = {parseWhen(w, Or(in.zone, HomeZone))}
    BY <1>2, <2>1 DEF IsOptions, AtMostOne
  <2>3. s.end = parseWhen(w, Or(in.zone, HomeZone))
    BY <1>12, <2>2, TheOnly
  <2> QED BY <1>5, <1>18, <2>3
<1>23. y.zone = (IF e.allday THEN UTC ELSE Or(Record!ZoneGiven(in), e.zone)) /\ y.allday = e.allday
  BY <1>5, <1>18, <1>19
<1>24. y.rule = NoRule /\ y.exdates = {} /\ y.original = {t}
  <2>1. {ReadBack(u, s.allday) : u \in s.original} = {ReadBack(Timed(t, UTC), e.allday)}
    BY <1>5
  <2> QED BY <1>5, <1>7, <1>18, <2>1
<1>25. y.text = MeantText(in.text, e)
  <2>1. MeantText(in.text, e) = [n \in TextName |-> MeantText(in.text, e)[n]]
    BY <1>4 DEF MeantText
  <2> QED BY <1>16, <1>18, <2>1, Zenon
<1>26. y.reminders = Or(in.reminders, e.reminders) /\ y.color = MeantColor(in, e)
  <2>1. opts.color = {} <=> in.color = {}
    BY <1>19
  <2>2. s.color = MeantColor(in, e)
    BY <1>6, <1>19, <2>1, Zenon DEF MeantColor
  <2> QED BY <1>6, <1>18, <1>19, <2>2
<1>27. IsContent(y)
  BY ReadIsContent
<1>28. y.organizer = {} /\ y.answers = <<>> /\ y.conference = {} /\ y.sequence = e.sequence
  BY <1>5, <1>18
<1>29. IsCopy(y, e, in, t)
  BY <1>20, <1>21, <1>22, <1>23, <1>24, <1>25, <1>26, <1>27, <1>28 DEF IsCopy
<1> QED BY <1>5, <1>18, <1>29

LEMMA OccurrenceRefines ==
    ASSUME IInv, Coherent, IInv', NEW keys \in SUBSET Key, NEW in \in Requests, UpdateOccurrence(in, keys)
    PROVE  Refined
<1>1. /\ main # NoRow /\ IsMaster(main) /\ single = NoRow /\ in.occurrence # {} /\ main' = main
      /\ ~DecryptFailed(main, keys)
  BY DEF UpdateOccurrence
<1>2. IsRow(main) /\ IsCoherent(main) /\ IsRequest(in)
  BY <1>1, RequestsAssumption DEF IInv, Coherent, RequestsAssumption
<1>3. PICK e : e = Content(main)
  OBVIOUS
<1>4. /\ e = ReadsAs(main) /\ IsContent(e) /\ e # NoRow /\ e.rule = RRule(main)
      /\ e.allday = IsAllDay(main) /\ e.allday \in BOOLEAN
  BY <1>2, <1>3, ContentFields
<1>5. Decrypt(main, keys) = e
  BY <1>1, <1>2, <1>4, ReadWithKey DEF DecryptFailed
<1>6. PICK t : t = parseWhen(The(in.occurrence), Or(in.zone, HomeZone)).at
  OBVIOUS
<1>7. t \in Int
  <2>1. The(in.occurrence) \in WallTime
    BY <1>1, <1>2, ChosenIsOne DEF IsRequest
  <2>2. Or(in.zone, HomeZone) \in Zone
    BY <1>2, HomeZoneInZone DEF IsRequest
  <2> QED BY <1>6, <2>1, <2>2, WhenType DEF Instant
<1>8. /\ Generates(e.rule, e.start, t) /\ t \notin e.exdates
      /\ \E opts \in UpdateOptions(in, e.allday), key \in keys :
           single' = Create(seedExceptionRow(e, opts, t), key)
  BY <1>5, <1>6 DEF UpdateOccurrence
<1>9. PICK opts \in UpdateOptions(in, e.allday), key \in keys :
        single' = Create(seedExceptionRow(e, opts, t), key)
  BY <1>8
<1>10. PICK s : s = seedExceptionRow(e, opts, t) /\ single' = Create(s, key)
  BY <1>9
<1>11. e.rule # NoRule
  BY <1>1, <1>4 DEF IsMaster
<1>12. e.allday => IsMidnight(t)
  <2>1. e.start = parseDateTime(The(Column(main, "DTSTART")))
    BY <1>4, ReadFields
  <2> QED BY <1>2, <1>4, <1>7, <1>8, <1>11, <2>1, SlotIsMidnight
<1>13. PICK y : y = ReadsAs(single')
  OBVIOUS
<1>14. IsCopy(y, e, in, t) /\ IsCoherent(single') /\ (IsAllDay(single') <=> e.allday)
  BY <1>2, <1>4, <1>7, <1>10, <1>12, <1>13, SeedIsCopy
<1>15. Content(single') = y
  <2>1. single' # NoRow
    BY <1>10, NewLines DEF NoRow
  <2>2. IsRow(single')
    BY <2>1 DEF IInv
  <2> QED BY <1>13, <2>2, ContentFields
<1>16. Coherent'
  BY <1>1, <1>2, <1>4, <1>14 DEF Coherent
<1>17. Record!OriginalStart(in) = t
  BY <1>6, RecordOr, RecordWhen DEF Record!OriginalStart, Record!Given
<1>18. y \in Record!Copies(e, in, t)
  BY <1>2, <1>4, <1>14, Copied
<1>19. Record!OccurrenceEdited(in, e, NoRow, y)
  BY <1>1, <1>4, <1>8, <1>11, <1>17, <1>18, RecordGenerates
  DEF Record!OccurrenceEdited, Record!NoRule, NoRule
<1> QED BY <1>1, <1>3, <1>15, <1>16, <1>19, NoContent DEF Refined, RecordStep

LEMMA EveryStepRefines ==
    ASSUME IInv, Coherent, [Next]_vars
    PROVE  /\ Coherent'
           /\ \/ RecordStep(Content(main), Content(single), Content(main'), Content(single'))
              \/ Content(main') = Content(main) /\ Content(single') = Content(single)
<1>1. Steps /\ IInv'
  BY EveryStep DEF Steps
<1>2. CASE Next
  <2>1. CASE \E keys \in SUBSET Key \ {{}} : \E in \in Creates : CreateEvent(in, keys)
    BY <1>1, <2>1, CreateRefines DEF Refined
  <2>2. CASE \E keys \in SUBSET Key \ {{}} : \E in \in Requests : UpdateEvent(in, keys)
    BY <2>2, UpdateRefines DEF Refined
  <2>3. CASE \E keys \in SUBSET Key \ {{}} : \E in \in Requests : UpdateSingle(in, keys)
    BY <2>3, SingleRefines DEF Refined
  <2>4. CASE \E keys \in SUBSET Key \ {{}} : \E in \in Requests : UpdateOccurrence(in, keys)
    BY <1>1, <2>4, OccurrenceRefines DEF Refined
  <2>5. CASE \E keys \in SUBSET Key \ {{}} : \E w \in Skips : DeleteOccurrence(w, keys)
    BY <2>5, SkipRefines DEF Refined
  <2>6. CASE DeleteEvent
    BY <2>6, DeleteRefines DEF Refined
  <2>7. CASE AppCreates
    BY <2>7, AppRefines DEF Refined
  <2>8. CASE \E t \in Token, s \in Status : Answer(t, s)
    BY <2>8, AnswerRefines DEF Refined
  <2> QED BY <1>2, <2>1, <2>2, <2>3, <2>4, <2>5, <2>6, <2>7, <2>8 DEF Next
<1>3. CASE UNCHANGED vars
  <2>1. main' = main /\ single' = single
    BY <1>3 DEF vars
  <2>2. Coherent'
    BY <2>1 DEF Coherent
  <2> QED BY <2>1, <2>2
<1> QED BY <1>2, <1>3

\* The content of the rows is at every time what the record of the user's
\* requests makes it: an update overrides what it is given and nothing else
\* (write.go, patch.go), and the row of an edited occurrence starts as a copy of
\* its series, with the series' reminders and colour (ops.go, write.go).
THEOREM KeepsTheRecord == Spec => ImplementsEventRecord
<1>1. Init => Record!Init
  BY NoContent DEF Init, Record!Init
<1>2. Init => IInv /\ Coherent
  BY ConstantsAssumption DEF ConstantsAssumption, Init, IInv, Coherent
<1>3. ASSUME IInv, Coherent, [Next]_vars
      PROVE  IInv' /\ Coherent' /\ [Record!Next]_(Record!record)
  <2>1. IInv'
    BY <1>3, EveryStep DEF Steps
  <2>2. /\ Coherent'
        /\ \/ RecordStep(Content(main), Content(single), Content(main'), Content(single'))
           \/ Content(main') = Content(main) /\ Content(single') = Content(single)
    BY <1>3, EveryStepRefines
  <2>3. Content(main)' = Content(main') /\ Content(single)' = Content(single')
    BY DEF Content
  <2>4. ASSUME RecordStep(Content(main), Content(single), Content(main'), Content(single'))
        PROVE  Record!Next
    BY <2>3, <2>4 DEF RecordStep, Record!Next
  <2>5. ASSUME Content(main') = Content(main), Content(single') = Content(single)
        PROVE  UNCHANGED Record!record
    BY <2>3, <2>5 DEF Record!record
  <2> QED BY <2>1, <2>2, <2>4, <2>5
<1>4. Spec => Record!Init /\ [][Record!Next]_(Record!record)
  BY <1>1, <1>2, <1>3, PTL DEF Spec
<1> QED BY <1>4 DEF ImplementsEventRecord, Record!Spec

-----------------------------------------------------------------------------
(* The repetition an update asks for.                                      *)

\* What RepeatsAsAsked says of a request and of what the series reads as.
RepeatsAs(in, e, f) ==
    LET asked == in.recurrence
        meant == e.zone = HomeZone \/ in.zone # {} \/ in.start # {} \/ in.end # {}
    IN  /\ in.norepeat => f.rule = NoRule /\ f.exdates = {}
        /\ ~in.norepeat /\ Empty(asked) => f.rule = e.rule /\ f.exdates = e.exdates
        /\ asked.repeat # "" =>
             /\ f.rule["FREQ"] = asked.repeat
             /\ "COUNT" \in DOMAIN f.rule <=> asked.count # 0
             /\ asked.count # 0 => f.rule["COUNT"] = asked.count
             /\ "UNTIL" \in DOMAIN f.rule <=> asked.until # {}
             /\ \A day \in asked.until :
                  LET last == f.rule["UNTIL"]
                  IN  IF f.allday THEN last = UntilDate(day)
                      ELSE meant => /\ Day(Timed(last.at, f.zone)) = day
                                    /\ Day(Timed(last.at + 1, f.zone)) = day + 1

\* Where the zone of a request is the one the event is in, or goes to.
LEMMA ZoneMeant ==
    ASSUME NEW in, NEW e,
           e.zone = HomeZone \/ in.zone # {} \/ in.start # {} \/ in.end # {}
    PROVE  Or(updateTZName(in.zone, in.start # {} \/ in.end # {}), e.zone) = Or(in.zone, HomeZone)
<1> DEFINE given == in.start # {} \/ in.end # {}
<1>1. CASE in.zone # {}
  <2>1. updateTZName(in.zone, given) = in.zone
    BY <1>1 DEF updateTZName
  <2> QED BY <1>1, <2>1 DEF Or
<1>2. CASE in.zone = {} /\ given
  <2>1. updateTZName(in.zone, given) = {HomeZone}
    BY <1>2 DEF updateTZName
  <2> QED BY <1>2, <2>1, TheOnly DEF Or
<1>3. CASE in.zone = {} /\ ~given
  <2>1. updateTZName(in.zone, given) = {} /\ e.zone = HomeZone
    BY <1>3 DEF updateTZName
  <2> QED BY <1>3, <2>1 DEF Or
<1> QED BY <1>1, <1>2, <1>3

LEMMA UpdateRepeats ==
    ASSUME IInv, Coherent, NEW in \in Requests, UpdateEvent(in, Key)
    PROVE  RepeatsAs(in, Decrypt(main, Key), Decrypt(main', Key))
<1> DEFINE zone == Or(in.zone, HomeZone)
<1>1. PICK opts \in UpdateOptions(in, IsAllDay(main)) : main' = Updated(main, opts)
  BY DEF UpdateEvent
<1>2. main # NoRow /\ in.occurrence = {} /\ IsRow(main) /\ IsCoherent(main)
  BY DEF UpdateEvent, IInv, Coherent
<1>3. IsRequest(in) /\ IsRecurrence(in.recurrence) /\ zone \in Zone
  BY RequestsAssumption, HomeZoneInZone DEF RequestsAssumption, IsRequest
<1>4. IsAllDay(main) \in BOOLEAN
  BY <1>2, AllDayType
<1>5. IsOptions(opts)
  BY <1>3, <1>4, UpdateOptionsType
<1>6. IsRow(main')
  BY <1>1, <1>2, <1>5, UpdatedRow
<1>7. PICK c, d : c = Decrypt(main, Key) /\ d = Decrypt(main', Key)
  OBVIOUS
<1>8. c = ReadsAs(main) /\ d = ReadsAs(main') /\ c.allday = IsAllDay(main)
  BY <1>2, <1>6, <1>7, ContentReads, ReadFields
<1>9. UpdatedAs(c, opts, d)
  BY <1>1, <1>2, <1>5, <1>8, UpdatedContent
<1>10. /\ OptionsOf(in, opts)
       /\ ~Empty(in.recurrence) =>
            \E rule \in buildRRule(in.recurrence, zone, c.allday) :
              opts.rrule = {rule} /\ rule # NoRule
       /\ Empty(in.recurrence) => opts.rrule = {}
  BY <1>2, <1>3, <1>4, <1>8, AskedOptions
<1>11. validate(in)
  BY Zenon DEF UpdateOptions
<1>12. /\ d.allday = c.allday
       /\ d.zone = IF c.allday THEN UTC
                   ELSE Or(updateTZName(in.zone, in.start # {} \/ in.end # {}), c.zone)
       /\ d.rule = IF in.norepeat THEN NoRule ELSE Or(opts.rrule, c.rule)
       /\ d.exdates = IF in.norepeat THEN {} ELSE c.exdates
  <2>1. {ReadBack(t, c.allday) : t \in opts.addExdates} = {}
    BY <1>10 DEF OptionsOf
  <2> QED BY <1>9, <1>10, <2>1 DEF UpdatedAs, OptionsOf
<1>13. in.norepeat => d.rule = NoRule /\ d.exdates = {}
  BY <1>12
<1>14. ~in.norepeat /\ Empty(in.recurrence) => d.rule = c.rule /\ d.exdates = c.exdates
  BY <1>10, <1>12 DEF Or
<1>15. ASSUME in.recurrence.repeat # ""
       PROVE  Repeats(d.rule, in.recurrence.repeat, in.recurrence.count, in.recurrence.until,
                      zone, c.allday)
  <2>1. ~in.norepeat /\ ~Empty(in.recurrence)
    BY <1>11, <1>15 DEF validate, Empty
  <2>2. PICK rule \in buildRRule(in.recurrence, zone, c.allday) : opts.rrule = {rule}
    BY <1>10, <2>1
  <2>3. d.rule = rule
    BY <1>12, <2>1, <2>2, TheOnly
  <2> QED BY <1>3, <1>4, <1>8, <1>15, <2>2, <2>3, RequestedRules
<1>16. ASSUME in.recurrence.repeat # "", NEW day \in in.recurrence.until
       PROVE  LET last == d.rule["UNTIL"]
                  meant == c.zone = HomeZone \/ in.zone # {} \/ in.start # {} \/ in.end # {}
              IN  IF d.allday THEN last = UntilDate(day)
                  ELSE meant => /\ Day(Timed(last.at, d.zone)) = day
                                /\ Day(Timed(last.at + 1, d.zone)) = day + 1
  <2>1. d.rule["UNTIL"] = IF c.allday THEN UntilDate(day) ELSE UntilInstant(EndOfDay(day, zone))
    BY <1>15, <1>16 DEF Repeats
  <2>2. day \in Int
    BY <1>3 DEF IsRecurrence
  <2>3. UntilInstant(EndOfDay(day, zone)).at = EndOfDay(day, zone)
    BY DEF UntilInstant
  <2>4. ASSUME ~c.allday, c.zone = HomeZone \/ in.zone # {} \/ in.start # {} \/ in.end # {}
        PROVE  d.zone = zone
    BY <1>12, <2>4, ZoneMeant
  <2> QED BY <1>3, <1>12, <2>1, <2>2, <2>3, <2>4, EndOfDayIsInDay
<1>17. RepeatsAs(in, c, d)
  BY <1>13, <1>14, <1>15, <1>16 DEF RepeatsAs, Repeats
<1> QED BY <1>7, <1>17

\* Whatever was done to a series before, an update leaves the repetition it asks
\* for, with its last day where the series is then, and one that does not ask for
\* any leaves the one there was (ops.go UpdateEvent, parse.go, write.go).
THEOREM RepeatsWhatIsAsked == Spec => RepeatsAsAsked
<1>1. Init => IInv /\ Coherent
  BY ConstantsAssumption DEF ConstantsAssumption, Init, IInv, Coherent
<1>2. IInv /\ Coherent /\ [Next]_vars => IInv' /\ Coherent'
  BY EveryStep, EveryStepRefines DEF Steps
<1>3. IInv /\ Coherent =>
        (main # NoRow /\ main' # NoRow =>
           \A in \in Requests : UpdateEvent(in, Key) =>
             RepeatsAs(in, Decrypt(main, Key), Decrypt(main', Key)))
  BY UpdateRepeats
<1> QED BY <1>1, <1>2, <1>3, PTL DEF Spec, RepeatsAsAsked, RepeatsAs

=============================================================================
