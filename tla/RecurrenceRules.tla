-------------------------- MODULE RecurrenceRules --------------------------
(***************************************************************************)
(* Times and recurrence rules, as they are built from what a user asks for *)
(* and written into an event.                                              *)
(*                                                                         *)
(* An instant is an integer, a day lasts DayLength, and a zone is a fixed  *)
(* offset from UTC.  A rule is a function from the keys it gives (FREQ,    *)
(* INTERVAL, COUNT, UNTIL, ...) to their values: NoRule gives none.  An    *)
(* operator that can refuse its input returns {} then, and {result}        *)
(* otherwise; an input that may be left out is a set of at most one value. *)
(***************************************************************************)
EXTENDS Integers, Sequences, SequencesExt

CONSTANTS Zone, UTC,
          Offset,        \* of each zone
          DayLength,
          MaxCount,      \* 49
          MaxUntilDay,   \* 2037-12-31, the last day of its year
          KnownKeys      \* keys the recurrence library understands

ASSUME RulesAssumption ==
    /\ UTC \in Zone
    /\ Offset \in [Zone -> Int] /\ Offset[UTC] = 0
    /\ DayLength \in Nat \ {0} /\ MaxCount \in Nat \ {0} /\ MaxUntilDay \in Int

frequencies == {"DAILY", "WEEKLY", "MONTHLY", "YEARLY"}

NoRule == <<>>

-----------------------------------------------------------------------------
(* Times.  A time carries the zone it was read in: the date of an all-day  *)
(* event is taken there, without a conversion.                             *)

Timed(at, zone) == [at |-> at, zone |-> zone]
Day(t) == (t.at + Offset[t.zone]) \div DayLength
\* Seeded fault: days end as in UTC.
EndOfDayUTC(day, zone) == day * DayLength + DayLength - 1

EndOfDay(day, zone) == day * DayLength + DayLength - 1 - Offset[zone]

\* A date(-time) as a line stores it.
DateValue(t, zone, allday) ==
    IF allday THEN [allday |-> TRUE, zone |-> UTC, wall |-> Day(t) * DayLength]
              ELSE [allday |-> FALSE, zone |-> zone, wall |-> t.at + Offset[zone]]

\* The instant it is read back as.
parseDateTime(v) == v.wall - Offset[v.zone]

\* The wall time, or the bare date, a user gives.
parseWhen(w, zone) == IF w.dateonly THEN Timed(w.wall, UTC)
                                    ELSE Timed(w.wall - Offset[zone], zone)

-----------------------------------------------------------------------------
(* Rules.                                                                  *)

\* An UNTIL is a date, or an instant in UTC.
Until == [date : BOOLEAN, at : Int]
UntilDate(day) == [date |-> TRUE, at |-> day]
UntilInstant(t) == [date |-> FALSE, at |-> t]
UntilDayIn(u, zone) == IF u.date THEN u.at ELSE Day(Timed(u.at, zone))

BuildRRule(repeat, every, count, until, zone, allday) ==
    IF /\ repeat \in frequencies
       /\ every >= 1
       /\ count = 0 \/ until = {}
       /\ count # 0 => count \in 1..MaxCount
       /\ \A day \in until : day <= MaxUntilDay
    THEN {[key \in {"FREQ"} \cup {k \in {"INTERVAL"} : every > 1}
                   \cup {k \in {"COUNT"} : count # 0} \cup {k \in {"UNTIL"} : until # {}} |->
             CASE key = "FREQ"     -> repeat
               [] key = "INTERVAL" -> every
               [] key = "COUNT"    -> count
               [] key = "UNTIL"    -> LET day == CHOOSE day \in until : TRUE
                                      IN  IF allday THEN UntilDate(day)
                                          ELSE UntilInstant(EndOfDay(day, zone))]}
    ELSE {}

\* Past the limit is past its year, and the year is read in UTC.
untilTooLate(u) == UntilDayIn(u, UTC) > MaxUntilDay

\* A raw rule is a sequence of parts <<key, value>>, malformed when the key is "".
SanitizeRRule(raw) ==
    LET keys == {part[1] : part \in ToSet(raw)}
        Value(key) == (CHOOSE part \in ToSet(raw) : part[1] = key)[2]
    IN  IF /\ raw # <<>>
           /\ "" \notin keys
           /\ \A i, j \in DOMAIN raw : raw[i][1] = raw[j][1] => i = j
           /\ "FREQ" \in keys /\ Value("FREQ") \in frequencies
           /\ ~({"COUNT", "UNTIL"} \subseteq keys)
           /\ "COUNT" \in keys => Value("COUNT") <= MaxCount
           /\ "UNTIL" \in keys => ~untilTooLate(Value("UNTIL"))
           /\ keys \subseteq KnownKeys
        THEN {[key \in keys |-> Value(key)]}
        ELSE {}

\* What may be asked for: a last day is at most one, and a raw one is a date or
\* an instant; a raw interval is the number it stands for (rrule-go reads 0 as 1
\* and refuses a negative one).
IsRecurrence(r) ==
    /\ r.every \in Int /\ r.count \in Int
    /\ r.until \subseteq Int /\ \A d, e \in r.until : d = e
    /\ \A i \in DOMAIN r.raw :
         /\ r.raw[i][1] = "UNTIL" => r.raw[i][2] \in Until
         /\ r.raw[i][1] = "INTERVAL" => r.raw[i][2] \in Nat \ {0}

\* The structured options of a request and its raw rule exclude each other.
NothingAsked == [repeat |-> "", every |-> 0, count |-> 0, until |-> {}, raw |-> <<>>]

Structured(r) == r.count # 0 \/ r.until # {} \/ r.every \notin {0, 1}

Empty(r) == r.repeat = "" /\ r.raw = <<>> /\ ~Structured(r)

buildRRule(r, zone, allday) ==
    CASE r.raw # <<>> /\ (r.repeat # "" \/ Structured(r)) -> {}
      [] r.raw # <<>> /\ r.repeat = "" /\ ~Structured(r)  -> SanitizeRRule(r.raw)
      [] r.raw = <<>> /\ r.repeat = "" /\ Structured(r)   -> {}
      [] r.raw = <<>> /\ r.repeat = "" /\ ~Structured(r)  -> {NoRule}
      [] OTHER -> BuildRRule(r.repeat, IF r.every = 0 THEN 1 ELSE r.every,
                             r.count, r.until, zone, allday)

-----------------------------------------------------------------------------
(* What is known of a rule that is written, and what a rule generates.     *)

\* What is checked of a rule, whether it is built or given: four limits of the
\* server.  The last day is that of the zone it is given in, or of UTC.
Checked(rule) ==
    rule = NoRule \/
    /\ "FREQ" \in DOMAIN rule /\ rule["FREQ"] \in frequencies
    /\ ~({"COUNT", "UNTIL"} \subseteq DOMAIN rule)
    /\ "COUNT" \in DOMAIN rule => rule["COUNT"] <= MaxCount
    /\ "UNTIL" \in DOMAIN rule => \E zone \in Zone : UntilDayIn(rule["UNTIL"], zone) <= MaxUntilDay

\* What docs/api.md says the server accepts of the rule of an event in a zone; a
\* part that may be a list is the set of what it lists.  Of a rule that is given
\* nothing checks the last two.  (The server also wants the start to be the
\* first occurrence, which is not about the rule alone.)
Supported(rule, zone) ==
    LET given == DOMAIN rule
        by == given \cap {"BYDAY", "BYSETPOS", "BYMONTHDAY"}
        One(S) == \E x \in S : S = {x}
    IN  rule = NoRule \/
        /\ "FREQ" \in given /\ rule["FREQ"] \in frequencies
        /\ "COUNT" \in given => rule["COUNT"] <= MaxCount
        /\ "UNTIL" \in given => UntilDayIn(rule["UNTIL"], zone) <= MaxUntilDay
        /\ ~({"COUNT", "UNTIL"} \subseteq given)
        /\ rule["FREQ"] = "MONTHLY" =>
             \/ by = {}
             \/ by = {"BYMONTHDAY"} /\ One(rule["BYMONTHDAY"])
             \/ by = {"BYDAY", "BYSETPOS"} /\ One(rule["BYDAY"]) /\ rule["BYSETPOS"] \in {-1} \cup 1..4
        /\ rule["FREQ"] = "YEARLY" /\ "BYMONTHDAY" \in given => "BYMONTH" \in given

HasInterval(rule) == "INTERVAL" \in DOMAIN rule => rule["INTERVAL"] \in Nat \ {0}

\* Whether a series that starts at start has an occurrence at t.
Generates(rule, start, t) ==
    LET interval == IF "INTERVAL" \in DOMAIN rule THEN rule["INTERVAL"] ELSE 1
        days == CASE rule["FREQ"] = "DAILY" -> 1 [] rule["FREQ"] = "WEEKLY" -> 7
                  [] rule["FREQ"] = "MONTHLY" -> 30 [] OTHER -> 365
        step == days * interval * DayLength
    IN  /\ t >= start /\ (t - start) % step = 0
        /\ "COUNT" \in DOMAIN rule => (t - start) \div step < rule["COUNT"]
        /\ "UNTIL" \in DOMAIN rule =>
              IF rule["UNTIL"].date THEN t <= rule["UNTIL"].at * DayLength
                                    ELSE t <= rule["UNTIL"].at
=============================================================================
