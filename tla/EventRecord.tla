---------------------------- MODULE EventRecord ----------------------------
(***************************************************************************)
(* What the user of the commands may rely on about the content of an event *)
(* and of one edited occurrence of it: an update changes what it was given *)
(* and nothing else, an edited occurrence starts as a copy of its series,  *)
(* and times are the instants the user meant.  How the content is spread   *)
(* over signed and encrypted cards is EventCards, which implements this.   *)
(***************************************************************************)
EXTENDS RecurrenceRules, FiniteSets

CONSTANTS Requests,       \* the updates users ask for
          Skips,          \* the occurrences they delete, by their original start
          Status,         \* answers of attendees
          HomeZone,       \* the configured zone
          CalendarColor,
          MaxAnswers,     \* more answers than this are not all returned
          NoEvent

VARIABLES event, edited

record == <<event, edited>>

The(S) == CHOOSE x \in S : TRUE
Or(S, default) == IF S = {} THEN default ELSE The(S)

-----------------------------------------------------------------------------
(* What a request means for an event e.                                    *)

TimesGiven(in) == in.start # {} \/ in.end # {}
ZoneGiven(in) == in.zone \cup {z \in {HomeZone} : in.zone = {} /\ TimesGiven(in)}
Given(in, w) == parseWhen(w, Or(in.zone, HomeZone))
MeantBy(in, e, w) ==
    IF e.allday THEN Day(Given(in, w)) * DayLength ELSE Given(in, w).at
OriginalStart(in) == Given(in, The(in.occurrence)).at

\* An occurrence is edited without its rule, whatever of it is asked for.
RuleGiven(in) == in.occurrence = {} /\ ~Empty(in.recurrence)
RulesMeant(in, e) ==
    IF in.norepeat THEN {NoRule}
    ELSE IF RuleGiven(in) THEN buildRRule(in.recurrence, Or(in.zone, HomeZone), e.allday)
    ELSE {e.rule}

Significant(in) == TimesGiven(in) \/ in.norepeat \/ RuleGiven(in)

Overridden(e, in, rule) ==
    [e EXCEPT !.start = Or({MeantBy(in, e, w) : w \in in.start}, @),
              !.end = Or({MeantBy(in, e, w) : w \in in.end}, @),
              !.zone = IF e.allday THEN UTC ELSE Or(ZoneGiven(in), @),
              !.text = [n \in DOMAIN @ |-> IF in.text[n] = {} THEN @[n]
                                           ELSE [own |-> The(in.text[n]), block |-> FALSE]],
              !.rule = rule,
              !.exdates = IF in.norepeat THEN {} ELSE @,
              !.sequence = @ + IF Significant(in) THEN 1 ELSE 0,
              !.reminders = Or(in.reminders, @),
              !.color = IF in.color = {} THEN @
                        ELSE {IF c = "default" THEN CalendarColor ELSE c : c \in in.color}]

\* Answers the server did not return are lost when an event is rewritten.
Rewritten(e) ==
    IF Cardinality(DOMAIN e.answers) <= MaxAnswers THEN {e}
    ELSE {[e EXCEPT !.answers = a] :
            a \in {[t \in DOMAIN e.answers |-> IF t \in kept THEN e.answers[t] ELSE -1] :
                     kept \in SUBSET DOMAIN e.answers}}

\* A fresh copy of the series in the slot t, with a request applied: people
\* and conference may be left behind.
Copies(e, in, t) ==
    LET copy == [e EXCEPT !.start = t, !.end = t + e.end - e.start,
                          !.rule = NoRule, !.exdates = {}, !.original = {t}]
        new == Overridden(copy, in, NoRule)
        length == IF in.end # {} THEN new.end ELSE new.start + e.end - e.start
    IN  {[new EXCEPT !.end = length, !.sequence = e.sequence, !.organizer = p[1],
                     !.answers = p[2], !.conference = p[3]] :
           p \in {<<e.organizer, e.answers, e.conference>>, <<{}, <<>>, {}>>}}

-----------------------------------------------------------------------------
(* The steps, from the content e and x of the event and of its edited      *)
(* occurrence to f and y.                                                  *)

Init == event = NoEvent /\ edited = NoEvent

Made(e, f) == e = NoEvent /\ f # NoEvent /\ f.original = {} /\ Checked(f.rule)

Updated(in, e, x, f, y) ==
    /\ e # NoEvent /\ in.occurrence = {}
    /\ y = IF e.rule # NoRule /\ Significant(in) THEN NoEvent ELSE x
    /\ \E rule \in RulesMeant(in, e) : f \in Rewritten(Overridden(e, in, rule))

EditedAgain(in, x, y) ==
    /\ x # NoEvent
    /\ in.occurrence # {} => x.original = {OriginalStart(in)}
    /\ \E rule \in RulesMeant(in, x) : y \in Rewritten(Overridden(x, in, rule))

OccurrenceEdited(in, e, x, y) ==
    /\ e # NoEvent /\ e.rule # NoRule /\ in.occurrence # {} /\ x = NoEvent
    /\ Generates(e.rule, e.start, OriginalStart(in)) /\ OriginalStart(in) \notin e.exdates
    /\ y \in Copies(e, in, OriginalStart(in))

OccurrenceDeleted(w, e, x, f, y) ==
    LET t == parseWhen(w, HomeZone).at
    IN  /\ e # NoEvent /\ e.rule # NoRule
        /\ y = IF x # NoEvent /\ x.original = {t} THEN NoEvent ELSE x
        /\ f \in Rewritten([e EXCEPT !.exdates = @ \cup {t}, !.sequence = @ + 1])

Deleted(e, f, y) == e # NoEvent /\ f = NoEvent /\ y = NoEvent

Answered(e, f) ==
    e # NoEvent /\ \E t \in DOMAIN e.answers, s \in Status : f = [e EXCEPT !.answers[t] = s]

Next ==
    \E e \in {event}, x \in {edited}, f \in {event'}, y \in {edited'} :
        \/ y = x /\ (Made(e, f) \/ Answered(e, f))
        \/ f = e /\ \E in \in Requests : EditedAgain(in, x, y) \/ OccurrenceEdited(in, e, x, y)
        \/ \E in \in Requests : Updated(in, e, x, f, y)
        \/ \E w \in Skips : OccurrenceDeleted(w, e, x, f, y)
        \/ Deleted(e, f, y)

Spec == Init /\ [][Next]_record
=============================================================================
