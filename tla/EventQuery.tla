----------------------------- MODULE EventQuery -----------------------------
(***************************************************************************)
(* Listing the events of a calendar, and reading all rows of a series,     *)
(* while other clients change them.                                        *)
(*                                                                         *)
(* The server returns rows, not occurrences: for a window it must be asked *)
(* once per type of row and per stretch of at most MaxWindow, each answer  *)
(* comes in pages, and pages are cut from the rows as they are when asked  *)
(* for.  The client puts the answers together and expands the series.      *)
(*                                                                         *)
(* A row's rule is the set of the starts it generates: {} for a row that   *)
(* does not recur, and for one whose rule cannot be parsed, since both are *)
(* listed with their own times.                                            *)
(***************************************************************************)
EXTENDS FiniteSets, FiniteSetsExt, Integers

CONSTANTS Id,             \* IDs of rows, in the order the server returns them
          Uid,
          Time,           \* an initial segment of the naturals
          NoTime,         \* the recurrence ID of a row that is no exception
          Calendars,      \* the rows there may be when a query begins
          Puts,           \* rows other clients may store
          Windows,        \* windows asked for
          Skews,          \* how far a time zone may move all-day rows
          Pad, MaxWindow, PageSize, MaxConcurrentChunks,
          MaxOccurrencesPerMaster,
          MaxChanges      \* bound on the steps of other clients

Row == [id : Id, uid : Uid, allday : BOOLEAN, start : Time, end : Time,
        rid : Time \cup {NoTime}, rule : SUBSET Time, exdates : SUBSET Time]

OnePerId(S) == \A r, q \in S : r.id = q.id => r = q

ASSUME DomainAssumption ==
    /\ Id \subseteq Nat /\ IsFiniteSet(Id) /\ Time \subseteq Nat /\ IsFiniteSet(Time)
    /\ NoTime \notin Time /\ Windows \cap Uid = {}
    /\ \A w \in Windows : w.start \in Nat /\ w.end \in Nat /\ w.start < w.end
ASSUME BoundAssumption ==
    {Pad, MaxWindow, PageSize, MaxConcurrentChunks, MaxOccurrencesPerMaster} \subseteq Nat \ {0}
ASSUME SkewAssumption == Skews \subseteq Int /\ \A s \in Skews : -Pad <= s /\ s <= Pad

\* A calendar has one row to an ID.  An event lasts, its rule begins with it,
\* and none begins within Pad of the epoch, where windows are cut off.
Lasting == {r \in Row : /\ Pad <= r.start /\ r.start < r.end
                        /\ \A t \in r.rule : r.start <= t}
ASSUME RowAssumption ==
    /\ \A c \in Calendars : c \subseteq Lasting /\ OnePerId(c)
    /\ Puts \subseteq Lasting

VARIABLES rows,     \* the calendar at the server
          skew,     \* of the time zone asked for
          asked,    \* a window, or the UID of a series
          units,    \* the questions to the server, each a stream of pages
          found,    \* the rows received, each with its stream and page
          cursor,   \* next page, per stream
          failed,
          began,    \* history: the rows when the query began
          ever,     \* history: all rows there were since
          removed   \* history: a row left the answer to some question

vars == <<rows, skew, asked, units, found, cursor, failed, began, ever, removed>>

Done == -1

-----------------------------------------------------------------------------
(* What is asked: one stream of pages for each stretch and type.           *)

queryTypes == <<[before |-> FALSE, allday |-> FALSE], [before |-> TRUE, allday |-> FALSE],
                [before |-> FALSE, allday |-> TRUE], [before |-> TRUE, allday |-> TRUE]>>

\* The stretches of [from, to), each asked for once per type.
Cut(from, to) ==
    [i \in 1..(4 * ((to - from + MaxWindow - 1) \div MaxWindow)) |->
        LET s == from + ((i - 1) \div 4) * MaxWindow
        IN  [start |-> s, end |-> Min({s + MaxWindow, to}), type |-> queryTypes[((i - 1) % 4) + 1]]]

\* Seeded fault: no slack at the ends of the window.
UnpaddedUnits(w) == Cut(w.start, w.end)

Units(w) == Cut(Max({w.start - Pad, 0}), w.end + Pad)

OfSeries == asked \in Uid
Streams == DOMAIN units

Overlaps(s, e, w) == s < w.end /\ e > w.start
Recurs(row) == row.rid = NoTime /\ row.rule # {}
Starts(row) == IF Recurs(row) THEN row.rule ELSE {row.start}

\* The server sorts a row into a stretch by its times in the zone asked for:
\* "inside" if it starts there, "before" if it starts earlier and extends or
\* recurs into it.
InUnit(row, u) ==
    LET local(t) == IF row.allday THEN t + skew ELSE t
        length == row.end - row.start
    IN  /\ row.allday = u.type.allday
        /\ IF u.type.before
           THEN /\ local(row.start) < u.start
                /\ \E s \in Starts(row) : Overlaps(local(s), local(s) + length, u)
           ELSE local(row.start) \in u.start..(u.end - 1)

Answers(row, i) == IF OfSeries THEN row.uid = asked ELSE InUnit(row, units[i])

Slice(i) == {r \in rows : Answers(r, i)}

\* The rows of a slice are paged by ID.
Rank(i, r) == Cardinality({q.id : q \in {q \in Slice(i) : q.id < r.id}})
Page(i, n) == {r \in Slice(i) : Rank(i, r) \div PageSize = n}
More(i, n) == \E r \in Slice(i) : Rank(i, r) \div PageSize > n

-----------------------------------------------------------------------------
(* What is made of the answers.  Raws and listings are kept as sets: they   *)
(* are sorted by start and ID.                                              *)

Sightings(i, page) == {[row |-> r, stream |-> i, page |-> cursor[i]] : r \in page}
Earlier(a, b) == a.stream < b.stream \/ (a.stream = b.stream /\ a.page < b.page)

\* Seeded fault: no row is taken for one seen before.
Undeduplicated(sightings) == {a.row : a \in sightings}

\* Of several sightings of a row, the first.
Deduplicated(sightings) ==
    {a.row : a \in {a \in sightings : ~\E b \in sightings : b.row.id = a.row.id /\ Earlier(b, a)}}

Raws == Deduplicated(found)

\* Seeded fault: the search does not start before the window.
ExpandedInside(row, w, shadowed) ==
    LET shown == {s \in row.rule : s \in w.start..(w.end - 1) /\ s \notin row.exdates \cup shadowed}
    IN  {s \in shown : Cardinality({t \in shown : t < s}) < MaxOccurrencesPerMaster}

\* Starts of the occurrences of a master in the window.
expandMaster(row, w, shadowed) ==
    LET length == row.end - row.start
        shown == {s \in row.rule : /\ s \in (w.start - length)..w.end
                                   /\ s \notin row.exdates \cup shadowed
                                   /\ Overlaps(s, s + length, w)}
    IN  {s \in shown : Cardinality({t \in shown : t < s}) < MaxOccurrencesPerMaster}

Occurrence(row, s) == [row |-> row, start |-> s, end |-> s + (row.end - row.start)]

Overlapping(row, w) ==
    IF Overlaps(row.start, row.end, w) THEN {Occurrence(row, row.start)} ELSE {}

\* Seeded fault: exceptions do not hide what they replace.
ShadowedByNone(raws, uid) == {}

\* The starts that exceptions of a series stand in for.
ShadowedBy(raws, uid) == {r.rid : r \in {q \in raws : q.uid = uid}} \ {NoTime}

ExpandOccurrences(raws, w) ==
    UNION {IF Recurs(row)
           THEN {Occurrence(row, s) : s \in expandMaster(row, w, ShadowedBy(raws, row.uid))}
           ELSE Overlapping(row, w) : row \in raws}

\* Seeded fault: an occurrence is known only if a listing would show it.
ResolvedInWindow(master, related, ts) ==
    IF \E r \in related : r.rid = ts THEN "edited"
    ELSE IF ts \in expandMaster(master, [start |-> 0, end |-> Cardinality(Time) + 1], {})
    THEN "live" ELSE "none"

\* What is at ts: an occurrence edited before, one deleted, one generated by
\* the rule, or none.
ResolveOccurrence(master, related, ts) ==
    IF \E r \in related : r.rid = ts THEN "edited"
    ELSE IF ts \in master.exdates THEN "deleted"
    ELSE IF ts \in master.rule THEN "live" ELSE "none"

-----------------------------------------------------------------------------

Init ==
    /\ rows \in Calendars /\ skew \in Skews /\ asked \in Windows \cup Uid
    /\ units = IF OfSeries THEN <<asked>> ELSE Units(asked)
    /\ found = {} /\ cursor = [i \in Streams |-> 0]
    /\ failed = FALSE
    /\ began = rows /\ ever = rows /\ removed = FALSE

Open(i) == cursor[i] # Done
AllDone == \A i \in Streams : ~Open(i)
Ended == AllDone \/ failed

\* Streams are begun in order, and at most MaxConcurrentChunks are under way.
UnderWay(i) == Open(i) /\ Cardinality({j \in Streams : j < i /\ Open(j)}) < MaxConcurrentChunks

\* Seeded fault: the same page is asked for again.
SamePage(i) == cursor[i]
NextPage(i) == cursor[i] + 1

\* Seeded fault: a page is asked for whether or not there is more.
FetchPageRegardless(i) ==
    /\ ~failed /\ UnderWay(i)
    /\ found' = found \cup Sightings(i, Slice(i))
    /\ cursor' = [cursor EXCEPT ![i] = NextPage(i)]
    /\ UNCHANGED <<rows, skew, asked, units, failed, began, ever, removed>>

FetchPage(i) ==
    /\ ~failed /\ UnderWay(i)
    /\ found' = found \cup Sightings(i, Page(i, cursor[i]))
    /\ cursor' = [cursor EXCEPT ![i] = IF More(i, cursor[i]) THEN NextPage(i) ELSE Done]
    /\ UNCHANGED <<rows, skew, asked, units, failed, began, ever, removed>>

\* One stream that fails ends them all.
FetchFails(i) ==
    /\ ~failed /\ UnderWay(i)
    /\ failed' = TRUE
    /\ found' = {}
    /\ UNCHANGED <<rows, skew, asked, units, cursor, began, ever, removed>>

\* Another client stores a row, in place of the one with its ID, or deletes one.
Stores(row) ==
    LET old == {r \in rows : r.id = row.id}
    IN  /\ row \notin ever
        /\ rows' = (rows \ old) \cup {row} /\ ever' = ever \cup {row}
        /\ removed' = (removed \/ \E r \in old, i \in Streams : Answers(r, i) /\ ~Answers(row, i))

Deletes(row) == row \in rows /\ rows' = rows \ {row} /\ removed' = TRUE /\ UNCHANGED ever

OtherClient ==
    /\ ~Ended /\ Cardinality(ever \ began) + Cardinality(began \ rows) < MaxChanges
    /\ (\E row \in Puts : Stores(row)) \/ (\E row \in rows : Deletes(row))
    /\ UNCHANGED <<skew, asked, units, found, cursor, failed, began>>

Terminating == Ended /\ UNCHANGED vars

Next ==
    \/ \E i \in Streams : FetchPage(i) \/ FetchFails(i)
    \/ OtherClient
    \/ Terminating

\* Requests are answered or fail; nothing is assumed of other clients.
Spec == Init /\ [][Next]_vars
             /\ WF_vars(\E i \in Streams : FetchPage(i))

-----------------------------------------------------------------------------
(* Properties.                                                             *)

\* Types, and there is one row to an ID.
TypeOK ==
    /\ rows \subseteq Row /\ OnePerId(rows)
    /\ skew \in Skews /\ asked \in Windows \cup Uid
    /\ found \subseteq [row : Row, stream : Streams, page : 0..Cardinality(Id)]
    /\ cursor \in [Streams -> {Done} \cup 0..Cardinality(Id)]
    /\ failed \in BOOLEAN /\ removed \in BOOLEAN
    /\ began \subseteq Row /\ ever \subseteq Row

Listing == ExpandOccurrences(Raws, asked)
Listed == ~OfSeries /\ AllDone /\ ~failed
Steady == began \cap rows

\* When an event recurs and is shown, told from the rows alone.
Shows(row, s, all) ==
    /\ s \in Starts(row)
    /\ Recurs(row) => s \notin row.exdates /\ ~\E e \in all : e.uid = row.uid /\ e.rid = s

\* Every row that is there throughout is returned, whatever its type, however
\* the window is cut and however its times are counted, unless a row that was
\* taken away moved others to pages already read (wire.go:156-237, 262-278).
NoRowIsMissed ==
    AllDone /\ ~failed /\ ~removed =>
        \A row \in Steady :
            (IF OfSeries THEN row.uid = asked
             ELSE \E s \in Starts(row) : Overlaps(s, s + (row.end - row.start), asked))
            => row \in Raws

\* What is there throughout is listed: every occurrence that overlaps the
\* window and that no exception ever stood in for, up to the cap per series,
\* which the earliest come under (expand.go:61-100).  An occurrence that was
\* moved out of the window counts among them: its exception is not read.
NoOccurrenceIsMissed ==
    Listed /\ ~removed =>
        \A row \in Steady : \A s \in Starts(row) :
            LET length == row.end - row.start
                inside(t) == Overlaps(t, t + length, asked)
                near == {e \in Steady : Overlaps(e.start, e.end, asked)}
                earlier == {t \in Starts(row) : t < s /\ Shows(row, t, near) /\ inside(t)}
            IN  Shows(row, s, ever) /\ inside(s) /\ Cardinality(earlier) < MaxOccurrencesPerMaster
                => Occurrence(row, s) \in Listing

\* Nothing is missed, neither the rows nor what they stand for.
NothingIsMissed == NoRowIsMissed /\ NoOccurrenceIsMissed

\* No event is listed as two versions of itself when it changes while it is
\* read from two stretches of the window (wire.go:197-208).
OneVersionOfARow ==
    Listed => \A o, p \in Listing :
                 o.row.id = p.row.id => o.row = p.row

\* No listed occurrence of a series is one that an exception in the same
\* window has replaced all along (expand.go:117-128).  A master whose rule is
\* gone or cannot be parsed is no series: it is listed beside its exceptions.
NoReplacedOccurrence ==
    Listed /\ ~removed =>
        \A o \in Listing, e \in Steady :
            Overlaps(e.start, e.end, asked) /\ e.rid # NoTime
            => ~(Recurs(o.row) /\ o.row.uid = e.uid /\ o.start = e.rid)

\* No occurrence is listed twice, as two versions or as its own original.
NothingIsListedTwice == OneVersionOfARow /\ NoReplacedOccurrence

\* What is listed can be addressed: unless the calendar has changed, an
\* occurrence of a series is one that edits and deletions find, and all those
\* that they find are live, also beyond the cap of a listing (expand.go:161-183).
OccurrencesResolve ==
    LET related(m) == {r \in rows : r.uid = m.uid}
    IN  /\ Listed /\ rows = began =>
              \A o \in Listing :
                  Recurs(o.row) =>
                      ResolveOccurrence(o.row, related(o.row), o.start) \in {"live", "edited"}
        /\ \A m \in {r \in rows : Recurs(r)}, t \in Time :
              (ResolveOccurrence(m, related(m), t) = "live") <=> Shows(m, t, rows)

\* A query ends, however many pages there are.
QueryEnds == <>Ended

\* An occurrence that was edited is listed as what it was edited to, never as
\* the series had it: "masters are expanded, skipping EXDATEd and
\* same-UID-exception-shadowed starts" (expand.go:112-113).
EditedIsShownEdited ==
    Listed /\ rows = began =>
        \A o \in Listing, e \in rows :
            ~(e.rid # NoTime /\ o.row.rid = NoTime /\ o.row.uid = e.uid /\ o.start = e.rid)
=============================================================================
