---------------------------- MODULE EventSeries ----------------------------
(***************************************************************************)
(* The rows of one recurring event and the operations on them.             *)
(*                                                                         *)
(* The server keeps rows and expands nothing: a series is a master row     *)
(* with a rule and the EXDATEs of its deleted occurrences, and one more    *)
(* row, an exception, for each occurrence edited on its own.  Deleting and *)
(* updating (event.SmartDelete, event.SmartUpdate) take several requests,  *)
(* each of which may fail, be the last before a crash, or be carried out   *)
(* without its reply arriving.  The calls of two commands interleave.      *)
(*                                                                         *)
(* A row's texts, cards and keys are immaterial, and so is an edited       *)
(* occurrence's own time.  A schedule (start, zone and RRULE) is known by  *)
(* the original starts it generates.  No rule is ever put on an exception. *)
(***************************************************************************)
EXTENDS Naturals, FiniteSets

CONSTANTS Slot,        \* original starts of occurrences (RecurrenceID, EXDATE)
          Schedule,
          SlotsOf,     \* SlotsOf[x]: the original starts x generates
          FirstSchedule,
          Id,          \* row IDs
          Main,        \* the master's
          NoId,
          Gone,        \* there is no such row
          Op,          \* slots for operations that may overlap
          Changes,     \* what updates may change
          MaxOps       \* bound: operations

AllChanges == {"field", "time", "rule", "norepeat", "zone"}

ASSUME SlotAssumption == Slot \subseteq Nat \ {0} /\ SlotsOf \in [Schedule -> SUBSET Slot]
ASSUME RowAssumption == Main \in Id /\ NoId \notin Id /\ FirstSchedule \in Schedule
ASSUME BoundAssumption == Changes \subseteq AllChanges /\ MaxOps \in Nat

VARIABLES rows,        \* the server's rows
          unissued,    \* row IDs never given to a row
          op,          \* local state of the operations
          begun,       \* how many have begun
          raced,       \* two operations have overlapped
          halfway      \* one has stopped after some of its writes, not all

vars == <<rows, unissued, op, begun, raced, halfway>>

Row == [rule : BOOLEAN, schedule : Schedule, exdates : SUBSET Slot,
        rid : Slot \cup {0}, seq : Nat]

ASSUME GoneAssumption == Gone \notin Row

Pc == {"idle", "look", "series", "related", "read", "write", "create", "list", "remove"}
Outcome == {"none", "deletedEvent", "deletedSeries", "deletedOccurrence",
            "updated", "editedOccurrence", "refused", "failed"}
OpState == [pc : Pc, kind : {"none", "delete", "update"}, id : Id \cup {NoId},
            ts : Slot \cup {0}, change : AllChanges \cup {"none", "exdate"},
            snap : Row \cup {Gone}, isMaster : BOOLEAN, ids : SUBSET Id, outcome : Outcome]

Idle == [pc |-> "idle", kind |-> "none", id |-> NoId, ts |-> 0, change |-> "none",
         snap |-> Gone, isMaster |-> FALSE, ids |-> {}, outcome |-> "none"]

TypeOK ==
    /\ rows \in [Id -> Row \cup {Gone}]
    /\ unissued \in SUBSET Id /\ \A i \in unissued : rows[i] = Gone
    /\ op \in [Op -> OpState]
    /\ begun \in 0..MaxOps /\ raced \in BOOLEAN /\ halfway \in BOOLEAN
    /\ rows[Main] # Gone => rows[Main].rid = 0
    /\ \A i \in Id \ {Main} : rows[i] # Gone => rows[i].rid # 0 /\ ~rows[i].rule

Present == {i \in Id : rows[i] # Gone}
Exceptions == {i \in Present : rows[i].rid # 0}

\* A series just created.
Init ==
    /\ rows = [i \in Id |-> IF i = Main
                            THEN [rule |-> TRUE, schedule |-> FirstSchedule,
                                  exdates |-> {}, rid |-> 0, seq |-> 0]
                            ELSE Gone]
    /\ unissued = Id \ {Main}
    /\ op = [o \in Op |-> Idle] /\ begun = 0
    /\ raced = FALSE /\ halfway = FALSE

-----------------------------------------------------------------------------
(* The start and the end of an operation.                                  *)

Starts(o, kind, i, s, change) ==
    /\ op[o].pc = "idle" /\ begun < MaxOps
    /\ i \notin unissued
    /\ op' = [op EXCEPT ![o] = [Idle EXCEPT !.pc = IF kind = "update" /\ s # 0
                                                   THEN "series" ELSE "look",
                                            !.kind = kind, !.id = i, !.ts = s,
                                            !.change = change]]
    /\ begun' = begun + 1
    /\ raced' = (raced \/ \E other \in Op : op[other].pc # "idle")
    /\ UNCHANGED <<rows, unissued, halfway>>

StartDelete(o, i, s) == Starts(o, "delete", i, s, "none")

\* An occurrence's recurrence cannot be changed, only the series'.
StartUpdate(o, i, s, change) ==
    /\ change \in (IF s = 0 /\ i = Main THEN Changes ELSE Changes \cap {"field", "time"})
    /\ Starts(o, "update", i, s, change)

Ended(outcome) == [Idle EXCEPT !.outcome = outcome]
Ends(o, outcome) == op' = [op EXCEPT ![o] = Ended(outcome)]

\* It has written, and not everything.
Halfway(me) == me.pc \in {"list", "remove"} /\ (me.kind = "update" \/ me.ts # 0)

\* The request does not reach the server, or the program is gone.
Fails(o) ==
    /\ op[o].pc # "idle"
    /\ Ends(o, "failed") /\ halfway' = (halfway \/ Halfway(op[o]))
    /\ UNCHANGED <<rows, unissued, begun, raced>>

\* After reading: on to pc with these fields.
Goes(o, next) ==
    /\ op' = [op EXCEPT ![o] = next]
    /\ UNCHANGED <<rows, unissued, begun, raced, halfway>>
Refused(o) == Ends(o, "refused") /\ UNCHANGED <<rows, unissued, begun, raced, halfway>>

-----------------------------------------------------------------------------
(* The reads, and what they decide.                                        *)

\* SmartDelete's first request.  An exception's own ID means its occurrence.
LookDelete(o) ==
    LET me == op[o]
        row == rows[me.id]
        ts == IF me.ts = 0 THEN row.rid ELSE me.ts
    IN  /\ me.pc = "look" /\ me.kind = "delete"
        /\ IF row = Gone THEN Refused(o)
           ELSE Goes(o, IF ts # 0 THEN [me EXCEPT !.pc = "series", !.ts = ts]
                        ELSE IF row.rule THEN [me EXCEPT !.pc = "list", !.isMaster = TRUE]
                        ELSE [me EXCEPT !.pc = "remove", !.ids = {me.id}])

\* SmartUpdate's, when it is not about one occurrence.
LookUpdate(o) ==
    LET me == op[o]
        row == rows[me.id]
    IN  /\ me.pc = "look" /\ me.kind = "update"
        /\ IF row = Gone THEN Refused(o)
           ELSE Goes(o, [me EXCEPT !.pc = "read", !.isMaster = row.rule])

\* resolveSeries gets the row it was given...
SeriesGet(o) ==
    /\ op[o].pc = "series"
    /\ IF rows[op[o].id] = Gone THEN Refused(o)
       ELSE Goes(o, [op[o] EXCEPT !.pc = "related", !.snap = rows[op[o].id]])

\* ...then all rows of its UID; the master is that row, or one among these.
Master(o) == IF op[o].snap.rule THEN op[o].snap ELSE rows[Main]

\* ResolveOccurrence's cases: edited already, deleted already, generated or not.
EditedRowsOfDeletes(o) ==
    {i \in Exceptions : rows[i].rid = op[o].ts /\ op[o].kind = "delete"}   \* Seeded fault.
EditedRows(o) == {i \in Exceptions : rows[i].rid = op[o].ts}
Live(o) == op[o].ts \in SlotsOf[Master(o).schedule] \ Master(o).exdates

\* Seeded faults: the EXDATE is forgotten; every edited occurrence goes.
DeletingRowOnly(o, ids) == [op[o] EXCEPT !.pc = "remove", !.ids = ids]
DeletingEveryEdit(o, ids) ==
    [op[o] EXCEPT !.pc = "read", !.id = Main, !.change = "exdate", !.ids = Exceptions]

\* Deleting an occurrence puts an EXDATE on the master, then removes the row.
Deleting(o, ids) ==
    [op[o] EXCEPT !.pc = "read", !.id = Main, !.change = "exdate", !.ids = ids]

RelatedDelete(o) ==
    \/ \E i \in EditedRows(o) : Goes(o, Deleting(o, {i}))
    \/ EditedRows(o) = {} /\ Live(o) /\ Goes(o, Deleting(o, {}))

\* Editing one updates its row, or creates it with the master's SEQUENCE.
RelatedUpdate(o) ==
    \/ \E i \in EditedRows(o) : Goes(o, [op[o] EXCEPT !.pc = "read", !.id = i])
    \/ /\ EditedRows(o) = {} /\ Live(o)
       /\ Goes(o, [op[o] EXCEPT !.pc = "create", !.snap = Master(o)])

Related(o) ==
    /\ op[o].pc = "related"
    /\ IF Master(o) = Gone THEN Refused(o)
       ELSE IF ~Master(o).rule \/ (EditedRows(o) = {} /\ ~Live(o)) THEN Refused(o)
       ELSE \/ op[o].kind = "delete" /\ RelatedDelete(o)
            \/ op[o].kind = "update" /\ RelatedUpdate(o)

\* Every update reads the row it is going to replace.
Read(o) ==
    /\ op[o].pc = "read"
    /\ IF rows[op[o].id] = Gone THEN Refused(o)
       ELSE Goes(o, [op[o] EXCEPT !.pc = "write", !.snap = rows[op[o].id]])

\* Seeded fault: the master alone is deleted, as if the server cascaded.
ToRemoveMasterOnly(me) ==
    IF me.kind = "delete" THEN {me.id} ELSE Exceptions \ {me.id}

\* deleteSeries and deleteSeriesExceptions ask for all rows of the UID.
ToRemove(me) ==
    IF me.kind = "delete" THEN {me.id} \cup Present ELSE Exceptions \ {me.id}

List(o) ==
    LET me == op[o]
    IN  /\ me.pc = "list"
        /\ Goes(o, IF ToRemove(me) = {} THEN Ended("updated")
                   ELSE [me EXCEPT !.pc = "remove", !.ids = ToRemove(me)])

-----------------------------------------------------------------------------
(* The writes.  The reply to an accepted one may be lost.                  *)

Answered(o, next) ==
    \/ op' = [op EXCEPT ![o] = next] /\ UNCHANGED halfway
    \/ Ends(o, "failed") /\ halfway' = (halfway \/ next.pc # "idle")

\* The server wants an exception's SEQUENCE to be at least the master's.
InSequence(rid, seq) == rid = 0 \/ rows[Main] = Gone \/ seq >= rows[Main].seq

\* UpdateOptions.Significant: a new zone alone is not.
Significant(change) == change \in {"time", "rule", "norepeat", "exdate"}

\* The row that replaces the one read (buildUpdateBody).
Patched(row, change, s, schedule) ==
    [row EXCEPT !.rule = (@ \/ change = "rule") /\ change # "norepeat",
                !.schedule = IF row.rid = 0 /\ change \in {"time", "rule", "zone"}
                             THEN schedule ELSE @,
                !.exdates = IF change = "norepeat" THEN {}
                            ELSE IF change = "exdate" THEN @ \cup {s} ELSE @,
                !.seq = IF Significant(change) THEN @ + 1 ELSE @]

\* Seeded faults: no clean-up of the exceptions; the deleted one's row stays.
AfterWriteNoCleanUp(me) ==
    IF me.change = "exdate"
    THEN IF me.ids = {} THEN Ended("deletedOccurrence") ELSE [me EXCEPT !.pc = "remove"]
    ELSE Ended(IF me.ts = 0 THEN "updated" ELSE "editedOccurrence")
AfterWriteRowStays(me) ==
    IF me.change = "exdate" THEN Ended("deletedOccurrence")
    ELSE IF me.isMaster /\ Significant(me.change) THEN [me EXCEPT !.pc = "list"]
    ELSE Ended(IF me.ts = 0 THEN "updated" ELSE "editedOccurrence")

\* What follows the write.
AfterWrite(me) ==
    IF me.change = "exdate"
    THEN IF me.ids = {} THEN Ended("deletedOccurrence") ELSE [me EXCEPT !.pc = "remove"]
    ELSE IF me.isMaster /\ Significant(me.change) THEN [me EXCEPT !.pc = "list"]
    ELSE Ended(IF me.ts = 0 THEN "updated" ELSE "editedOccurrence")

Write(o) ==
    LET me == op[o]
    IN  /\ me.pc = "write"
        /\ \E x \in Schedule :
              LET row == Patched(me.snap, me.change, me.ts, x)
              IN  IF rows[me.id] # Gone /\ InSequence(row.rid, row.seq)
                  THEN /\ rows' = [rows EXCEPT ![me.id] = row]
                       /\ Answered(o, AfterWrite(me))
                       /\ UNCHANGED <<unissued, begun, raced>>
                  ELSE Refused(o)

\* Seeded fault: the RRULE is copied like the texts.
ExceptionWithRule(master, s) ==
    [rule |-> TRUE, schedule |-> FirstSchedule, exdates |-> {}, rid |-> s, seq |-> master.seq]

\* The row of an edited occurrence, with the master's SEQUENCE (seedExceptionRow).
Exception(master, s) ==
    [rule |-> FALSE, schedule |-> FirstSchedule, exdates |-> {},
     rid |-> s, seq |-> master.seq]

Create(o) ==
    LET row == Exception(op[o].snap, op[o].ts)
    IN  /\ op[o].pc = "create"
        /\ IF InSequence(row.rid, row.seq)
           THEN \E i \in unissued :
                   /\ rows' = [rows EXCEPT ![i] = row]
                   /\ unissued' = unissued \ {i}
                   /\ Answered(o, Ended("editedOccurrence"))
                   /\ UNCHANGED <<begun, raced>>
           ELSE Refused(o)

Removed(me) ==
    Ended(IF me.kind = "update" THEN "updated"
          ELSE IF me.ts # 0 THEN "deletedOccurrence"
          ELSE IF me.isMaster THEN "deletedSeries" ELSE "deletedEvent")

\* One request for all the rows; the server may mind that some are gone.
Remove(o) ==
    LET me == op[o]
    IN  /\ me.pc = "remove"
        /\ rows' = [i \in Id |-> IF i \in me.ids THEN Gone ELSE rows[i]]
        /\ \/ Answered(o, Removed(me))
           \/ /\ ~(me.ids \subseteq Present)
              /\ Ends(o, "refused") /\ halfway' = (halfway \/ Halfway(me))
        /\ UNCHANGED <<unissued, begun, raced>>

-----------------------------------------------------------------------------

OpNext(o) ==
    \/ \E i \in Id, s \in Slot \cup {0} : StartDelete(o, i, s)
    \/ \E i \in Id, s \in Slot \cup {0}, change \in Changes : StartUpdate(o, i, s, change)
    \/ LookDelete(o) \/ LookUpdate(o) \/ SeriesGet(o) \/ Related(o) \/ Read(o) \/ List(o)
    \/ Write(o) \/ Create(o) \/ Remove(o)
    \/ Fails(o)

Next == \E o \in Op : OpNext(o)

Spec == Init /\ [][Next]_vars
-----------------------------------------------------------------------------
(* Properties.                                                             *)

\* What a listing shows (recurrence.ExpandOccurrences): exceptions always, and
\* what the master generates apart from EXDATEs and exceptions' originals.
Edited(s) == \E i \in Exceptions : rows[i].rid = s
Generated(s) ==
    /\ rows[Main] # Gone /\ rows[Main].rule
    /\ s \in SlotsOf[rows[Main].schedule] \ rows[Main].exdates
Shown(s) == IF Edited(s) THEN "edited" ELSE IF Generated(s) THEN "original" ELSE "none"

Seen == INSTANCE Agenda WITH view <- [s \in Slot |-> Shown(s)], contended <- raced

\* As long as operations do not overlap, whatever fails or is repeated: each
\* request changes what the user sees as that operation should, one occurrence
\* at a time or the series at once; an edited occurrence never falls back to its
\* original but when a change of the series drops all edits.
ImplementsAgenda == Seen!Spec

\* An edit that is repeated because its reply was lost updates the row the first
\* attempt created: there are never two versions of one occurrence.
OneRowPerOccurrence ==
    ~raced => \A i, j \in Exceptions : rows[i].rid = rows[j].rid => i = j

Settled == ~raced /\ ~halfway /\ \A o \in Op : op[o].pc = "idle"

\* Between operations that all did their writes, the exceptions belong to
\* occurrences that the series has.
ExceptionsHaveOriginals ==
    Settled => \A i \in Exceptions : Generated(rows[i].rid)

Succeeds(o, outcome) == op[o].pc # "idle" /\ op'[o].pc = "idle" /\ op'[o].outcome = outcome

\* A series reported deleted leaves no row behind, orphans of earlier failures
\* included.
DeletedSeriesIsGone ==
    [][\A o \in Op : Succeeds(o, "deletedSeries") /\ ~raced => Present' = {}]_vars

\* An occurrence reported deleted is shown neither as edited nor as original,
\* also when an earlier attempt stopped halfway.
DeletedOccurrenceIsHidden ==
    [][\A o \in Op, s \in Slot :
          Succeeds(o, "deletedOccurrence") /\ op[o].ts = s /\ ~raced => Shown(s)' = "none"]_vars

\* A series' new time or rule, reported done, leaves no edited occurrence.
SignificantChangeClears ==
    [][\A o \in Op :
          Succeeds(o, "updated") /\ op[o].isMaster /\ Significant(op[o].change) /\ ~raced
          => Exceptions' = {}]_vars

\* What is reported as done has been done, in every row it takes: the report
\* comes after the last of several requests, or after the only one needed
\* (smart.go:88-164).
SuccessIsComplete ==
    DeletedSeriesIsGone /\ DeletedOccurrenceIsHidden /\ SignificantChangeClears

\* However operations overlap, deleting one occurrence removes no row but those
\* of that occurrence, and never the series.
OnlyItsOwnRows ==
    [][\A o \in Op : op[o].ts # 0 /\ op'[o] # op[o]
                    => \A i \in Present \ Present' : rows[i].rid = op[o].ts]_vars

\* What docs/api.md:376-380 says of SEQUENCE: it is bumped so that a change of
\* the master never leapfrogs its exceptions.
ExceptionsKeepUp ==
    Settled => \A i \in Exceptions : rows[i].seq >= rows[Main].seq
=============================================================================
