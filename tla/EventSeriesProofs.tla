-------------------------- MODULE EventSeriesProofs --------------------------
(***************************************************************************)
(* Proofs about EventSeries, for any slots, schedules, IDs, changes and    *)
(* numbers of operations; the second part proves that it implements Agenda.*)
(*                                                                         *)
(* All rests on what stays true of a row from its creation to its removal: *)
(* an ID is issued once, and the occurrence a row stands for never changes *)
(* (RidsKept).  So what an operation has read of a row is still true of it *)
(* in this respect, however others interleave, or the row is gone.         *)
(***************************************************************************)
EXTENDS EventSeries, TLAPS

Assumptions == SlotAssumption /\ RowAssumption /\ BoundAssumption /\ GoneAssumption

Rows == Row \cup {Gone}

\* What is so of an operation, of the rows rs and of the unissued IDs un.
Snapped(me, rs) ==
    /\ me.snap # Gone
    /\ rs[me.id] # Gone => rs[me.id].rid = me.snap.rid
    /\ me.id = Main => me.snap.rid = 0
    /\ me.id # Main => me.snap.rid # 0 /\ ~me.snap.rule

Doomed(me, rs, un) ==
    \A i \in me.ids : i \notin un /\ (rs[i] # Gone => rs[i].rid = me.ts)

OpOK(me, rs, un) ==
    me.pc # "idle" =>
        /\ me.id \in Id \ un
        /\ me.change \in {"rule", "norepeat", "zone"} =>
              me.id = Main /\ me.ts = 0 /\ me.kind = "update"
        /\ me.change = "exdate" => me.id = Main /\ me.kind = "delete" /\ me.ts # 0
        /\ me.pc = "look" => ~me.isMaster /\ (me.kind = "update" => me.ts = 0)
        /\ me.pc \in {"series", "related", "create"} => me.ts # 0
        /\ me.pc \in {"related", "create"} => me.snap # Gone
        /\ me.isMaster \/ me.pc = "list" => me.ts = 0
        /\ me.pc = "remove" /\ me.ts # 0 => me.kind = "delete"
        /\ me.pc \in {"read", "write", "remove"} /\ me.kind = "delete" /\ me.ts # 0
              => Doomed(me, rs, un)
        /\ me.pc = "write" => Snapped(me, rs)

MainIssued == Main \notin unissued
OpInv == \A o \in Op : OpOK(op[o], rows, unissued)

\* Operations that have not overlapped: one is under way, and what it is about
\* to create is not there yet.
AloneInv == ~raced => \A o, q \in Op : op[o].pc # "idle" /\ op[q].pc # "idle" => o = q
NewInv == ~raced => \A o \in Op : op[o].pc = "create" =>
                        \A i \in Exceptions : rows[i].rid # op[o].ts

IInv == TypeOK /\ MainIssued /\ OpInv /\ AloneInv /\ NewInv /\ OneRowPerOccurrence

-----------------------------------------------------------------------------
(* Rows.                                                                   *)

\* The assumptions of the model, as one fact.
LEMMA Constants == Assumptions
BY SlotAssumption, RowAssumption, BoundAssumption, GoneAssumption DEF Assumptions

\* No row that was ever issued comes back, or stands for another occurrence.
RidsKept ==
    \A i \in Id \ unissued :
        i \notin unissued' /\ (rows'[i] # Gone => rows[i] # Gone /\ rows'[i].rid = rows[i].rid)

\* The rows are still as the types say.
RowsTyped ==
    /\ rows' \in [Id -> Rows]
    /\ unissued' \subseteq unissued /\ \A i \in unissued' : rows'[i] = Gone
    /\ rows'[Main] # Gone => rows'[Main].rid = 0
    /\ \A i \in Id \ {Main} : rows'[i] # Gone => rows'[i].rid # 0 /\ ~rows'[i].rule

\* What an operation relies on survives what others do to the rows.
LEMMA OpOKKept ==
    ASSUME NEW me \in OpState, OpOK(me, rows, unissued), RidsKept, unissued' \subseteq unissued
    PROVE  OpOK(me, rows', unissued')
<1>1. CASE me.pc = "idle"
  BY <1>1 DEF OpOK
<1>2. CASE me.pc # "idle"
  <2>1. me.id \in Id \ unissued /\ me.id \in Id \ unissued'
    BY <1>2 DEF OpOK, RidsKept
  <2>2. Snapped(me, rows) => Snapped(me, rows')
    BY <2>1 DEF Snapped, RidsKept
  <2>3. Doomed(me, rows, unissued) => Doomed(me, rows', unissued')
    BY DEF Doomed, RidsKept, OpState
  <2> QED
    BY <1>2, <2>1, <2>2, <2>3 DEF OpOK
<1> QED
  BY <1>1, <1>2

\* A step of one operation, with or without a write.
LEMMA OpStep ==
    ASSUME IInv, Assumptions, NEW o \in Op, NEW next \in OpState, op[o].pc # "idle",
           op' = [op EXCEPT ![o] = next], UNCHANGED <<begun, raced>>, halfway' \in BOOLEAN,
           RowsTyped, RidsKept,
           OpOK(next, rows', unissued'),
           ~raced => OneRowPerOccurrence',
           ~raced /\ next.pc = "create" => \A i \in Exceptions' : rows'[i].rid # next.ts
    PROVE  IInv'
<1>0. TypeOK /\ MainIssued /\ OpInv /\ AloneInv /\ NewInv
  BY DEF IInv
<1>1. TypeOK'
  BY <1>0 DEF TypeOK, RowsTyped, Rows
<1>2. MainIssued'
  BY <1>0 DEF MainIssued, RowsTyped
<1>3. OpInv'
  <2> SUFFICES ASSUME NEW q \in Op PROVE OpOK(op'[q], rows', unissued')
    BY DEF OpInv
  <2>1. CASE q = o
    BY <2>1, <1>0 DEF TypeOK
  <2>2. CASE q # o
    <3>1. op'[q] = op[q] /\ op[q] \in OpState /\ OpOK(op[q], rows, unissued)
      BY <2>2, <1>0 DEF TypeOK, OpInv
    <3>2. OpOK(op[q], rows', unissued')
      BY <3>1, OpOKKept DEF RowsTyped
    <3> QED
      BY <3>1, <3>2
  <2> QED
    BY <2>1, <2>2
<1>4. AloneInv'
  BY <1>0 DEF AloneInv, TypeOK
<1>5. NewInv'
  <2> SUFFICES ASSUME ~raced, NEW q \in Op, op'[q].pc = "create", NEW i \in Exceptions'
               PROVE  rows'[i].rid # op'[q].ts
    BY DEF NewInv
  <2>1. q = o
    BY <1>0 DEF AloneInv, TypeOK
  <2> QED
    BY <2>1, <1>0 DEF TypeOK
<1>6. OneRowPerOccurrence'
  BY DEF OneRowPerOccurrence
<1> QED
  BY <1>1, <1>2, <1>3, <1>4, <1>5, <1>6 DEF IInv

\* A step that does not touch the rows.
LEMMA ReadStep ==
    ASSUME IInv, Assumptions, NEW o \in Op, NEW next \in OpState, op[o].pc # "idle",
           op' = [op EXCEPT ![o] = next], halfway' \in BOOLEAN,
           UNCHANGED <<rows, unissued, begun, raced>>,
           OpOK(next, rows, unissued),
           ~raced /\ next.pc = "create" => \A i \in Exceptions : rows[i].rid # next.ts
    PROVE  IInv'
<1>1. RowsTyped /\ RidsKept
  BY DEF IInv, TypeOK, RowsTyped, RidsKept, Rows
<1>2. Exceptions' = Exceptions
  BY DEF Exceptions, Present
<1>3. OneRowPerOccurrence'
  BY <1>2 DEF IInv, OneRowPerOccurrence
<1> QED
  BY <1>1, <1>2, <1>3, OpStep

\* An operation that ends relies on nothing.
LEMMA EndedOK ==
    ASSUME NEW outcome \in Outcome, NEW rs, NEW un
    PROVE  Ended(outcome) \in OpState /\ Ended(outcome).pc = "idle" /\ OpOK(Ended(outcome), rs, un)
BY DEF Ended, Idle, OpState, OpOK, Pc, Outcome

LEMMA EndStep ==
    ASSUME IInv, Assumptions, NEW o \in Op, op[o].pc # "idle", NEW outcome \in Outcome,
           Ends(o, outcome), halfway' \in BOOLEAN, UNCHANGED <<rows, unissued, begun, raced>>
    PROVE  IInv'
BY EndedOK, ReadStep DEF Ends

LEMMA RefusedStep ==
    ASSUME IInv, Assumptions, NEW o \in Op, op[o].pc # "idle", Refused(o)
    PROVE  IInv'
BY EndStep DEF Refused, Outcome, IInv, TypeOK

-----------------------------------------------------------------------------
(* The beginning of an operation, and the reads.                           *)

\* What an operation and a row it looks at are made of.
LEMMA OpTypes ==
    ASSUME IInv, Assumptions, NEW o \in Op
    PROVE  /\ op[o] \in OpState /\ OpOK(op[o], rows, unissued)
           /\ halfway \in BOOLEAN /\ rows \in [Id -> Rows]
           /\ Main \in Id /\ Main \notin unissued
           /\ rows[Main] # Gone => rows[Main].rid = 0
           /\ \A i \in Id \ {Main} : rows[i] # Gone => rows[i].rid # 0 /\ ~rows[i].rule
           /\ \A i \in unissued : rows[i] = Gone
BY DEF IInv, TypeOK, OpInv, MainIssued, Rows, Assumptions, RowAssumption

LEMMA StartsStep ==
    ASSUME IInv, Assumptions, NEW o \in Op, NEW kind \in {"delete", "update"}, NEW i \in Id,
           NEW s \in Slot \cup {0}, NEW change \in AllChanges \cup {"none"},
           Starts(o, kind, i, s, change),
           change \in {"rule", "norepeat", "zone"} => i = Main /\ s = 0 /\ kind = "update"
    PROVE  IInv'
<1> DEFINE next == [Idle EXCEPT !.pc = IF kind = "update" /\ s # 0 THEN "series" ELSE "look",
                               !.kind = kind, !.id = i, !.ts = s, !.change = change]
<1>0. TypeOK /\ MainIssued /\ OpInv /\ OneRowPerOccurrence
  BY DEF IInv
<1>1. /\ op[o].pc = "idle" /\ begun < MaxOps /\ i \notin unissued
      /\ op' = [op EXCEPT ![o] = next] /\ begun' = begun + 1
      /\ raced' = (raced \/ \E other \in Op : op[other].pc # "idle")
      /\ rows' = rows /\ unissued' = unissued /\ halfway' = halfway
  BY DEF Starts
<1>2. /\ next.pc \in {"series", "look"} /\ (next.pc = "series" => s # 0)
      /\ (kind = "update" /\ next.pc = "look" => s = 0)
      /\ next.kind = kind /\ next.id = i /\ next.ts = s /\ next.change = change
      /\ next.isMaster = FALSE /\ next.ids = {} /\ next \in OpState
  BY DEF Idle, OpState, Pc, Outcome
<1>3. OpOK(next, rows, unissued)
  BY <1>1, <1>2 DEF OpOK, AllChanges
<1>4. TypeOK'
  <2>1. begun' \in 0..MaxOps
    BY <1>0, <1>1 DEF TypeOK, Assumptions, BoundAssumption
  <2> QED
    BY <2>1, <1>0, <1>1, <1>2 DEF TypeOK
<1>5. MainIssued'
  BY <1>0, <1>1 DEF MainIssued
<1>6. OpInv'
  BY <1>0, <1>1, <1>3 DEF OpInv, TypeOK
<1>7. AloneInv'
  BY <1>0, <1>1 DEF AloneInv, TypeOK
<1>8. NewInv'
  BY <1>0, <1>1, <1>2 DEF NewInv, TypeOK
<1>9. OneRowPerOccurrence'
  BY <1>0, <1>1 DEF OneRowPerOccurrence, Exceptions, Present
<1> QED
  BY <1>4, <1>5, <1>6, <1>7, <1>8, <1>9 DEF IInv

LEMMA LookDeleteStep ==
    ASSUME IInv, Assumptions, NEW o \in Op, LookDelete(o) PROVE IInv'
<1> DEFINE me == op[o]
           row == rows[me.id]
           ts == IF me.ts = 0 THEN row.rid ELSE me.ts
<1>0. me \in OpState /\ OpOK(me, rows, unissued) /\ me.pc = "look" /\ me.kind = "delete"
  BY OpTypes DEF LookDelete
<1>1. me.id \in Id \ unissued /\ row \in Rows /\ halfway \in BOOLEAN
  BY <1>0, OpTypes DEF OpOK
<1>2. CASE row = Gone
  BY <1>0, <1>2, RefusedStep DEF LookDelete
<1>3. CASE row # Gone /\ ts # 0
  <2> DEFINE next == [me EXCEPT !.pc = "series", !.ts = ts]
  <2>1. ts \in Slot
    BY <1>0, <1>1, <1>3 DEF Rows, Row, OpState
  <2>2. next \in OpState /\ OpOK(next, rows, unissued) /\ next.pc = "series"
    BY <1>0, <1>3, <2>1 DEF OpState, OpOK, Pc
  <2>3. Goes(o, next)
    BY <1>3 DEF LookDelete
  <2> QED
    BY <1>0, <1>1, <2>2, <2>3, ReadStep DEF Goes
<1>4. CASE row # Gone /\ ts = 0 /\ row.rule
  <2> DEFINE next == [me EXCEPT !.pc = "list", !.isMaster = TRUE]
  <2>1. next \in OpState /\ OpOK(next, rows, unissued) /\ next.pc = "list"
    BY <1>0, <1>4 DEF OpState, OpOK, Pc
  <2>2. Goes(o, next)
    BY <1>4 DEF LookDelete
  <2> QED
    BY <1>0, <1>1, <2>1, <2>2, ReadStep DEF Goes
<1>5. CASE row # Gone /\ ts = 0 /\ ~row.rule
  <2> DEFINE next == [me EXCEPT !.pc = "remove", !.ids = {me.id}]
  <2>1. next \in OpState /\ OpOK(next, rows, unissued) /\ next.pc = "remove"
    BY <1>0, <1>1, <1>5 DEF OpState, OpOK, Pc
  <2>2. Goes(o, next)
    BY <1>5 DEF LookDelete
  <2> QED
    BY <1>0, <1>1, <2>1, <2>2, ReadStep DEF Goes
<1> QED
  BY <1>2, <1>3, <1>4, <1>5

LEMMA LookUpdateStep ==
    ASSUME IInv, Assumptions, NEW o \in Op, LookUpdate(o) PROVE IInv'
<1> DEFINE me == op[o]
           next == [me EXCEPT !.pc = "read", !.isMaster = rows[me.id].rule]
<1>0. me \in OpState /\ OpOK(me, rows, unissued) /\ me.pc = "look" /\ me.kind = "update"
  BY OpTypes DEF LookUpdate
<1>1. me.id \in Id \ unissued /\ rows[me.id] \in Rows /\ halfway \in BOOLEAN
  BY <1>0, OpTypes DEF OpOK
<1>2. CASE rows[me.id] = Gone
  BY <1>0, <1>2, RefusedStep DEF LookUpdate
<1>3. CASE rows[me.id] # Gone
  <2>1. next \in OpState /\ OpOK(next, rows, unissued) /\ next.pc = "read"
    BY <1>0, <1>1, <1>3 DEF OpState, OpOK, Pc, Rows, Row
  <2>2. Goes(o, next)
    BY <1>3 DEF LookUpdate
  <2> QED
    BY <1>0, <1>1, <2>1, <2>2, ReadStep DEF Goes
<1> QED
  BY <1>2, <1>3

LEMMA SeriesGetStep ==
    ASSUME IInv, Assumptions, NEW o \in Op, SeriesGet(o) PROVE IInv'
<1> DEFINE me == op[o]
           next == [me EXCEPT !.pc = "related", !.snap = rows[me.id]]
<1>0. me \in OpState /\ OpOK(me, rows, unissued) /\ me.pc = "series"
  BY OpTypes DEF SeriesGet
<1>1. me.id \in Id \ unissued /\ rows[me.id] \in Rows /\ halfway \in BOOLEAN
  BY <1>0, OpTypes DEF OpOK
<1>2. CASE rows[me.id] = Gone
  BY <1>0, <1>2, RefusedStep DEF SeriesGet
<1>3. CASE rows[me.id] # Gone
  <2>1. next \in OpState /\ OpOK(next, rows, unissued) /\ next.pc = "related"
    BY <1>0, <1>1, <1>3 DEF OpState, OpOK, Pc, Rows
  <2>2. Goes(o, next)
    BY <1>3 DEF SeriesGet
  <2> QED
    BY <1>0, <1>1, <2>1, <2>2, ReadStep DEF Goes
<1> QED
  BY <1>2, <1>3

\* Deleting an occurrence condemns rows that stand for it only.
LEMMA DeletingOK ==
    ASSUME IInv, Assumptions, NEW o \in Op, op[o].pc = "related", op[o].kind = "delete",
           NEW ids \in SUBSET EditedRows(o), Goes(o, Deleting(o, ids))
    PROVE  IInv'
<1> DEFINE me == op[o]
           next == Deleting(o, ids)
<1>0. me \in OpState /\ OpOK(me, rows, unissued) /\ halfway \in BOOLEAN /\ Main \in Id \ unissued
  BY OpTypes
<1>1. \A i \in ids : i \in Id /\ i \notin unissued /\ rows[i].rid = me.ts
  BY OpTypes DEF EditedRows, Exceptions, Present
<1>2. next \in OpState /\ next.pc = "read"
  BY <1>0, <1>1 DEF Deleting, OpState, Pc
<1>3. OpOK(next, rows, unissued)
  BY <1>0, <1>1 DEF Deleting, OpOK, Doomed, OpState
<1> QED
  BY <1>0, <1>2, <1>3, ReadStep DEF Goes

LEMMA RelatedStep ==
    ASSUME IInv, Assumptions, NEW o \in Op, Related(o) PROVE IInv'
<1> DEFINE me == op[o]
<1>0. /\ me \in OpState /\ OpOK(me, rows, unissued) /\ me.pc = "related"
      /\ halfway \in BOOLEAN /\ rows \in [Id -> Rows] /\ Main \in Id
  BY OpTypes DEF Related
<1>1. CASE Refused(o)
  BY <1>0, <1>1, RefusedStep
<1>2. CASE ~Refused(o)
  <2>1. Master(o) # Gone /\ Master(o) \in Row
    BY <1>0, <1>2 DEF Related, Master, Rows, OpState, OpOK
  <2>2. ASSUME me.kind = "delete", NEW i \in EditedRows(o), Goes(o, Deleting(o, {i}))
        PROVE  IInv'
    BY <1>0, <2>2, DeletingOK
  <2>3. CASE me.kind = "delete" /\ Goes(o, Deleting(o, {}))
    BY <1>0, <2>3, DeletingOK
  <2>4. ASSUME me.kind = "update", NEW i \in EditedRows(o),
               Goes(o, [me EXCEPT !.pc = "read", !.id = i])
        PROVE  IInv'
    <3> DEFINE next == [me EXCEPT !.pc = "read", !.id = i]
    <3>1. i \in Id \ unissued
      BY OpTypes DEF EditedRows, Exceptions, Present
    <3>2. next \in OpState /\ next.pc = "read" /\ OpOK(next, rows, unissued)
      BY <1>0, <2>4, <3>1 DEF OpState, OpOK, Pc
    <3> QED
      BY <1>0, <2>4, <3>2, ReadStep DEF Goes
  <2>5. CASE /\ me.kind = "update" /\ EditedRows(o) = {}
             /\ Goes(o, [me EXCEPT !.pc = "create", !.snap = Master(o)])
    <3> DEFINE next == [me EXCEPT !.pc = "create", !.snap = Master(o)]
    <3>1. next \in OpState /\ next.pc = "create" /\ next.ts = me.ts /\ OpOK(next, rows, unissued)
      BY <1>0, <2>1, <2>5 DEF OpState, OpOK, Pc
    <3>2. \A i \in Exceptions : rows[i].rid # next.ts
      BY <2>5, <3>1 DEF EditedRows
    <3> QED
      BY <1>0, <2>5, <3>1, <3>2, ReadStep DEF Goes
  <2> QED
    BY <1>2, <2>2, <2>3, <2>4, <2>5 DEF Related, RelatedDelete, RelatedUpdate
<1> QED
  BY <1>1, <1>2

LEMMA ReadRowStep ==
    ASSUME IInv, Assumptions, NEW o \in Op, Read(o) PROVE IInv'
<1> DEFINE me == op[o]
           next == [me EXCEPT !.pc = "write", !.snap = rows[me.id]]
<1>0. me \in OpState /\ OpOK(me, rows, unissued) /\ me.pc = "read"
  BY OpTypes DEF Read
<1>1. me.id \in Id \ unissued /\ rows[me.id] \in Rows /\ halfway \in BOOLEAN
  BY <1>0, OpTypes DEF OpOK
<1>2. CASE rows[me.id] = Gone
  BY <1>0, <1>2, RefusedStep DEF Read
<1>3. CASE rows[me.id] # Gone
  <2>1. next \in OpState /\ next.pc = "write"
    BY <1>0, <1>1, <1>3 DEF OpState, Pc, Rows
  <2>2. Snapped(next, rows)
    BY <1>0, <1>1, <1>3, OpTypes DEF Snapped, OpState
  <2>3. Doomed(me, rows, unissued) => Doomed(next, rows, unissued)
    BY <1>0 DEF Doomed, OpState
  <2>4. OpOK(next, rows, unissued)
    BY <1>0, <1>1, <2>2, <2>3 DEF OpState, OpOK
  <2>5. Goes(o, next)
    BY <1>3 DEF Read
  <2> QED
    BY <1>0, <1>1, <2>1, <2>4, <2>5, ReadStep DEF Goes
<1> QED
  BY <1>2, <1>3

LEMMA ListStep ==
    ASSUME IInv, Assumptions, NEW o \in Op, List(o) PROVE IInv'
<1> DEFINE me == op[o]
           next == [me EXCEPT !.pc = "remove", !.ids = ToRemove(me)]
<1>0. me \in OpState /\ OpOK(me, rows, unissued) /\ me.pc = "list" /\ halfway \in BOOLEAN
  BY OpTypes DEF List
<1>1. me.ts = 0 /\ me.id \in Id
  BY <1>0 DEF OpOK
<1>2. CASE Goes(o, Ended("updated"))
  BY <1>0, <1>2, EndStep DEF Goes, Ends, Outcome
<1>3. CASE Goes(o, next)
  <2>1. ToRemove(me) \subseteq Id
    BY <1>1 DEF ToRemove, Present, Exceptions
  <2>2. next \in OpState /\ next.pc = "remove"
    BY <1>0, <2>1 DEF OpState, Pc
  <2>3. OpOK(next, rows, unissued)
    BY <1>0, <1>1 DEF OpOK, OpState
  <2> QED
    BY <1>0, <1>3, <2>2, <2>3, ReadStep DEF Goes
<1> QED
  BY <1>2, <1>3 DEF List

-----------------------------------------------------------------------------
(* The writes.                                                             *)

\* A request the server has carried out, whether or not its reply arrives.
LEMMA AnsweredStep ==
    ASSUME IInv, Assumptions, NEW o \in Op, NEW next \in OpState, op[o].pc # "idle",
           Answered(o, next), UNCHANGED <<begun, raced>>, next.pc # "create",
           RowsTyped, RidsKept, OpOK(next, rows', unissued'), ~raced => OneRowPerOccurrence'
    PROVE  IInv'
<1>1. halfway \in BOOLEAN
  BY OpTypes
<1>2. CASE op' = [op EXCEPT ![o] = next] /\ UNCHANGED halfway
  BY <1>1, <1>2, OpStep
<1>3. CASE Ends(o, "failed") /\ halfway' = (halfway \/ next.pc # "idle")
  <2> DEFINE last == Ended("failed")
  <2>1. last \in OpState /\ last.pc = "idle" /\ OpOK(last, rows', unissued')
    BY EndedOK DEF Outcome
  <2>2. op' = [op EXCEPT ![o] = last] /\ halfway' \in BOOLEAN
    BY <1>1, <1>3 DEF Ends
  <2> QED
    BY <2>1, <2>2, OpStep
<1> QED
  BY <1>2, <1>3 DEF Answered

\* The row an update sends stands for the same occurrence, and is no series if
\* it is an exception's.
LEMMA PatchedOK ==
    ASSUME IInv, Assumptions, NEW o \in Op, op[o].pc = "write", NEW x \in Schedule
    PROVE  LET row == Patched(op[o].snap, op[o].change, op[o].ts, x)
           IN  /\ row \in Row /\ row # Gone /\ row.rid = op[o].snap.rid
               /\ op[o].id # Main => ~row.rule
<1> DEFINE me == op[o]
           row == Patched(me.snap, me.change, me.ts, x)
<1>0. me \in OpState /\ OpOK(me, rows, unissued)
  BY OpTypes
<1>1. Snapped(me, rows) /\ me.snap \in Row
  BY <1>0 DEF OpOK, Snapped, OpState
<1>2. me.change = "exdate" => me.ts \in Slot
  BY <1>0 DEF OpOK, OpState
<1>3. row \in Row /\ row.rid = me.snap.rid
  <2>1. /\ ((me.snap.rule \/ me.change = "rule") /\ me.change # "norepeat") \in BOOLEAN
        /\ me.snap.schedule \in Schedule /\ me.snap.rid \in Slot \cup {0}
        /\ me.snap.exdates \cup {me.ts} \in SUBSET Slot \/ me.change # "exdate"
        /\ me.snap.exdates \in SUBSET Slot /\ {} \in SUBSET Slot
        /\ me.snap.seq \in Nat /\ me.snap.seq + 1 \in Nat
    BY <1>1, <1>2 DEF Row
  <2> QED
    BY <1>1, <2>1 DEF Patched, Row
<1>4. me.id # Main => ~row.rule
  BY <1>0, <1>1 DEF Patched, Row, Snapped, OpOK
<1> QED
  BY <1>3, <1>4 DEF Assumptions, GoneAssumption

LEMMA AfterWriteOK ==
    ASSUME NEW me \in OpState, me.pc = "write", NEW rs, NEW un, OpOK(me, rs, un)
    PROVE  /\ AfterWrite(me) \in OpState /\ OpOK(AfterWrite(me), rs, un)
           /\ AfterWrite(me).pc # "create"
<1> DEFINE remove == [me EXCEPT !.pc = "remove"]
           list == [me EXCEPT !.pc = "list"]
<1>1. \A outcome \in {"deletedOccurrence", "updated", "editedOccurrence"} :
         /\ Ended(outcome) \in OpState /\ OpOK(Ended(outcome), rs, un)
         /\ Ended(outcome).pc # "create"
  BY EndedOK DEF Outcome
<1>2. CASE me.change = "exdate"
  <2>1. remove \in OpState /\ remove.pc = "remove" /\ Doomed(remove, rs, un)
    BY <1>2 DEF OpState, Pc, OpOK, Doomed
  <2>2. OpOK(remove, rs, un)
    BY <1>2, <2>1 DEF OpOK, OpState
  <2> QED
    BY <1>1, <1>2, <2>1, <2>2 DEF AfterWrite
<1>3. CASE me.change # "exdate" /\ me.isMaster /\ Significant(me.change)
  <2>1. list \in OpState /\ list.pc = "list" /\ OpOK(list, rs, un)
    BY <1>3 DEF OpState, Pc, OpOK
  <2> QED
    BY <1>3, <2>1 DEF AfterWrite
<1>4. CASE me.change # "exdate" /\ ~(me.isMaster /\ Significant(me.change))
  BY <1>1, <1>4 DEF AfterWrite
<1> QED
  BY <1>2, <1>3, <1>4

\* What an update does to the rows.
LEMMA WriteRows ==
    ASSUME IInv, Assumptions, NEW o \in Op, op[o].pc = "write", NEW x \in Schedule,
           rows[op[o].id] # Gone,
           rows' = [rows EXCEPT ![op[o].id] = Patched(op[o].snap, op[o].change, op[o].ts, x)],
           UNCHANGED <<unissued, raced>>
    PROVE  RowsTyped /\ RidsKept /\ Present' = Present /\ (~raced => OneRowPerOccurrence')
<1> DEFINE me == op[o]
           row == Patched(me.snap, me.change, me.ts, x)
<1>0. /\ me \in OpState /\ OpOK(me, rows, unissued) /\ rows \in [Id -> Rows]
      /\ Main \in Id /\ \A i \in unissued : rows[i] = Gone
      /\ rows[Main] # Gone => rows[Main].rid = 0
      /\ \A i \in Id \ {Main} : rows[i] # Gone => rows[i].rid # 0 /\ ~rows[i].rule
  BY OpTypes
<1>1. me.id \in Id \ unissued /\ rows[me.id].rid = me.snap.rid
  BY <1>0 DEF OpOK, Snapped
<1>2. row \in Row /\ row # Gone /\ row.rid = rows[me.id].rid /\ (me.id # Main => ~row.rule)
  BY <1>1, PatchedOK
<1>3. \A i \in Id : /\ rows'[i] # Gone <=> rows[i] # Gone
                    /\ rows[i] # Gone => rows'[i].rid = rows[i].rid
                    /\ rows'[i] \in Rows /\ (i # me.id => rows'[i] = rows[i])
  BY <1>0, <1>1, <1>2 DEF Rows
<1>4. rows' \in [Id -> Rows]
  BY <1>0, <1>2 DEF Rows
<1>5. RowsTyped
  BY <1>0, <1>1, <1>2, <1>3, <1>4 DEF RowsTyped
<1>6. RidsKept
  BY <1>3 DEF RidsKept
<1>7. Present' = Present /\ Exceptions' = Exceptions
  BY <1>3 DEF Present, Exceptions
<1>8. ~raced => OneRowPerOccurrence'
  BY <1>3, <1>7 DEF IInv, OneRowPerOccurrence, Exceptions, Present
<1> QED
  BY <1>5, <1>6, <1>7, <1>8

LEMMA WriteStep ==
    ASSUME IInv, Assumptions, NEW o \in Op, Write(o) PROVE IInv'
<1> DEFINE me == op[o]
<1>0. me \in OpState /\ OpOK(me, rows, unissued) /\ me.pc = "write"
  BY OpTypes DEF Write
<1>1. CASE Refused(o)
  BY <1>0, <1>1, RefusedStep
<1>2. ASSUME NEW x \in Schedule, rows[me.id] # Gone,
             rows' = [rows EXCEPT ![me.id] = Patched(me.snap, me.change, me.ts, x)],
             Answered(o, AfterWrite(me)), UNCHANGED <<unissued, begun, raced>>
      PROVE  IInv'
  <2>1. RowsTyped /\ RidsKept /\ (~raced => OneRowPerOccurrence')
    BY <1>0, <1>2, WriteRows
  <2>2. OpOK(me, rows', unissued')
    BY <1>0, <2>1, OpOKKept DEF RowsTyped
  <2>3. /\ AfterWrite(me) \in OpState /\ OpOK(AfterWrite(me), rows', unissued')
        /\ AfterWrite(me).pc # "create"
    BY <1>0, <2>2, AfterWriteOK
  <2> QED
    BY <1>0, <1>2, <2>1, <2>3, AnsweredStep
<1> QED
  BY <1>1, <1>2 DEF Write

\* What the creation of an edited occurrence's row does to the rows.
LEMMA CreateRows ==
    ASSUME IInv, Assumptions, NEW o \in Op, op[o].pc = "create", NEW i \in unissued,
           rows' = [rows EXCEPT ![i] = Exception(op[o].snap, op[o].ts)],
           unissued' = unissued \ {i}, UNCHANGED raced
    PROVE  RowsTyped /\ RidsKept /\ Present \subseteq Present' /\ (~raced => OneRowPerOccurrence')
<1> DEFINE me == op[o]
           row == Exception(me.snap, me.ts)
<1>0. /\ me \in OpState /\ OpOK(me, rows, unissued) /\ rows \in [Id -> Rows]
      /\ Main \in Id /\ Main \notin unissued /\ \A j \in unissued : rows[j] = Gone
      /\ rows[Main] # Gone => rows[Main].rid = 0
      /\ \A j \in Id \ {Main} : rows[j] # Gone => rows[j].rid # 0 /\ ~rows[j].rule
  BY OpTypes
<1>1. me.snap \in Row /\ me.ts \in Slot /\ me.ts # 0
  BY <1>0 DEF OpOK, OpState
<1>2. row \in Row /\ row # Gone /\ row.rid = me.ts /\ ~row.rule
  <2>1. row \in Row /\ row.rid = me.ts /\ ~row.rule
    BY <1>1 DEF Exception, Row, Assumptions, RowAssumption
  <2> QED
    BY <2>1 DEF Assumptions, GoneAssumption
<1>3. i \in Id /\ i # Main /\ unissued \subseteq Id
  BY <1>0 DEF IInv, TypeOK
<1>4. \A j \in Id : j # i => rows'[j] = rows[j]
  BY <1>0
<1>5. rows'[i] = row /\ rows' \in [Id -> Rows]
  BY <1>0, <1>2, <1>3 DEF Rows
<1>6. RowsTyped
  BY <1>0, <1>1, <1>2, <1>3, <1>4, <1>5 DEF RowsTyped
<1>7. RidsKept
  BY <1>0, <1>3, <1>4 DEF RidsKept
<1>8. Present \subseteq Present'
  BY <1>0, <1>4 DEF Present
<1>9. ASSUME ~raced PROVE OneRowPerOccurrence'
  <2>1. \A j \in Exceptions' : j # i => j \in Exceptions /\ rows'[j] = rows[j]
    BY <1>4 DEF Exceptions, Present
  <2>2. \A j \in Exceptions : rows[j].rid # me.ts
    BY <1>9 DEF IInv, NewInv
  <2>3. OneRowPerOccurrence
    BY DEF IInv
  <2> QED
    BY <1>2, <1>5, <1>9, <2>1, <2>2, <2>3 DEF OneRowPerOccurrence
<1> QED
  BY <1>6, <1>7, <1>8, <1>9

LEMMA CreateStep ==
    ASSUME IInv, Assumptions, NEW o \in Op, Create(o) PROVE IInv'
<1> DEFINE me == op[o]
           last == Ended("editedOccurrence")
<1>0. me.pc = "create"
  BY DEF Create
<1>1. CASE Refused(o)
  BY <1>0, <1>1, RefusedStep
<1>2. ASSUME NEW i \in unissued, rows' = [rows EXCEPT ![i] = Exception(me.snap, me.ts)],
             unissued' = unissued \ {i}, Answered(o, last), UNCHANGED <<begun, raced>>
      PROVE  IInv'
  <2>1. RowsTyped /\ RidsKept /\ (~raced => OneRowPerOccurrence')
    BY <1>0, <1>2, CreateRows
  <2>2. last \in OpState /\ last.pc # "create" /\ OpOK(last, rows', unissued')
    BY EndedOK DEF Outcome
  <2> QED
    BY <1>0, <1>2, <2>1, <2>2, AnsweredStep
<1> QED
  BY <1>1, <1>2 DEF Create

\* What a removal does to the rows.
LEMMA RemoveRows ==
    ASSUME IInv, Assumptions, NEW ids, UNCHANGED <<unissued, raced>>,
           rows' = [i \in Id |-> IF i \in ids THEN Gone ELSE rows[i]]
    PROVE  RowsTyped /\ RidsKept /\ (~raced => OneRowPerOccurrence')
<1>0. TypeOK /\ OneRowPerOccurrence /\ Main \in Id
  BY DEF IInv, Assumptions, RowAssumption
<1>1. \A i \in Id : rows'[i] \in {Gone, rows[i]} /\ rows'[i] \in Rows
  BY <1>0 DEF TypeOK, Rows
<1>2. RowsTyped
  BY <1>0, <1>1 DEF TypeOK, RowsTyped, Rows
<1>3. RidsKept
  BY <1>1 DEF RidsKept
<1>4. \A i \in Exceptions' : i \in Exceptions /\ rows'[i] = rows[i]
  BY <1>1 DEF Exceptions, Present
<1>5. ~raced => OneRowPerOccurrence'
  BY <1>0, <1>4 DEF OneRowPerOccurrence
<1> QED
  BY <1>2, <1>3, <1>5

LEMMA RemoveStep ==
    ASSUME IInv, Assumptions, NEW o \in Op, Remove(o) PROVE IInv'
<1> DEFINE me == op[o]
<1>0. /\ me.pc = "remove" /\ UNCHANGED <<unissued, begun, raced>> /\ halfway \in BOOLEAN
      /\ rows' = [i \in Id |-> IF i \in me.ids THEN Gone ELSE rows[i]]
  BY OpTypes DEF Remove
<1>1. RowsTyped /\ RidsKept /\ (~raced => OneRowPerOccurrence')
  BY <1>0, RemoveRows
<1>2. CASE Answered(o, Removed(me))
  <2>1. \A outcome \in {"updated", "deletedOccurrence", "deletedSeries", "deletedEvent"} :
           /\ Ended(outcome) \in OpState /\ Ended(outcome).pc # "create"
           /\ OpOK(Ended(outcome), rows', unissued')
    BY EndedOK DEF Outcome
  <2>2. /\ Removed(me) \in OpState /\ Removed(me).pc # "create"
        /\ OpOK(Removed(me), rows', unissued')
    BY <2>1 DEF Removed
  <2> QED
    BY <1>0, <1>1, <1>2, <2>2, AnsweredStep
<1>3. CASE Ends(o, "refused") /\ halfway' = (halfway \/ Halfway(me))
  <2> DEFINE last == Ended("refused")
  <2>1. last \in OpState /\ last.pc = "idle" /\ OpOK(last, rows', unissued')
    BY EndedOK DEF Outcome
  <2>2. op' = [op EXCEPT ![o] = last] /\ halfway' \in BOOLEAN
    BY <1>0, <1>3 DEF Ends, Halfway
  <2> QED
    BY <1>0, <1>1, <2>1, <2>2, OpStep
<1> QED
  BY <1>2, <1>3 DEF Remove

LEMMA FailsStep ==
    ASSUME IInv, Assumptions, NEW o \in Op, Fails(o) PROVE IInv'
<1>1. halfway' \in BOOLEAN
  BY OpTypes DEF Fails, Halfway
<1> QED
  BY <1>1, EndStep DEF Fails, Outcome

-----------------------------------------------------------------------------
(* The inductive invariant, and the theorems.                              *)

\* A series just created, with nothing under way.
LEMMA InvInit == ASSUME Init, Assumptions PROVE IInv
<1>1. [rule |-> TRUE, schedule |-> FirstSchedule, exdates |-> {}, rid |-> 0, seq |-> 0] \in Row
  BY DEF Assumptions, RowAssumption, Row
<1>2. rows \in [Id -> Rows]
  BY <1>1 DEF Init, Rows
<1>3. Idle \in OpState /\ Idle.pc = "idle"
  BY DEF Idle, OpState, Pc, Outcome
<1>4. TypeOK
  <2>1. rows[Main].rid = 0 /\ \A i \in Id \ {Main} : rows[i] = Gone
    BY DEF Init, Assumptions, RowAssumption
  <2>2. op \in [Op -> OpState] /\ raced \in BOOLEAN /\ halfway \in BOOLEAN
    BY <1>3 DEF Init
  <2>3. begun \in 0..MaxOps
    BY DEF Init, Assumptions, BoundAssumption
  <2>4. unissued \in SUBSET Id /\ \A i \in unissued : rows[i] = Gone
    BY <2>1 DEF Init
  <2> QED
    BY <1>2, <2>1, <2>2, <2>3, <2>4 DEF TypeOK, Rows
<1>5. MainIssued
  BY DEF Init, MainIssued
<1>6. OpInv
  BY <1>3 DEF Init, OpInv, OpOK
<1>7. AloneInv /\ NewInv
  BY <1>3 DEF Init, AloneInv, NewInv
<1>8. Exceptions = {}
  BY DEF Init, Exceptions, Present
<1> QED
  BY <1>4, <1>5, <1>6, <1>7, <1>8 DEF IInv, OneRowPerOccurrence

\* Every action keeps the inductive invariant.
LEMMA InvStep == ASSUME IInv, Assumptions, [Next]_vars PROVE IInv'
<1>1. ASSUME NEW o \in Op, OpNext(o) PROVE IInv'
  <2>1. ASSUME NEW i \in Id, NEW s \in Slot \cup {0}, StartDelete(o, i, s) PROVE IInv'
    BY <2>1, StartsStep DEF StartDelete
  <2>2. ASSUME NEW i \in Id, NEW s \in Slot \cup {0}, NEW change \in Changes,
               StartUpdate(o, i, s, change)
        PROVE  IInv'
    <3>1. /\ change \in AllChanges
          /\ change \in {"rule", "norepeat", "zone"} => i = Main /\ s = 0
      BY <2>2 DEF StartUpdate, Assumptions, BoundAssumption
    <3> QED
      BY <2>2, <3>1, StartsStep DEF StartUpdate
  <2> QED
    BY <1>1, <2>1, <2>2, LookDeleteStep, LookUpdateStep, SeriesGetStep, RelatedStep,
       ReadRowStep, ListStep, WriteStep, CreateStep, RemoveStep, FailsStep DEF OpNext
<1>2. CASE UNCHANGED vars
  BY <1>2 DEF vars, IInv, TypeOK, MainIssued, OpInv, AloneInv, NewInv, OneRowPerOccurrence,
              Exceptions, Present
<1> QED
  BY <1>1, <1>2 DEF Next

\* The inductive invariant: an ID is issued once and a row stands for one
\* occurrence for as long as it exists, so what an operation has read of it
\* stays true in this respect.
THEOREM Invariance == Spec => []IInv
<1>1. Init => IInv
  BY InvInit, Constants
<1>2. IInv /\ [Next]_vars => IInv'
  BY InvStep, Constants
<1> QED
  BY <1>1, <1>2, PTL DEF Spec

\* The types of EventSeries: in particular that the master is never an
\* exception, and no exception ever gets a rule, however operations interleave.
THEOREM TypeCorrect == Spec => []TypeOK
BY Invariance, PTL DEF IInv

\* However edits fail, are repeated or lose their replies, an occurrence never
\* has two rows of its own, as long as operations do not overlap.
THEOREM NoSecondRow == Spec => []OneRowPerOccurrence
BY Invariance, PTL DEF IInv

\* However operations overlap, an operation on one occurrence removes no row
\* but those of that occurrence.
THEOREM SparesOthers == Spec => OnlyItsOwnRows
<1> DEFINE Spared == \A o \in Op : op[o].ts # 0 /\ op'[o] # op[o]
                        => \A i \in Present \ Present' : rows[i].rid = op[o].ts
<1>1. ASSUME IInv, [Next]_vars PROVE [Spared]_vars
  <2>0. Assumptions
    BY Constants
  <2> SUFFICES ASSUME NEW o \in Op, OpNext(o) PROVE Spared
    BY <1>1 DEF Next
  <2>1. CASE Write(o)
    BY <1>1, <2>0, <2>1, WriteRows DEF Write, Refused, Present
  <2>2. CASE Create(o)
    BY <1>1, <2>0, <2>2, CreateRows DEF Create, Refused, Present
  <2>3. CASE Remove(o)
    <3>1. /\ rows' = [i \in Id |-> IF i \in op[o].ids THEN Gone ELSE rows[i]]
          /\ op[o].pc = "remove"
      BY <2>3 DEF Remove
    <3>2. op[o] \in OpState /\ OpOK(op[o], rows, unissued) /\ op \in [Op -> OpState]
      BY <1>1, <2>0, OpTypes DEF IInv, TypeOK
    <3>3. op[o].ts # 0 => \A i \in op[o].ids : rows[i] # Gone => rows[i].rid = op[o].ts
      BY <3>1, <3>2 DEF OpOK, Doomed
    <3>4. \A i \in Present \ Present' : i \in op[o].ids /\ rows[i] # Gone
      BY <3>1 DEF Present
    <3>5. \A q \in Op : q # o => op'[q] = op[q]
      BY <2>3, <3>2 DEF Remove, Answered, Ends
    <3> QED
      BY <3>3, <3>4, <3>5
  <2>4. CASE rows' = rows
    BY <2>4 DEF Present
  <2> QED
    BY <2>1, <2>2, <2>3, <2>4
       DEF OpNext, StartDelete, StartUpdate, Starts, LookDelete, LookUpdate, SeriesGet,
           Related, RelatedDelete, RelatedUpdate, Read, List, Fails, Goes, Refused
<1>2. Spec => [][Spared]_vars
  BY <1>1, Invariance, PTL DEF Spec
<1> QED
  BY <1>2 DEF OnlyItsOwnRows

-----------------------------------------------------------------------------
(* EventSeries implements Agenda, and what its successes mean, for any     *)
(* slots, schedules, IDs, changes and numbers of operations.               *)
(*                                                                         *)
(* Both rest on SoloInv: what an operation that has not overlapped with    *)
(* another knows of the rows between its requests.  First the steps of     *)
(* Agenda, told occurrence by occurrence.                                  *)

AgendaStep == [Seen!Next]_(Seen!vars)

LEMMA Shows ==
    ASSUME NEW s \in Slot
    PROVE  /\ Shown(s) \in {"none", "original", "edited"}
           /\ (Shown(s) = "edited" <=> Edited(s))
           /\ (Shown(s) = "original" <=> ~Edited(s) /\ Generated(s))
BY DEF Shown

LEMMA Stutters ==
    ASSUME \A s \in Slot : Shown(s)' = Shown(s), raced' = raced
    PROVE  AgendaStep
BY DEF AgendaStep, Seen!vars

LEMMA Contends ==
    ASSUME raced' = TRUE
    PROVE  AgendaStep
BY DEF AgendaStep, Seen!Next, Seen!Contend

LEMMA EditsOne ==
    ASSUME NEW s \in Slot, Shown(s) = "original", Shown(s)' = "edited", raced' = raced,
           \A t \in Slot \ {s} : Shown(t)' = Shown(t)
    PROVE  AgendaStep
<1>1. Seen!Edit(s)
  BY DEF Seen!Edit
<1> QED
  BY <1>1 DEF AgendaStep, Seen!Next, Seen!Step

LEMMA HidesOne ==
    ASSUME NEW s \in Slot, Shown(s) # "none", Shown(s)' = "none", raced' = raced,
           \A t \in Slot \ {s} : Shown(t)' = Shown(t)
    PROVE  AgendaStep
<1>1. Seen!Delete(s)
  BY DEF Seen!Delete
<1> QED
  BY <1>1 DEF AgendaStep, Seen!Next, Seen!Step

LEMMA Reschedules ==
    ASSUME \A s \in Slot : Edited(s)' <=> Edited(s), raced' = raced
    PROVE  AgendaStep
<1>1. Seen!Reschedule
  BY DEF Seen!Reschedule, Seen!Views, Shown
<1> QED
  BY <1>1 DEF AgendaStep, Seen!Next, Seen!Step

LEMMA DropsEdits ==
    ASSUME \A s \in Slot : ~Edited(s)' /\ (Generated(s)' <=> Generated(s)), raced' = raced
    PROVE  AgendaStep
<1>1. CASE \E s \in Slot : Edited(s)
  <2>1. Seen!DropEdits
    BY <1>1 DEF Seen!DropEdits, Shown
  <2> QED
    BY <2>1 DEF AgendaStep, Seen!Next, Seen!Step
<1>2. CASE \A s \in Slot : ~Edited(s)
  BY <1>2, Stutters DEF Shown
<1> QED
  BY <1>1, <1>2

LEMMA Cancels ==
    ASSUME \A s \in Slot : Shown(s)' = "none", raced' = raced
    PROVE  AgendaStep
<1>1. Seen!Cancel
  BY DEF Seen!Cancel
<1> QED
  BY <1>1 DEF AgendaStep, Seen!Next, Seen!Step

\* A step that leaves the rows alone shows nothing new.
LEMMA RowsUnchanged ==
    ASSUME rows' = rows, raced' \in {raced, TRUE}
    PROVE  AgendaStep
<1>1. CASE raced' = raced
  BY <1>1, Stutters DEF Shown, Edited, Generated, Exceptions, Present
<1>2. CASE raced' = TRUE
  BY <1>2, Contends
<1> QED
  BY <1>1, <1>2

-----------------------------------------------------------------------------
(* What an operation knows as long as it is the only one: what it has read *)
(* is still so, and what it is about to create or remove is what the user  *)
(* should see come or go.                                                  *)

GeneratedIn(s, rs) ==
    rs[Main] # Gone /\ rs[Main].rule /\ s \in SlotsOf[rs[Main].schedule] \ rs[Main].exdates
ExceptionsIn(rs) == {i \in Id : rs[i] # Gone /\ rs[i].rid # 0}

SoloOK(me, rs) ==
    me.pc # "idle" =>
        /\ me.kind # "none"
        /\ me.isMaster => me.id = Main
        /\ me.pc \in {"read", "write"} /\ me.kind = "delete" => me.change = "exdate"
        /\ me.pc = "list" => me.isMaster
        /\ me.pc = "related" => me.snap = rs[me.id]
        /\ me.pc = "create" => GeneratedIn(me.ts, rs)
        /\ me.pc = "remove" =>
              /\ me.ts # 0 => ~GeneratedIn(me.ts, rs)
              /\ me.ts # 0 => \A i \in ExceptionsIn(rs) : rs[i].rid = me.ts => i \in me.ids
              /\ me.ts = 0 /\ me.kind = "delete" /\ me.isMaster =>
                    \A i \in Id : rs[i] # Gone => i \in me.ids
              /\ me.ts = 0 /\ me.kind = "delete" /\ ~me.isMaster =>
                    me.ids = {Main} /\ (rs[Main] # Gone => ~rs[Main].rule)
              /\ me.kind = "update" => ExceptionsIn(rs) \subseteq me.ids /\ Main \notin me.ids
        /\ me.pc \in {"read", "write"} /\ me.change = "exdate" =>
              \A i \in ExceptionsIn(rs) : rs[i].rid = me.ts => i \in me.ids

SoloInv == ~raced => \A o \in Op : SoloOK(op[o], rows)

LEMMA GeneratedIs == \A s \in Slot : GeneratedIn(s, rows) <=> Generated(s)
BY DEF GeneratedIn, Generated

LEMMA ExceptionsIs == ExceptionsIn(rows) = Exceptions
BY DEF ExceptionsIn, Exceptions, Present

LEMMA SoloEnded ==
    ASSUME NEW outcome \in Outcome, NEW rs
    PROVE  SoloOK(Ended(outcome), rs)
BY EndedOK DEF SoloOK

\* The other operations are idle.
LEMMA SoloStep ==
    ASSUME IInv, NEW o \in Op, op[o].pc # "idle", NEW next,
           op' = [op EXCEPT ![o] = next], raced' = raced, ~raced => SoloOK(next, rows')
    PROVE  SoloInv'
<1> SUFFICES ASSUME ~raced, NEW q \in Op PROVE SoloOK(op'[q], rows')
  BY DEF SoloInv
<1>1. op \in [Op -> OpState] /\ (q # o => op[q].pc = "idle")
  BY DEF IInv, TypeOK, AloneInv
<1>2. CASE q = o
  BY <1>1, <1>2
<1>3. CASE q # o
  BY <1>1, <1>3 DEF SoloOK
<1> QED
  BY <1>2, <1>3

\* Nothing changes but the operation's own state.
LEMMA SoloGoes ==
    ASSUME IInv, NEW o \in Op, op[o].pc # "idle", NEW next, Goes(o, next),
           ~raced => SoloOK(next, rows)
    PROVE  SoloInv' /\ AgendaStep
BY SoloStep, RowsUnchanged DEF Goes

LEMMA SoloEnds ==
    ASSUME IInv, NEW o \in Op, op[o].pc # "idle", NEW outcome \in Outcome, Ends(o, outcome),
           raced' = raced
    PROVE  SoloInv'
BY SoloStep, SoloEnded DEF Ends

LEMMA SoloRefused ==
    ASSUME IInv, NEW o \in Op, op[o].pc # "idle", Refused(o)
    PROVE  SoloInv' /\ AgendaStep
BY SoloEnds, RowsUnchanged DEF Refused, Outcome

\* Whether or not the reply arrives.
LEMMA SoloAnswered ==
    ASSUME IInv, NEW o \in Op, op[o].pc # "idle", NEW next, Answered(o, next),
           raced' = raced, ~raced => SoloOK(next, rows')
    PROVE  SoloInv'
BY SoloStep, SoloEnds DEF Answered, Outcome

\* What a lone operation knows.
LEMMA Alone ==
    ASSUME IInv, SoloInv, Assumptions, ~raced, NEW o \in Op
    PROVE  /\ op[o] \in OpState /\ SoloOK(op[o], rows) /\ OpOK(op[o], rows, unissued)
           /\ \A i \in Id \ {Main} : rows[i] # Gone => rows[i].rid # 0 /\ ~rows[i].rule
           /\ rows[Main] # Gone => rows[Main].rid = 0
BY OpTypes DEF SoloInv

-----------------------------------------------------------------------------
(* The reads.                                                              *)

LEMMA SoloStarts ==
    ASSUME IInv, NEW o \in Op, NEW kind \in {"delete", "update"}, NEW i, NEW s, NEW change,
           Starts(o, kind, i, s, change)
    PROVE  SoloInv' /\ AgendaStep
<1> DEFINE next == [Idle EXCEPT !.pc = IF kind = "update" /\ s # 0 THEN "series" ELSE "look",
                               !.kind = kind, !.id = i, !.ts = s, !.change = change]
<1>1. /\ op' = [op EXCEPT ![o] = next] /\ rows' = rows
      /\ raced' = (raced \/ \E other \in Op : op[other].pc # "idle")
  BY DEF Starts
<1>2. next.pc \in {"look", "series"} /\ next.kind = kind /\ next.isMaster = FALSE
  BY DEF Idle
<1>3. SoloOK(next, rows')
  BY <1>2 DEF SoloOK
<1>4. SoloInv'
  <2> SUFFICES ASSUME ~raced', NEW q \in Op PROVE SoloOK(op'[q], rows')
    BY DEF SoloInv
  <2>1. op \in [Op -> OpState] /\ op[q].pc = "idle"
    BY <1>1 DEF IInv, TypeOK
  <2>2. CASE q = o
    BY <1>1, <1>3, <2>1, <2>2
  <2>3. CASE q # o
    BY <1>1, <2>1, <2>3 DEF SoloOK
  <2> QED
    BY <2>2, <2>3
<1>5. raced' \in {raced, TRUE}
  BY <1>1 DEF IInv, TypeOK
<1> QED
  BY <1>1, <1>4, <1>5, RowsUnchanged

LEMMA SoloLookDelete ==
    ASSUME IInv, SoloInv, Assumptions, NEW o \in Op, LookDelete(o)
    PROVE  SoloInv' /\ AgendaStep
<1> DEFINE me == op[o]
           row == rows[me.id]
           ts == IF me.ts = 0 THEN row.rid ELSE me.ts
           series == [me EXCEPT !.pc = "series", !.ts = ts]
           list == [me EXCEPT !.pc = "list", !.isMaster = TRUE]
           remove == [me EXCEPT !.pc = "remove", !.ids = {me.id}]
<1>0. me.pc = "look" /\ me.kind = "delete" /\ me \in OpState
  BY OpTypes DEF LookDelete
<1>1. CASE row = Gone
  BY <1>0, <1>1, SoloRefused DEF LookDelete
<1>2. CASE row # Gone /\ ts # 0
  <2>1. ~raced => SoloOK(series, rows)
    BY <1>0, Alone DEF SoloOK, OpState
  <2>2. Goes(o, series)
    BY <1>2 DEF LookDelete
  <2> QED
    BY <1>0, <2>1, <2>2, SoloGoes
<1>3. CASE row # Gone /\ ts = 0 /\ row.rule
  <2>1. ~raced => SoloOK(list, rows)
    BY <1>0, <1>3, Alone DEF SoloOK, OpState, OpOK
  <2>2. Goes(o, list)
    BY <1>3 DEF LookDelete
  <2> QED
    BY <1>0, <2>1, <2>2, SoloGoes
<1>4. CASE row # Gone /\ ts = 0 /\ ~row.rule
  <2>1. ASSUME ~raced PROVE SoloOK(remove, rows)
    <3>1. /\ remove.pc = "remove" /\ remove.ts = 0 /\ remove.kind = "delete"
          /\ remove.ids = {me.id} /\ remove.isMaster = me.isMaster
      BY <1>0, <1>4 DEF OpState
    <3>2. me.id = Main /\ ~me.isMaster
      BY <1>0, <1>4, <2>1, Alone DEF OpOK
    <3> QED
      BY <1>4, <3>1, <3>2 DEF SoloOK
  <2>2. Goes(o, remove)
    BY <1>4 DEF LookDelete
  <2> QED
    BY <1>0, <2>1, <2>2, SoloGoes
<1> QED
  BY <1>1, <1>2, <1>3, <1>4

LEMMA SoloLookUpdate ==
    ASSUME IInv, SoloInv, Assumptions, NEW o \in Op, LookUpdate(o)
    PROVE  SoloInv' /\ AgendaStep
<1> DEFINE me == op[o]
           next == [me EXCEPT !.pc = "read", !.isMaster = rows[me.id].rule]
<1>0. me.pc = "look" /\ me.kind = "update" /\ me \in OpState
  BY OpTypes DEF LookUpdate
<1>1. CASE rows[me.id] = Gone
  BY <1>0, <1>1, SoloRefused DEF LookUpdate
<1>2. CASE rows[me.id] # Gone
  <2>1. ~raced => SoloOK(next, rows)
    BY <1>0, <1>2, Alone DEF SoloOK, OpState, OpOK
  <2>2. Goes(o, next)
    BY <1>2 DEF LookUpdate
  <2> QED
    BY <1>0, <2>1, <2>2, SoloGoes
<1> QED
  BY <1>1, <1>2

LEMMA SoloSeriesGet ==
    ASSUME IInv, SoloInv, Assumptions, NEW o \in Op, SeriesGet(o)
    PROVE  SoloInv' /\ AgendaStep
<1> DEFINE me == op[o]
           next == [me EXCEPT !.pc = "related", !.snap = rows[me.id]]
<1>0. me.pc = "series" /\ me \in OpState
  BY OpTypes DEF SeriesGet
<1>1. CASE rows[me.id] = Gone
  BY <1>0, <1>1, SoloRefused DEF SeriesGet
<1>2. CASE rows[me.id] # Gone
  <2>1. ~raced => SoloOK(next, rows)
    BY <1>0, <1>2, Alone DEF SoloOK, OpState
  <2>2. Goes(o, next)
    BY <1>2 DEF SeriesGet
  <2> QED
    BY <1>0, <2>1, <2>2, SoloGoes
<1> QED
  BY <1>1, <1>2

LEMMA SoloRelated ==
    ASSUME IInv, SoloInv, Assumptions, NEW o \in Op, Related(o)
    PROVE  SoloInv' /\ AgendaStep
<1> DEFINE me == op[o]
<1>0. me.pc = "related" /\ me \in OpState
  BY OpTypes DEF Related
<1>1. CASE Refused(o)
  BY <1>0, <1>1, SoloRefused
<1>2. ASSUME me.kind = "delete", NEW ids, Goes(o, Deleting(o, ids)),
             (ids = {} /\ EditedRows(o) = {}) \/ (\E i \in EditedRows(o) : ids = {i})
      PROVE  SoloInv' /\ AgendaStep
  <2> DEFINE next == Deleting(o, ids)
  <2>1. ASSUME ~raced PROVE SoloOK(next, rows)
    <3>1. /\ next.pc = "read" /\ next.kind = "delete" /\ next.change = "exdate"
          /\ next.ids = ids /\ next.ts = me.ts /\ next.isMaster = me.isMaster /\ next.id = Main
      BY <1>0, <1>2 DEF Deleting, OpState
    <3>2. \A i, j \in Exceptions : rows[i].rid = rows[j].rid => i = j
      BY <2>1 DEF IInv, OneRowPerOccurrence
    <3>3. \A i \in ExceptionsIn(rows) : rows[i].rid = me.ts => i \in ids
      BY <1>2, <3>2, ExceptionsIs DEF EditedRows
    <3> QED
      BY <3>1, <3>3 DEF SoloOK
  <2> QED
    BY <1>0, <1>2, <2>1, SoloGoes
<1>3. ASSUME me.kind = "update", NEW i \in EditedRows(o),
             Goes(o, [me EXCEPT !.pc = "read", !.id = i])
      PROVE  SoloInv' /\ AgendaStep
  <2> DEFINE next == [me EXCEPT !.pc = "read", !.id = i]
  <2>1. ~raced => SoloOK(next, rows)
    BY <1>0, <1>3, Alone DEF SoloOK, OpState, OpOK
  <2> QED
    BY <1>0, <1>3, <2>1, SoloGoes
<1>4. ASSUME me.kind = "update", Live(o), Master(o) # Gone, Master(o).rule,
             Goes(o, [me EXCEPT !.pc = "create", !.snap = Master(o)])
      PROVE  SoloInv' /\ AgendaStep
  <2> DEFINE next == [me EXCEPT !.pc = "create", !.snap = Master(o)]
  <2>1. ASSUME ~raced PROVE SoloOK(next, rows)
    <3>1. /\ next.pc = "create" /\ next.ts = me.ts /\ next.kind = me.kind
          /\ next.isMaster = me.isMaster /\ next.id = me.id
      BY <1>0 DEF OpState
    <3>2. me.snap = rows[me.id] /\ me.snap # Gone /\ me.id \in Id
      BY <1>0, <2>1, Alone DEF SoloOK, OpOK
    <3>3. Master(o) = rows[Main]
      BY <2>1, <3>2, Alone DEF Master
    <3>4. GeneratedIn(me.ts, rows)
      BY <1>4, <3>3 DEF Live, GeneratedIn
    <3> QED
      BY <1>0, <1>4, <2>1, <3>1, <3>4, Alone DEF SoloOK
  <2> QED
    BY <1>0, <1>4, <2>1, SoloGoes
<1> QED
  BY <1>1, <1>2, <1>3, <1>4 DEF Related, RelatedDelete, RelatedUpdate

LEMMA SoloRead ==
    ASSUME IInv, SoloInv, Assumptions, NEW o \in Op, Read(o)
    PROVE  SoloInv' /\ AgendaStep
<1> DEFINE me == op[o]
           next == [me EXCEPT !.pc = "write", !.snap = rows[me.id]]
<1>0. me.pc = "read" /\ me \in OpState
  BY OpTypes DEF Read
<1>1. CASE rows[me.id] = Gone
  BY <1>0, <1>1, SoloRefused DEF Read
<1>2. CASE rows[me.id] # Gone
  <2>1. ~raced => SoloOK(next, rows)
    BY <1>0, Alone DEF SoloOK, OpState
  <2>2. Goes(o, next)
    BY <1>2 DEF Read
  <2> QED
    BY <1>0, <2>1, <2>2, SoloGoes
<1> QED
  BY <1>1, <1>2

LEMMA SoloList ==
    ASSUME IInv, SoloInv, Assumptions, NEW o \in Op, List(o)
    PROVE  SoloInv' /\ AgendaStep
<1> DEFINE me == op[o]
           next == [me EXCEPT !.pc = "remove", !.ids = ToRemove(me)]
<1>0. me.pc = "list" /\ me \in OpState
  BY OpTypes DEF List
<1>1. CASE Goes(o, Ended("updated"))
  BY <1>0, <1>1, SoloGoes, SoloEnded DEF Outcome
<1>2. CASE Goes(o, next)
  <2>1. ASSUME ~raced PROVE SoloOK(next, rows)
    <3>1. /\ next.pc = "remove" /\ next.ts = me.ts /\ next.kind = me.kind
          /\ next.isMaster = me.isMaster /\ next.id = me.id /\ next.ids = ToRemove(me)
      BY <1>0 DEF OpState
    <3>2. me.ts = 0 /\ me.isMaster /\ me.id = Main /\ me.kind # "none"
      BY <1>0, <2>1, Alone DEF SoloOK, OpOK
    <3>3. me.kind = "delete" => \A i \in Id : rows[i] # Gone => i \in ToRemove(me)
      BY DEF ToRemove, Present
    <3>4. me.kind = "update" => ExceptionsIn(rows) \subseteq ToRemove(me) /\ Main \notin ToRemove(me)
      BY <2>1, <3>2, ExceptionsIs, Alone DEF ToRemove, Exceptions, Present
    <3> QED
      BY <3>1, <3>2, <3>3, <3>4 DEF SoloOK
  <2> QED
    BY <1>0, <1>2, <2>1, SoloGoes
<1> QED
  BY <1>1, <1>2 DEF List

-----------------------------------------------------------------------------
(* The writes.                                                             *)

\* Once the EXDATE is there, only rows yet to be removed show the occurrence.
LEMMA ExdateWritten ==
    ASSUME IInv, SoloInv, Assumptions, ~raced, NEW o \in Op, op[o].pc = "write",
           NEW x \in Schedule, op[o].change = "exdate",
           rows' = [rows EXCEPT ![op[o].id] = Patched(op[o].snap, op[o].change, op[o].ts, x)]
    PROVE  /\ ~GeneratedIn(op[o].ts, rows')
           /\ \A i \in ExceptionsIn(rows') : rows'[i].rid = op[o].ts => i \in op[o].ids
<1> DEFINE me == op[o]
<1>0. /\ me \in OpState /\ SoloOK(me, rows) /\ OpOK(me, rows, unissued)
      /\ me.id \in Id /\ rows \in [Id -> Rows] /\ me.snap \in Row
  BY Alone, OpTypes DEF OpOK, Snapped, OpState
<1>1. me.id = Main
  BY <1>0 DEF OpOK
<1>2. rows'[Main].rid = 0 /\ me.ts \in rows'[Main].exdates
  BY <1>0, <1>1 DEF Patched, Row, OpOK, Snapped
<1>3. ~GeneratedIn(me.ts, rows')
  BY <1>2 DEF GeneratedIn
<1>4. \A i \in ExceptionsIn(rows') : i \in ExceptionsIn(rows) /\ rows'[i] = rows[i]
  BY <1>0, <1>1, <1>2 DEF ExceptionsIn
<1>5. \A i \in ExceptionsIn(rows') : rows'[i].rid = me.ts => i \in me.ids
  BY <1>0, <1>4 DEF SoloOK
<1> QED
  BY <1>3, <1>5

\* What an operation that has replaced a row knows.
LEMMA SoloAfterWrite ==
    ASSUME IInv, SoloInv, Assumptions, ~raced, NEW o \in Op, op[o].pc = "write",
           NEW x \in Schedule,
           rows' = [rows EXCEPT ![op[o].id] = Patched(op[o].snap, op[o].change, op[o].ts, x)]
    PROVE  SoloOK(AfterWrite(op[o]), rows')
<1> DEFINE me == op[o]
           remove == [me EXCEPT !.pc = "remove"]
           list == [me EXCEPT !.pc = "list"]
<1>0. me \in OpState /\ SoloOK(me, rows) /\ OpOK(me, rows, unissued)
  BY Alone
<1>1. CASE me.change = "exdate" /\ me.ids # {}
  <2>1. /\ remove.pc = "remove" /\ remove.ts = me.ts /\ remove.kind = me.kind
        /\ remove.ids = me.ids /\ remove.isMaster = me.isMaster /\ remove.id = me.id
    BY <1>0 DEF OpState
  <2>2. me.id = Main /\ me.kind = "delete" /\ me.ts # 0 /\ ~me.isMaster
    BY <1>0, <1>1 DEF OpOK
  <2>3. SoloOK(remove, rows')
    BY <1>1, <2>1, <2>2, ExdateWritten DEF SoloOK
  <2> QED
    BY <1>1, <2>3 DEF AfterWrite
<1>2. CASE me.change # "exdate" /\ me.isMaster /\ Significant(me.change)
  <2>1. list.pc = "list" /\ list.kind = me.kind /\ list.isMaster = me.isMaster /\ list.id = me.id
    BY <1>0 DEF OpState
  <2>2. SoloOK(list, rows')
    BY <1>0, <1>2, <2>1 DEF SoloOK
  <2> QED
    BY <1>2, <2>2 DEF AfterWrite
<1>3. CASE /\ ~(me.change = "exdate" /\ me.ids # {})
           /\ ~(me.change # "exdate" /\ me.isMaster /\ Significant(me.change))
  BY <1>3, SoloEnded DEF AfterWrite, Outcome
<1> QED
  BY <1>1, <1>2, <1>3

LEMMA SoloWrite ==
    ASSUME IInv, SoloInv, Assumptions, NEW o \in Op, Write(o)
    PROVE  SoloInv' /\ AgendaStep
<1> DEFINE me == op[o]
<1>0. me.pc = "write"
  BY DEF Write
<1>1. CASE Refused(o)
  BY <1>0, <1>1, SoloRefused
<1>2. ASSUME NEW x \in Schedule, rows[me.id] # Gone,
             rows' = [rows EXCEPT ![me.id] = Patched(me.snap, me.change, me.ts, x)],
             Answered(o, AfterWrite(me)), UNCHANGED <<unissued, begun, raced>>
      PROVE  SoloInv' /\ AgendaStep
  <2>1. RidsKept /\ Present' = Present
    BY <1>0, <1>2, WriteRows
  <2>2. \A i \in Present : i \in Id \ unissued
    BY OpTypes DEF Present
  <2>3. Exceptions' = Exceptions /\ \A i \in Exceptions : rows'[i].rid = rows[i].rid
    BY <2>1, <2>2 DEF Exceptions, Present, RidsKept
  <2>4. \A s \in Slot : Edited(s)' <=> Edited(s)
    BY <2>3 DEF Edited
  <2>5. ~raced => SoloOK(AfterWrite(me), rows')
    BY <1>0, <1>2, SoloAfterWrite
  <2> QED
    BY <1>0, <1>2, <2>4, <2>5, SoloAnswered, Reschedules
<1> QED
  BY <1>1, <1>2 DEF Write

LEMMA SoloCreate ==
    ASSUME IInv, SoloInv, Assumptions, NEW o \in Op, Create(o)
    PROVE  SoloInv' /\ AgendaStep
<1> DEFINE me == op[o]
           last == Ended("editedOccurrence")
<1>0. me.pc = "create" /\ me \in OpState /\ OpOK(me, rows, unissued)
  BY OpTypes DEF Create
<1>1. CASE Refused(o)
  BY <1>0, <1>1, SoloRefused
<1>2. ASSUME NEW i \in unissued, rows' = [rows EXCEPT ![i] = Exception(me.snap, me.ts)],
             unissued' = unissued \ {i}, Answered(o, last), UNCHANGED <<begun, raced>>
      PROVE  SoloInv' /\ AgendaStep
  <2>1. SoloInv'
    BY <1>0, <1>2, SoloAnswered, SoloEnded DEF Outcome
  <2>2. CASE raced
    BY <1>2, <2>1, <2>2, Contends DEF IInv, TypeOK
  <2>3. CASE ~raced
    <3>0. PICK s \in Slot : s = me.ts /\ s # 0
      BY <1>0 DEF OpOK, OpState
    <3>1. /\ i \in Id /\ i # Main /\ rows[i] = Gone /\ rows \in [Id -> Rows]
          /\ Main \in Id
      BY <1>2, OpTypes DEF IInv, TypeOK
    <3>2. rows'[i] # Gone /\ rows'[i].rid = me.ts
      <4>1. Exception(me.snap, me.ts) \in Row /\ Exception(me.snap, me.ts).rid = me.ts
        <5>1. me.snap \in Row
          BY <1>0 DEF OpOK, OpState
        <5> QED
          BY <3>0, <5>1 DEF Exception, Row, Assumptions, RowAssumption
      <4> QED
        BY <1>2, <3>1, <4>1 DEF Assumptions, GoneAssumption
    <3>3. \A j \in Id : j # i => rows'[j] = rows[j]
      BY <1>2, <3>1
    <3>4. \A j \in Exceptions' : j = i \/ (j \in Exceptions /\ rows'[j] = rows[j])
      BY <3>3 DEF Exceptions, Present
    <3>5. i \in Exceptions' /\ \A j \in Exceptions : j \in Exceptions' /\ rows'[j] = rows[j]
      BY <3>0, <3>1, <3>2, <3>3 DEF Exceptions, Present
    <3>6. ~Edited(s) /\ Generated(s)
      BY <1>0, <2>3, <3>0, Alone, GeneratedIs DEF SoloOK, IInv, NewInv, Edited
    <3>7. Edited(s)'
      BY <3>0, <3>2, <3>5 DEF Edited
    <3>8. \A t \in Slot \ {s} : (Edited(t)' <=> Edited(t)) /\ (Generated(t)' <=> Generated(t))
      <4>1. rows'[Main] = rows[Main]
        BY <3>1, <3>3
      <4>2. \A t \in Slot : Generated(t)' <=> Generated(t)
        BY <4>1 DEF Generated
      <4>3. \A t \in Slot \ {s} : Edited(t)' <=> Edited(t)
        BY <3>0, <3>2, <3>4, <3>5 DEF Edited
      <4> QED
        BY <4>2, <4>3
    <3>9. Shown(s) = "original" /\ Shown(s)' = "edited"
      BY <3>6, <3>7 DEF Shown
    <3>10. \A t \in Slot \ {s} : Shown(t)' = Shown(t)
      BY <3>8 DEF Shown
    <3> QED
      BY <1>2, <2>1, <3>0, <3>9, <3>10, EditsOne
  <2> QED
    BY <2>1, <2>2, <2>3
<1> QED
  BY <1>1, <1>2 DEF Create

\* What a removal shows: one occurrence goes, or the series, or all edits.
LEMMA RemovalShows ==
    ASSUME IInv, SoloInv, Assumptions, ~raced, NEW o \in Op, op[o].pc = "remove",
           rows' = [i \in Id |-> IF i \in op[o].ids THEN Gone ELSE rows[i]], raced' = raced
    PROVE  AgendaStep
<1> DEFINE me == op[o]
<1>0. /\ me \in OpState /\ SoloOK(me, rows) /\ OpOK(me, rows, unissued) /\ Main \in Id
      /\ me.kind \in {"delete", "update"}
  BY Alone, OpTypes DEF SoloOK, OpState
<1>1. /\ \A i \in Exceptions' : i \in Exceptions /\ i \notin me.ids /\ rows'[i] = rows[i]
      /\ \A i \in Exceptions : i \notin me.ids => i \in Exceptions' /\ rows'[i] = rows[i]
  BY DEF Exceptions, Present
<1>2. \A s \in Slot : Generated(s)' => Generated(s)
  BY <1>0 DEF Generated
<1>3. Main \notin me.ids => \A s \in Slot : Generated(s)' <=> Generated(s)
  BY <1>0 DEF Generated
<1>4. CASE me.ts # 0
  <2>0. PICK s \in Slot : s = me.ts /\ me.kind = "delete"
    BY <1>0, <1>4 DEF OpOK, OpState
  <2>1. \A i \in me.ids : rows[i] # Gone => rows[i].rid = s
    BY <1>0, <1>4, <2>0 DEF OpOK, Doomed
  <2>2. \A i \in Exceptions : rows[i].rid = s => i \in me.ids
    BY <1>0, <1>4, <2>0, ExceptionsIs DEF SoloOK
  <2>3. ~Generated(s) /\ ~Generated(s)' /\ ~Edited(s)'
    BY <1>0, <1>1, <1>2, <1>4, <2>0, <2>2, GeneratedIs DEF SoloOK, Edited
  <2>4. \A t \in Slot \ {s} : Edited(t)' <=> Edited(t)
    BY <1>1, <2>1 DEF Edited, Exceptions, Present
  <2>5. rows'[Main] = rows[Main]
    <3>1. rows[Main] # Gone => rows[Main].rid = 0
      BY OpTypes
    <3> QED
      BY <1>0, <1>4, <2>0, <2>1, <3>1
  <2>6. \A t \in Slot : Generated(t)' <=> Generated(t)
    BY <2>5 DEF Generated
  <2>7. \A t \in Slot \ {s} : Shown(t)' = Shown(t)
    BY <2>4, <2>6 DEF Shown
  <2>8. Shown(s)' = "none"
    BY <2>3 DEF Shown
  <2>9. CASE Shown(s) = "none"
    <3>1. \A t \in Slot : Shown(t)' = Shown(t)
      BY <2>7, <2>8, <2>9
    <3> QED
      BY <3>1, Stutters
  <2>10. CASE Shown(s) # "none"
    BY <2>0, <2>7, <2>8, <2>10, HidesOne
  <2> QED
    BY <2>9, <2>10
<1>5. CASE me.ts = 0 /\ me.kind = "delete" /\ me.isMaster
  <2>1. \A i \in Id : rows'[i] = Gone
    BY <1>0, <1>5 DEF SoloOK
  <2>2. \A s \in Slot : ~Edited(s)' /\ ~Generated(s)'
    BY <1>0, <2>1 DEF Edited, Exceptions, Present, Generated
  <2>3. \A s \in Slot : Shown(s)' = "none"
    BY <2>2 DEF Shown
  <2> QED
    BY <2>3, Cancels
<1>6. CASE me.ts = 0 /\ me.kind = "delete" /\ ~me.isMaster
  <2>1. me.ids = {Main} /\ (rows[Main] # Gone => ~rows[Main].rule)
    BY <1>0, <1>6 DEF SoloOK
  <2>2. \A s \in Slot : ~Generated(s) /\ ~Generated(s)'
    BY <1>2, <2>1 DEF Generated
  <2>3. Main \notin Exceptions
    BY OpTypes DEF Exceptions, Present
  <2>4. \A s \in Slot : Edited(s)' <=> Edited(s)
    BY <1>1, <2>1, <2>3 DEF Edited
  <2>5. \A s \in Slot : Shown(s)' = Shown(s)
    BY <2>2, <2>4 DEF Shown
  <2> QED
    BY <2>5, Stutters
<1>7. CASE me.ts = 0 /\ me.kind = "update"
  <2>1. Exceptions \subseteq me.ids /\ Main \notin me.ids
    BY <1>0, <1>7, ExceptionsIs DEF SoloOK
  <2>2. \A s \in Slot : ~Edited(s)'
    BY <1>1, <2>1 DEF Edited
  <2> QED
    BY <1>3, <2>1, <2>2, DropsEdits
<1>8. me.kind = "update" => me.ts = 0
  BY <1>0 DEF OpOK
<1> QED
  BY <1>0, <1>4, <1>5, <1>6, <1>7, <1>8

LEMMA SoloRemove ==
    ASSUME IInv, SoloInv, Assumptions, NEW o \in Op, Remove(o)
    PROVE  SoloInv' /\ AgendaStep
<1> DEFINE me == op[o]
<1>0. /\ me.pc = "remove" /\ UNCHANGED <<unissued, begun, raced>>
      /\ rows' = [i \in Id |-> IF i \in me.ids THEN Gone ELSE rows[i]]
  BY DEF Remove
<1>1. SoloInv'
  <2>1. PICK outcome \in Outcome : Removed(me) = Ended(outcome)
    BY DEF Removed, Outcome
  <2>2. SoloOK(Removed(me), rows')
    BY <2>1, SoloEnded
  <2>3. CASE Answered(o, Removed(me))
    BY <1>0, <2>2, <2>3, SoloAnswered
  <2>4. CASE Ends(o, "refused")
    BY <1>0, <2>4, SoloEnds DEF Outcome
  <2> QED
    BY <2>3, <2>4 DEF Remove
<1>2. AgendaStep
  <2>1. CASE raced
    BY <1>0, <2>1, Contends DEF IInv, TypeOK
  <2>2. CASE ~raced
    BY <1>0, <2>2, RemovalShows
  <2> QED
    BY <2>1, <2>2
<1> QED
  BY <1>1, <1>2

LEMMA SoloFails ==
    ASSUME IInv, NEW o \in Op, Fails(o)
    PROVE  SoloInv' /\ AgendaStep
BY SoloEnds, RowsUnchanged DEF Fails, Outcome

-----------------------------------------------------------------------------
(* The refinement.                                                         *)

\* A series just created shows what its schedule generates, unedited.
LEMMA SoloInit == ASSUME Init, Assumptions PROVE SoloInv /\ Seen!Init
<1>1. SoloInv
  BY DEF Init, Idle, SoloInv, SoloOK
<1>2. Exceptions = {}
  BY DEF Init, Exceptions, Present
<1>3. \A s \in Slot : Shown(s) \in {"none", "original"}
  BY <1>2 DEF Shown, Edited
<1>4. [s \in Slot |-> Shown(s)] \in [Slot -> {"none", "original"}]
  BY <1>3
<1>5. raced = FALSE
  BY DEF Init
<1> QED
  BY <1>1, <1>4, <1>5 DEF Seen!Init

\* Every request of an operation is a step of Agenda, or shows nothing new.
LEMMA SoloNext ==
    ASSUME IInv, SoloInv, Assumptions, [Next]_vars
    PROVE  SoloInv' /\ AgendaStep
<1>1. ASSUME NEW o \in Op, OpNext(o) PROVE SoloInv' /\ AgendaStep
  <2>1. ASSUME NEW i \in Id, NEW s \in Slot \cup {0}, StartDelete(o, i, s)
        PROVE  SoloInv' /\ AgendaStep
    BY <2>1, SoloStarts DEF StartDelete
  <2>2. ASSUME NEW i \in Id, NEW s \in Slot \cup {0}, NEW change \in Changes,
               StartUpdate(o, i, s, change)
        PROVE  SoloInv' /\ AgendaStep
    BY <2>2, SoloStarts DEF StartUpdate
  <2> QED
    BY <1>1, <2>1, <2>2, SoloLookDelete, SoloLookUpdate, SoloSeriesGet, SoloRelated,
       SoloRead, SoloList, SoloWrite, SoloCreate, SoloRemove, SoloFails DEF OpNext
<1>2. CASE UNCHANGED vars
  <2>1. rows' = rows /\ raced' = raced /\ op' = op
    BY <1>2 DEF vars
  <2> QED
    BY <2>1, RowsUnchanged DEF SoloInv
<1> QED
  BY <1>1, <1>2 DEF Next

LEMMA SoloInvariance == Spec => [](IInv /\ SoloInv)
<1>1. Init => SoloInv
  BY SoloInit, Constants
<1>2. IInv /\ SoloInv /\ [Next]_vars => SoloInv'
  BY SoloNext, Constants
<1> QED
  BY <1>1, <1>2, Invariance, PTL DEF Spec

\* What the user sees of a series changes as Agenda says, whichever requests of
\* event.SmartDelete and event.SmartUpdate fail, are lost or are repeated, for any
\* number of occurrences and operations: while operations do not overlap, one
\* occurrence is edited or hidden at a time, and edits are only dropped together.
THEOREM SeenAsAgenda == Spec => ImplementsAgenda
<1>1. Init => Seen!Init
  BY SoloInit, Constants
<1>2. IInv /\ SoloInv /\ [Next]_vars => AgendaStep
  BY SoloNext, Constants
<1>3. Spec => Seen!Init /\ [][Seen!Next]_(Seen!vars)
  BY <1>1, <1>2, SoloInvariance, PTL DEF Spec, AgendaStep
<1> QED
  BY <1>3 DEF ImplementsAgenda, Seen!Spec

-----------------------------------------------------------------------------
(* What success means.                                                     *)

Replaced(me, x) == [rows EXCEPT ![me.id] = Patched(me.snap, me.change, me.ts, x)]

\* The requests that may be the last of a deletion, or of a change of the series.
LEMMA SuccessBy ==
    ASSUME IInv, Assumptions, NEW q \in Op, OpNext(q), NEW o \in Op,
           NEW outcome \in {"deletedSeries", "deletedOccurrence", "updated"},
           Succeeds(o, outcome)
    PROVE  \/ /\ op[o].pc = "list" /\ ToRemove(op[o]) = {} /\ rows' = rows
              /\ Ended(outcome) = Ended("updated")
           \/ /\ op[o].pc = "write" /\ \E x \in Schedule : rows' = Replaced(op[o], x)
              /\ AfterWrite(op[o]) = op'[o]
           \/ /\ op[o].pc = "remove" /\ Removed(op[o]) = op'[o]
              /\ rows' = [i \in Id |-> IF i \in op[o].ids THEN Gone ELSE rows[i]]
<1>0. /\ op \in [Op -> OpState] /\ op[o].pc # "idle" /\ op'[o].pc = "idle"
      /\ op'[o].outcome = outcome
  BY DEF IInv, TypeOK, Succeeds
<1>1. \A end \in Outcome : Ended(end).outcome = end
  BY DEF Ended, Idle
<1>2. q = o
  BY <1>0 DEF OpNext, StartDelete, StartUpdate, Starts, LookDelete, LookUpdate, SeriesGet,
              Related, RelatedDelete, RelatedUpdate, Read, List, Write, Create, Remove, Fails,
              Refused, Goes, Answered, Ends
<1>3. \A end \in {"refused", "failed", "editedOccurrence"} : op' # [op EXCEPT ![o] = Ended(end)]
  BY <1>0, <1>1 DEF Outcome
<1>4. ~Refused(o) /\ ~Fails(o) /\ ~Ends(o, "refused") /\ ~Ends(o, "failed")
  BY <1>3 DEF Refused, Fails, Ends
<1>5. ASSUME NEW next, Goes(o, next) PROVE next.pc = "idle"
  BY <1>0, <1>5 DEF Goes
<1>6. /\ \A ts : [op[o] EXCEPT !.pc = "series", !.ts = ts].pc = "series"
      /\ [op[o] EXCEPT !.pc = "list", !.isMaster = TRUE].pc = "list"
      /\ \A ids : /\ [op[o] EXCEPT !.pc = "remove", !.ids = ids].pc = "remove"
                  /\ Deleting(o, ids).pc = "read"
      /\ \A b : [op[o] EXCEPT !.pc = "read", !.isMaster = b].pc = "read"
      /\ \A i : [op[o] EXCEPT !.pc = "read", !.id = i].pc = "read"
      /\ \A r : /\ [op[o] EXCEPT !.pc = "related", !.snap = r].pc = "related"
                /\ [op[o] EXCEPT !.pc = "write", !.snap = r].pc = "write"
                /\ [op[o] EXCEPT !.pc = "create", !.snap = r].pc = "create"
  BY <1>0 DEF OpState, Deleting
<1>7. ~LookDelete(o) /\ ~LookUpdate(o) /\ ~SeriesGet(o) /\ ~Related(o) /\ ~Read(o)
  <2>1. ~LookDelete(o)
    BY <1>4, <1>5, <1>6 DEF LookDelete
  <2>2. ~LookUpdate(o)
    BY <1>4, <1>5, <1>6 DEF LookUpdate
  <2>3. ~SeriesGet(o)
    BY <1>4, <1>5, <1>6 DEF SeriesGet
  <2>4. ~Related(o)
    BY <1>4, <1>5, <1>6 DEF Related, RelatedDelete, RelatedUpdate
  <2>5. ~Read(o)
    BY <1>4, <1>5, <1>6 DEF Read
  <2> QED
    BY <2>1, <2>2, <2>3, <2>4, <2>5
<1>8. ~Create(o)
  BY <1>3, <1>4 DEF Create, Answered
<1>9. List(o) \/ Write(o) \/ Remove(o)
  BY <1>0, <1>2, <1>4, <1>7, <1>8 DEF OpNext, StartDelete, StartUpdate, Starts
<1>10. CASE List(o)
  <2>1. ToRemove(op[o]) = {} /\ Goes(o, Ended("updated"))
    BY <1>5, <1>6, <1>10 DEF List
  <2>2. outcome = "updated"
    BY <1>0, <1>1, <2>1 DEF Goes, Outcome
  <2> QED
    BY <1>10, <2>1, <2>2 DEF List, Goes
<1>11. CASE Write(o)
  BY <1>0, <1>4, <1>11 DEF Write, Answered, Replaced
<1>12. CASE Remove(o)
  BY <1>0, <1>4, <1>12 DEF Remove, Answered
<1> QED
  BY <1>9, <1>10, <1>11, <1>12

\* What each of these successes has done.
LEMMA SuccessMeans ==
    ASSUME IInv, SoloInv, Assumptions, ~raced, NEW q \in Op, OpNext(q), NEW o \in Op
    PROVE  /\ Succeeds(o, "deletedSeries") => Present' = {}
           /\ \A s \in Slot : Succeeds(o, "deletedOccurrence") /\ op[o].ts = s =>
                  Shown(s)' = "none"
           /\ Succeeds(o, "updated") /\ op[o].isMaster /\ Significant(op[o].change) =>
                  Exceptions' = {}
<1> DEFINE me == op[o]
<1>0. /\ me \in OpState /\ SoloOK(me, rows) /\ OpOK(me, rows, unissued) /\ Main \in Id
      /\ me.pc # "idle" => me.kind \in {"delete", "update"}
  BY Alone, OpTypes DEF SoloOK, OpState
<1>1. \A end \in Outcome : Ended(end).outcome = end
  BY DEF Ended, Idle
<1>2. ASSUME me.pc = "remove", Removed(me) = op'[o]
      PROVE  /\ op'[o].outcome = "deletedSeries" => me.kind = "delete" /\ me.ts = 0 /\ me.isMaster
             /\ op'[o].outcome = "deletedOccurrence" => me.kind = "delete" /\ me.ts # 0
             /\ op'[o].outcome = "updated" => me.kind = "update"
  BY <1>0, <1>1, <1>2 DEF Removed, Outcome
<1>3. ASSUME me.pc = "write", AfterWrite(me) = op'[o], op'[o].pc = "idle"
      PROVE  /\ op'[o].outcome # "deletedSeries"
             /\ op'[o].outcome = "deletedOccurrence" => me.change = "exdate" /\ me.ids = {}
             /\ op'[o].outcome = "updated" => ~(me.isMaster /\ Significant(me.change))
  BY <1>0, <1>1, <1>3 DEF AfterWrite, Outcome, OpState
<1>4. ASSUME Succeeds(o, "deletedSeries") PROVE Present' = {}
  <2>1. /\ me.pc = "remove" /\ Removed(me) = op'[o]
        /\ rows' = [i \in Id |-> IF i \in me.ids THEN Gone ELSE rows[i]]
    BY <1>1, <1>3, <1>4, SuccessBy DEF Succeeds, Outcome
  <2>2. \A i \in Id : rows[i] # Gone => i \in me.ids
    BY <1>0, <1>2, <1>4, <2>1 DEF SoloOK, Succeeds
  <2> QED
    BY <2>1, <2>2 DEF Present
<1>5. ASSUME NEW s \in Slot, Succeeds(o, "deletedOccurrence"), me.ts = s
      PROVE  Shown(s)' = "none"
  <2>1. CASE me.pc = "write" /\ AfterWrite(me) = op'[o] /\ \E x \in Schedule : rows' = Replaced(me, x)
    <3>1. me.change = "exdate" /\ me.ids = {}
      BY <1>3, <1>5, <2>1 DEF Succeeds
    <3>2. ~GeneratedIn(s, rows') /\ \A i \in ExceptionsIn(rows') : rows'[i].rid # s
      BY <1>5, <2>1, <3>1, ExdateWritten DEF Replaced
    <3> QED
      BY <3>2 DEF Shown, Edited, Generated, GeneratedIn, ExceptionsIn, Exceptions, Present
  <2>2. CASE /\ me.pc = "remove" /\ Removed(me) = op'[o]
             /\ rows' = [i \in Id |-> IF i \in me.ids THEN Gone ELSE rows[i]]
    <3>1. me.ts # 0
      BY <1>2, <1>5, <2>2 DEF Succeeds
    <3>2. ~GeneratedIn(s, rows) /\ \A i \in ExceptionsIn(rows) : rows[i].rid = s => i \in me.ids
      BY <1>0, <1>5, <2>2, <3>1 DEF SoloOK
    <3>3. ~Generated(s)'
      BY <1>0, <2>2, <3>2 DEF Generated, GeneratedIn
    <3>4. ~Edited(s)'
      BY <2>2, <3>2 DEF Edited, ExceptionsIn, Exceptions, Present
    <3> QED
      BY <3>3, <3>4 DEF Shown
  <2> QED
    BY <1>1, <1>5, <2>1, <2>2, SuccessBy DEF Outcome
<1>6. ASSUME Succeeds(o, "updated"), me.isMaster, Significant(me.change)
      PROVE  Exceptions' = {}
  <2>1. CASE me.pc = "list" /\ ToRemove(me) = {} /\ rows' = rows
    <3>1. me.id = Main /\ me.kind = "update"
      BY <1>0, <1>6, <2>1 DEF SoloOK, ToRemove
    <3>2. Exceptions = {}
      BY <2>1, <3>1, OpTypes DEF ToRemove, Exceptions, Present
    <3> QED
      BY <2>1, <3>2 DEF Exceptions, Present
  <2>2. CASE /\ me.pc = "remove" /\ Removed(me) = op'[o]
             /\ rows' = [i \in Id |-> IF i \in me.ids THEN Gone ELSE rows[i]]
    <3>1. ExceptionsIn(rows) \subseteq me.ids
      BY <1>0, <1>2, <1>6, <2>2 DEF SoloOK, Succeeds
    <3> QED
      BY <2>2, <3>1 DEF ExceptionsIn, Exceptions, Present
  <2>3. CASE me.pc = "write" /\ AfterWrite(me) = op'[o]
    BY <1>3, <1>6, <2>3 DEF Succeeds
  <2> QED
    BY <1>6, <2>1, <2>2, <2>3, SuccessBy
<1> QED
  BY <1>4, <1>5, <1>6

\* A series, an occurrence or a set of edits reported as gone is gone from what
\* the user sees, whatever earlier attempts left halfway (smart.go:88-164).
THEOREM SuccessAchieved == Spec => SuccessIsComplete
<1> DEFINE SeriesGone ==
             \A o \in Op : Succeeds(o, "deletedSeries") /\ ~raced => Present' = {}
           OccurrenceHidden ==
             \A o \in Op, s \in Slot :
                Succeeds(o, "deletedOccurrence") /\ op[o].ts = s /\ ~raced => Shown(s)' = "none"
           EditsCleared ==
             \A o \in Op : Succeeds(o, "updated") /\ op[o].isMaster
                              /\ Significant(op[o].change) /\ ~raced => Exceptions' = {}
<1>1. IInv /\ SoloInv /\ [Next]_vars =>
         [SeriesGone]_vars /\ [OccurrenceHidden]_vars /\ [EditsCleared]_vars
  BY SuccessMeans, Constants DEF Next
<1>2. Spec => [][SeriesGone]_vars /\ [][OccurrenceHidden]_vars /\ [][EditsCleared]_vars
  BY <1>1, SoloInvariance, PTL DEF Spec
<1> QED
  BY <1>2 DEF SuccessIsComplete, DeletedSeriesIsGone, DeletedOccurrenceIsHidden,
              SignificantChangeClears

-----------------------------------------------------------------------------
(* Exceptions without an original.  There are some between a change of the *)
(* series and its clean-up, and after an operation that stopped there.     *)

Excused(i, me) == Halfway(me) /\ (me.kind = "update" \/ i \in me.ids)

TidyOK(me, rs) ==
    /\ me.pc = "write" => me.snap = rs[me.id]
    /\ me.pc \in {"read", "write"} /\ me.kind = "update" =>
          IF me.ts # 0 THEN me.id # Main ELSE me.isMaster = rs[me.id].rule

TidyInv == ~raced =>
    /\ \A o \in Op : TidyOK(op[o], rows)
    /\ ~halfway => \A i \in ExceptionsIn(rows) :
          GeneratedIn(rows[i].rid, rows) \/ \E o \in Op : Excused(i, op[o])

LEMMA TidyInit == ASSUME Init, Assumptions PROVE TidyInv
<1>1. ExceptionsIn(rows) = {}
  BY DEF Init, ExceptionsIn
<1>2. \A o \in Op : TidyOK(op[o], rows)
  BY DEF Init, TidyOK, Idle
<1> QED
  BY <1>1, <1>2 DEF TidyInv

\* The other operations are idle, and excuse nothing.
LEMMA TidyStep ==
    ASSUME IInv, NEW o \in Op, NEW next, op' = [op EXCEPT ![o] = next], raced' = raced,
           op[o].pc # "idle", ~raced => TidyOK(next, rows'),
           ~raced /\ ~halfway' => \A i \in ExceptionsIn(rows') :
               GeneratedIn(rows'[i].rid, rows') \/ Excused(i, next)
    PROVE  TidyInv'
<1> SUFFICES ASSUME ~raced PROVE TidyInv'
  BY DEF TidyInv
<1>1. op'[o] = next /\ \A q \in Op \ {o} : op'[q] = op[q] /\ op[q].pc = "idle"
  BY DEF IInv, TypeOK, AloneInv
<1>2. \A q \in Op : TidyOK(op'[q], rows')
  BY <1>1 DEF TidyOK
<1>3. ~halfway' => \A i \in ExceptionsIn(rows') :
         GeneratedIn(rows'[i].rid, rows') \/ \E q \in Op : Excused(i, op'[q])
  BY <1>1
<1> QED
  BY <1>2, <1>3 DEF TidyInv

\* What a lone operation may count on.
LEMMA TidyNow ==
    ASSUME IInv, TidyInv, ~raced, NEW o \in Op, op[o].pc # "idle"
    PROVE  /\ TidyOK(op[o], rows)
           /\ ~halfway => \A i \in ExceptionsIn(rows) :
                 GeneratedIn(rows[i].rid, rows) \/ Excused(i, op[o])
<1>1. \A q \in Op \ {o} : op[q].pc = "idle"
  BY DEF IInv, AloneInv
<1>2. \A q \in Op \ {o} : \A i : ~Excused(i, op[q])
  BY <1>1 DEF Excused, Halfway
<1> QED
  BY <1>2 DEF TidyInv

LEMMA TidyGoes ==
    ASSUME IInv, TidyInv, NEW o \in Op, op[o].pc # "idle", NEW next, Goes(o, next),
           ~raced => /\ TidyOK(next, rows)
                     /\ \A i \in ExceptionsIn(rows) : Excused(i, op[o]) => Excused(i, next)
    PROVE  TidyInv'
BY TidyStep, TidyNow DEF Goes

LEMMA TidyEnded == ASSUME NEW outcome, NEW rs PROVE TidyOK(Ended(outcome), rs)
BY DEF Ended, Idle, TidyOK

LEMMA TidyEnds ==
    ASSUME IInv, TidyInv, NEW o \in Op, op[o].pc # "idle", NEW outcome, Ends(o, outcome),
           rows' = rows, raced' = raced, halfway \in BOOLEAN,
           halfway' = (halfway \/ Halfway(op[o]))
    PROVE  TidyInv'
BY TidyStep, TidyNow, TidyEnded DEF Ends, Excused

LEMMA TidyRefused ==
    ASSUME IInv, TidyInv, NEW o \in Op, op[o].pc \notin {"idle", "list", "remove"}, Refused(o),
           halfway \in BOOLEAN
    PROVE  TidyInv'
BY TidyEnds DEF Refused, Halfway

LEMMA TidyStarts ==
    ASSUME IInv, TidyInv, NEW o \in Op, NEW kind \in {"delete", "update"}, NEW i, NEW s, NEW change,
           Starts(o, kind, i, s, change)
    PROVE  TidyInv'
<1> DEFINE next == [Idle EXCEPT !.pc = IF kind = "update" /\ s # 0 THEN "series" ELSE "look",
                               !.kind = kind, !.id = i, !.ts = s, !.change = change]
<1> SUFFICES ASSUME ~raced' PROVE TidyInv'
  BY DEF TidyInv
<1>1. /\ op' = [op EXCEPT ![o] = next] /\ rows' = rows /\ halfway' = halfway
      /\ ~raced /\ op[o].pc = "idle" /\ op \in [Op -> OpState]
  BY DEF Starts, IInv, TypeOK
<1>2. next.pc \in {"look", "series"}
  BY DEF Idle
<1>3. \A q \in Op : TidyOK(op'[q], rows)
  BY <1>1, <1>2 DEF TidyInv, TidyOK
<1>4. \A j \in ExceptionsIn(rows), q \in Op : Excused(j, op[q]) => Excused(j, op'[q])
  BY <1>1 DEF Excused, Halfway
<1> QED
  BY <1>1, <1>3, <1>4 DEF TidyInv

\* The reads.
LEMMA TidyReads ==
    ASSUME IInv, SoloInv, TidyInv, Assumptions, NEW o \in Op,
           LookDelete(o) \/ LookUpdate(o) \/ SeriesGet(o) \/ Related(o) \/ Read(o) \/ List(o)
    PROVE  TidyInv'
<1> DEFINE me == op[o]
<1>0. /\ me \in OpState /\ OpOK(me, rows, unissued) /\ halfway \in BOOLEAN
      /\ me.pc \in {"look", "series", "related", "read", "list"}
      /\ rows[Main] # Gone => rows[Main].rid = 0
  BY OpTypes DEF LookDelete, LookUpdate, SeriesGet, Related, Read, List
<1>1. ASSUME NEW next, Goes(o, next), me.pc # "list",
             next.pc \in Pc \ {"read", "write"}
      PROVE  TidyInv'
  BY <1>0, <1>1, TidyGoes DEF TidyOK, Excused, Halfway
<1>2. CASE Refused(o) /\ me.pc # "list"
  BY <1>0, <1>2, TidyRefused
<1>3. CASE LookDelete(o)
  <2>1. /\ \A ts : [me EXCEPT !.pc = "series", !.ts = ts].pc = "series"
        /\ [me EXCEPT !.pc = "list", !.isMaster = TRUE].pc = "list"
        /\ \A ids : [me EXCEPT !.pc = "remove", !.ids = ids].pc = "remove"
    BY <1>0 DEF OpState
  <2> QED
    BY <1>1, <1>2, <1>3, <2>1 DEF LookDelete, Pc
<1>4. CASE LookUpdate(o)
  <2> DEFINE next == [me EXCEPT !.pc = "read", !.isMaster = rows[me.id].rule]
  <2>1. me.pc = "look" /\ me.ts = 0
    BY <1>0, <1>4 DEF LookUpdate, OpOK
  <2>2. TidyOK(next, rows) /\ ~Halfway(me)
    BY <1>0, <2>1 DEF TidyOK, OpState, Halfway
  <2> QED
    BY <1>2, <1>4, <2>1, <2>2, TidyGoes DEF LookUpdate, Excused
<1>5. CASE SeriesGet(o)
  <2>1. [me EXCEPT !.pc = "related", !.snap = rows[me.id]].pc = "related"
    BY <1>0 DEF OpState
  <2> QED
    BY <1>1, <1>2, <1>5, <2>1 DEF SeriesGet, Pc
<1>6. CASE Related(o)
  <2>0. me.pc = "related" /\ me.ts # 0 /\ ~Halfway(me)
    BY <1>0, <1>6 DEF Related, OpOK, Halfway
  <2>1. ASSUME NEW ids, me.kind = "delete", Goes(o, Deleting(o, ids)) PROVE TidyInv'
    <3>1. TidyOK(Deleting(o, ids), rows)
      BY <1>0, <2>1 DEF TidyOK, Deleting, OpState
    <3> QED
      BY <2>0, <2>1, <3>1, TidyGoes DEF Excused
  <2>2. ASSUME NEW i \in EditedRows(o), Goes(o, [me EXCEPT !.pc = "read", !.id = i]) PROVE TidyInv'
    <3>1. i # Main
      BY <1>0, <2>2 DEF EditedRows, Exceptions, Present
    <3>2. TidyOK([me EXCEPT !.pc = "read", !.id = i], rows)
      BY <1>0, <2>0, <3>1 DEF TidyOK, OpState
    <3> QED
      BY <2>0, <2>2, <3>2, TidyGoes DEF Excused
  <2>3. [me EXCEPT !.pc = "create", !.snap = Master(o)].pc = "create"
    BY <1>0 DEF OpState
  <2> QED
    BY <1>1, <1>2, <1>6, <2>0, <2>1, <2>2, <2>3 DEF Related, RelatedDelete, RelatedUpdate, Pc
<1>7. CASE Read(o)
  <2> DEFINE next == [me EXCEPT !.pc = "write", !.snap = rows[me.id]]
  <2>1. me.pc = "read" /\ ~Halfway(me)
    BY <1>7 DEF Read, Halfway
  <2>2. ~raced => TidyOK(next, rows)
    BY <1>0, <2>1, TidyNow DEF TidyOK, OpState
  <2> QED
    BY <1>2, <1>7, <2>1, <2>2, TidyGoes DEF Read, Excused
<1>8. CASE List(o)
  <2> DEFINE next == [me EXCEPT !.pc = "remove", !.ids = ToRemove(me)]
  <2>1. me.pc = "list" /\ me.ts = 0 /\ (~raced => me.id = Main)
    BY <1>0, <1>8, Alone DEF List, OpOK, SoloOK
  <2>2. CASE Goes(o, next)
    <3>1. next.pc = "remove" /\ next.kind = me.kind
      BY <1>0 DEF OpState
    <3>2. TidyOK(next, rows) /\ \A i : Excused(i, me) => Excused(i, next)
      BY <2>1, <3>1 DEF TidyOK, Excused, Halfway
    <3> QED
      BY <2>1, <2>2, <3>2, TidyGoes
  <2>3. CASE Goes(o, Ended("updated")) /\ ToRemove(me) = {}
    <3>1. ~raced => ExceptionsIn(rows) = {}
      <4> SUFFICES ASSUME ~raced PROVE Exceptions = {}
        BY ExceptionsIs
      <4>1. me.id = Main /\ me.kind # "delete"
        BY <2>1, <2>3 DEF ToRemove
      <4> QED
        BY <1>0, <2>3, <4>1 DEF ToRemove, Exceptions, Present
    <3> QED
      BY <2>1, <2>3, <3>1, TidyGoes, TidyEnded
  <2> QED
    BY <1>8, <2>2, <2>3 DEF List
<1> QED
  BY <1>3, <1>4, <1>5, <1>6, <1>7, <1>8

\* As long as no zone changes alone.
NoZone == \A o \in Op : op[o].change # "zone"

LEMMA NoZoneStep ==
    ASSUME IInv, NoZone, "zone" \notin Changes, [Next]_vars
    PROVE  NoZone'
<1> SUFFICES ASSUME NEW o \in Op, OpNext(o) PROVE NoZone'
  BY DEF Next, vars, NoZone
<1> DEFINE me == op[o]
<1>0. op \in [Op -> OpState] /\ me \in OpState /\ me.change # "zone"
  BY DEF IInv, TypeOK, NoZone
<1>1. ASSUME NEW next, op' = [op EXCEPT ![o] = next], next.change # "zone" PROVE NoZone'
  BY <1>0, <1>1 DEF NoZone
<1>2. \A outcome : Ended(outcome).change # "zone"
  BY DEF Ended, Idle
<1>3. ASSUME NEW outcome, Ends(o, outcome) PROVE NoZone'
  <2>1. Ended(outcome).change # "zone" /\ op' = [op EXCEPT ![o] = Ended(outcome)]
    BY <1>2, <1>3 DEF Ends
  <2> QED
    BY <1>1, <2>1
<1>4. ASSUME NEW kind, NEW i, NEW s, NEW change, change # "zone", Starts(o, kind, i, s, change)
      PROVE  NoZone'
  <2>1. [Idle EXCEPT !.pc = IF kind = "update" /\ s # 0 THEN "series" ELSE "look",
                     !.kind = kind, !.id = i, !.ts = s, !.change = change].change = change
    BY DEF Idle
  <2> QED
    BY <1>1, <1>4, <2>1 DEF Starts
<1>5. ASSUME NEW next, Goes(o, next), next.change # "zone" PROVE NoZone'
  BY <1>1, <1>5 DEF Goes
<1>6. /\ \A ts : [me EXCEPT !.pc = "series", !.ts = ts].change = me.change
      /\ [me EXCEPT !.pc = "list", !.isMaster = TRUE].change = me.change
      /\ \A ids : /\ [me EXCEPT !.pc = "remove", !.ids = ids].change = me.change
                  /\ Deleting(o, ids).change = "exdate"
      /\ \A b : [me EXCEPT !.pc = "read", !.isMaster = b].change = me.change
      /\ \A i : [me EXCEPT !.pc = "read", !.id = i].change = me.change
      /\ \A r : /\ [me EXCEPT !.pc = "related", !.snap = r].change = me.change
                /\ [me EXCEPT !.pc = "write", !.snap = r].change = me.change
                /\ [me EXCEPT !.pc = "create", !.snap = r].change = me.change
  BY <1>0 DEF OpState, Deleting
<1>7. AfterWrite(me).change # "zone" /\ Removed(me).change # "zone"
  BY <1>0, <1>2 DEF AfterWrite, Removed, OpState
<1>8. CASE Refused(o) \/ Fails(o)
  BY <1>3, <1>8 DEF Refused, Fails
<1>9. ASSUME NEW i \in Id, NEW s \in Slot \cup {0}, StartDelete(o, i, s) PROVE NoZone'
  BY <1>4, <1>9 DEF StartDelete
<1>10. ASSUME NEW i \in Id, NEW s \in Slot \cup {0}, NEW change \in Changes,
              StartUpdate(o, i, s, change)
       PROVE  NoZone'
  BY <1>4, <1>10 DEF StartUpdate
<1>11. CASE LookDelete(o)
  BY <1>0, <1>5, <1>6, <1>8, <1>11 DEF LookDelete
<1>12. CASE LookUpdate(o)
  BY <1>0, <1>5, <1>6, <1>8, <1>12 DEF LookUpdate
<1>13. CASE SeriesGet(o)
  BY <1>0, <1>5, <1>6, <1>8, <1>13 DEF SeriesGet
<1>14. CASE Related(o)
  BY <1>0, <1>5, <1>6, <1>8, <1>14 DEF Related, RelatedDelete, RelatedUpdate
<1>15. CASE Read(o)
  BY <1>0, <1>5, <1>6, <1>8, <1>15 DEF Read
<1>16. CASE List(o)
  BY <1>0, <1>2, <1>5, <1>6, <1>16 DEF List
<1>17. ASSUME NEW next, Answered(o, next), next.change # "zone" PROVE NoZone'
  BY <1>1, <1>3, <1>17 DEF Answered
<1>18. CASE Write(o)
  BY <1>7, <1>8, <1>17, <1>18 DEF Write
<1>19. CASE Create(o)
  BY <1>2, <1>8, <1>17, <1>19 DEF Create
<1>20. CASE Remove(o)
  BY <1>3, <1>7, <1>17, <1>20 DEF Remove
<1> QED
  BY <1>8, <1>9, <1>10, <1>11, <1>12, <1>13, <1>14, <1>15, <1>16, <1>18, <1>19, <1>20 DEF OpNext

\* A series' new schedule is cleaned up after, unless only its zone changes, and
\* an EXDATE is followed by the removal of the row.
LEMMA TidyWritten ==
    ASSUME IInv, SoloInv, TidyInv, Assumptions, ~raced, ~halfway,
           NEW o \in Op, op[o].pc = "write", NEW x \in Schedule, rows[op[o].id] # Gone,
           op[o].change # "zone", rows' = Replaced(op[o], x),
           NEW i \in ExceptionsIn(rows')
    PROVE  GeneratedIn(rows'[i].rid, rows') \/ Excused(i, AfterWrite(op[o]))
<1> DEFINE me == op[o]
           row == Patched(me.snap, me.change, me.ts, x)
           remove == [me EXCEPT !.pc = "remove"]
           list == [me EXCEPT !.pc = "list"]
<1>0. /\ me \in OpState /\ SoloOK(me, rows) /\ OpOK(me, rows, unissued) /\ TidyOK(me, rows)
      /\ rows \in [Id -> Rows] /\ Main \in Id /\ me.id \in Id
      /\ me.kind \in {"delete", "update"}
  BY Alone, TidyNow, OpTypes DEF SoloOK, OpState, OpOK
<1>1. me.snap = rows[me.id] /\ me.snap \in Row
  BY <1>0 DEF TidyOK, Rows
<1>2. rows' = [rows EXCEPT ![me.id] = row] /\ row.rid = me.snap.rid /\ row # Gone
  BY PatchedOK DEF Replaced
<1>3. i \in ExceptionsIn(rows) /\ rows'[i].rid = rows[i].rid
  BY <1>0, <1>1, <1>2 DEF ExceptionsIn
<1>4. GeneratedIn(rows[i].rid, rows)
  BY <1>3, TidyNow DEF Excused, Halfway
<1>5. CASE me.id # Main
  BY <1>0, <1>2, <1>3, <1>4, <1>5 DEF GeneratedIn
<1>6. CASE me.id = Main /\ me.change = "exdate"
  <2>1. /\ row.rule = me.snap.rule /\ row.schedule = me.snap.schedule
        /\ row.exdates = me.snap.exdates \cup {me.ts}
    BY <1>1, <1>6 DEF Patched, Row
  <2>2. CASE rows[i].rid # me.ts
    BY <1>0, <1>1, <1>2, <1>3, <1>4, <1>6, <2>1, <2>2 DEF GeneratedIn
  <2>3. CASE rows[i].rid = me.ts
    <3>1. i \in me.ids /\ me.ts # 0
      BY <1>0, <1>3, <1>6, <2>3 DEF SoloOK, OpOK
    <3>2. AfterWrite(me) = remove
      BY <1>6, <3>1 DEF AfterWrite
    <3>3. remove.pc = "remove" /\ remove.ts = me.ts /\ remove.ids = me.ids
      BY <1>0 DEF OpState
    <3> QED
      BY <3>1, <3>2, <3>3 DEF Excused, Halfway
  <2> QED
    BY <2>2, <2>3
<1>7. CASE me.id = Main /\ me.change # "exdate"
  <2>1. me.kind = "update" /\ me.isMaster
    BY <1>0, <1>4, <1>7 DEF SoloOK, TidyOK, GeneratedIn
  <2>2. CASE Significant(me.change)
    <3>1. AfterWrite(me) = list
      BY <1>7, <2>1, <2>2 DEF AfterWrite
    <3>2. list.pc = "list" /\ list.kind = "update"
      BY <1>0, <2>1 DEF OpState
    <3> QED
      BY <3>1, <3>2 DEF Excused, Halfway
  <2>3. CASE ~Significant(me.change)
    <3>1. me.change \in {"field", "none"}
      BY <1>0, <1>7, <2>3 DEF Significant, OpState, AllChanges
    <3>2. row.rule = me.snap.rule /\ row.schedule = me.snap.schedule /\ row.exdates = me.snap.exdates
      BY <1>1, <3>1 DEF Patched, Row
    <3> QED
      BY <1>0, <1>1, <1>2, <1>3, <1>4, <1>7, <3>2 DEF GeneratedIn
  <2> QED
    BY <2>2, <2>3
<1> QED
  BY <1>5, <1>6, <1>7

LEMMA TidyWrite ==
    ASSUME IInv, SoloInv, TidyInv, Assumptions, NoZone, NEW o \in Op, Write(o)
    PROVE  TidyInv'
<1> DEFINE me == op[o]
           next == AfterWrite(me)
<1>0. me.pc = "write" /\ halfway \in BOOLEAN /\ me \in OpState /\ me.change # "zone"
  BY OpTypes DEF Write, NoZone
<1>1. CASE Refused(o)
  BY <1>0, <1>1, TidyRefused
<1>2. ASSUME NEW x \in Schedule, rows[me.id] # Gone, rows' = Replaced(me, x),
             Answered(o, next), UNCHANGED <<unissued, begun, raced>>
      PROVE  TidyInv'
  <2>1. TidyOK(next, rows')
    BY <1>0, TidyEnded DEF AfterWrite, TidyOK, OpState
  <2>2. ~raced /\ ~halfway => \A i \in ExceptionsIn(rows') :
          GeneratedIn(rows'[i].rid, rows') \/ Excused(i, next)
    BY <1>0, <1>2, TidyWritten
  <2>3. CASE op' = [op EXCEPT ![o] = next] /\ UNCHANGED halfway
    BY <1>0, <1>2, <2>1, <2>2, <2>3, TidyStep
  <2>4. CASE Ends(o, "failed") /\ halfway' = (halfway \/ next.pc # "idle")
    <3>1. next.pc = "idle" => \A i : ~Excused(i, next)
      BY DEF Excused, Halfway
    <3> QED
      BY <1>0, <1>2, <2>2, <2>4, <3>1, TidyStep, TidyEnded DEF Ends
  <2> QED
    BY <1>2, <2>3, <2>4 DEF Answered
<1> QED
  BY <1>1, <1>2 DEF Write, Replaced

LEMMA TidyCreate ==
    ASSUME IInv, SoloInv, TidyInv, Assumptions, NEW o \in Op, Create(o)
    PROVE  TidyInv'
<1> DEFINE me == op[o]
           last == Ended("editedOccurrence")
<1>0. /\ me.pc = "create" /\ me \in OpState /\ halfway \in BOOLEAN
      /\ OpOK(me, rows, unissued)
  BY OpTypes DEF Create
<1>1. CASE Refused(o)
  BY <1>0, <1>1, TidyRefused
<1>2. ASSUME NEW i \in unissued, rows' = [rows EXCEPT ![i] = Exception(me.snap, me.ts)],
             Answered(o, last), UNCHANGED <<begun, raced>>
      PROVE  TidyInv'
  <2>0. last.pc = "idle"
    BY DEF Ended, Idle
  <2>1. /\ i \in Id /\ i # Main /\ rows \in [Id -> Rows] /\ Main \in Id
        /\ Exception(me.snap, me.ts).rid = me.ts
    BY <1>2, OpTypes DEF IInv, TypeOK, Exception
  <2>2. ASSUME ~raced, ~halfway, NEW j \in ExceptionsIn(rows')
        PROVE  GeneratedIn(rows'[j].rid, rows')
    <3>1. rows'[Main] = rows[Main]
      BY <1>2, <2>1
    <3>2. CASE j = i
      <4>1. GeneratedIn(me.ts, rows) /\ rows'[j].rid = me.ts
        BY <1>0, <1>2, <2>1, <2>2, <3>2, Alone DEF SoloOK
      <4> QED
        BY <3>1, <4>1 DEF GeneratedIn
    <3>3. CASE j # i
      <4>1. j \in ExceptionsIn(rows) /\ rows'[j] = rows[j]
        BY <1>2, <2>1, <2>2, <3>3 DEF ExceptionsIn
      <4>2. GeneratedIn(rows[j].rid, rows)
        BY <1>0, <2>2, <4>1, TidyNow DEF Excused, Halfway
      <4> QED
        BY <3>1, <4>1, <4>2 DEF GeneratedIn
    <3> QED
      BY <3>2, <3>3
  <2>3. CASE op' = [op EXCEPT ![o] = last] /\ UNCHANGED halfway
    BY <1>0, <1>2, <2>2, <2>3, TidyStep, TidyEnded
  <2>4. CASE Ends(o, "failed") /\ halfway' = (halfway \/ last.pc # "idle")
    BY <1>0, <1>2, <2>0, <2>2, <2>4, TidyStep, TidyEnded DEF Ends
  <2> QED
    BY <1>2, <2>3, <2>4 DEF Answered
<1> QED
  BY <1>1, <1>2 DEF Create

LEMMA TidyRemove ==
    ASSUME IInv, SoloInv, TidyInv, Assumptions, NEW o \in Op, Remove(o)
    PROVE  TidyInv'
<1> DEFINE me == op[o]
<1>0. /\ me.pc = "remove" /\ me \in OpState /\ halfway \in BOOLEAN /\ raced' = raced
      /\ rows' = [i \in Id |-> IF i \in me.ids THEN Gone ELSE rows[i]]
      /\ Main \in Id
  BY OpTypes DEF Remove
<1>1. ASSUME ~raced, ~halfway, NEW i \in ExceptionsIn(rows')
      PROVE  GeneratedIn(rows'[i].rid, rows')
  <2>1. i \in ExceptionsIn(rows) /\ i \notin me.ids /\ rows'[i] = rows[i]
    BY <1>0, <1>1 DEF ExceptionsIn
  <2>2. SoloOK(me, rows) /\ OpOK(me, rows, unissued) /\ me.kind \in {"delete", "update"}
    BY <1>0, <1>1, Alone DEF SoloOK, OpState
  <2>3. me.kind = "delete"
    BY <1>0, <2>1, <2>2 DEF SoloOK
  <2>4. GeneratedIn(rows[i].rid, rows)
    BY <1>0, <1>1, <2>1, <2>3, TidyNow DEF Excused
  <2>5. me.ts # 0
    BY <1>0, <2>1, <2>2, <2>3, <2>4 DEF SoloOK, ExceptionsIn, GeneratedIn
  <2>6. Main \notin me.ids
    BY <1>0, <1>1, <2>2, <2>3, <2>4, <2>5, OpTypes DEF OpOK, Doomed, GeneratedIn
  <2> QED
    BY <1>0, <2>1, <2>4, <2>6 DEF GeneratedIn
<1>2. ASSUME NEW outcome, op' = [op EXCEPT ![o] = Ended(outcome)], halfway' => TRUE,
             ~halfway' => ~halfway
      PROVE  TidyInv'
  BY <1>0, <1>1, <1>2, TidyStep, TidyEnded
<1>3. PICK outcome : Removed(me) = Ended(outcome)
  BY DEF Removed
<1> QED
  BY <1>0, <1>2, <1>3 DEF Remove, Answered, Ends

LEMMA TidyFails ==
    ASSUME IInv, TidyInv, Assumptions, NEW o \in Op, Fails(o)
    PROVE  TidyInv'
BY TidyEnds, OpTypes DEF Fails

LEMMA TidyNext ==
    ASSUME IInv, SoloInv, TidyInv, Assumptions, NoZone, [Next]_vars
    PROVE  TidyInv'
<1>1. ASSUME NEW o \in Op, OpNext(o) PROVE TidyInv'
  <2>1. ASSUME NEW i \in Id, NEW s \in Slot \cup {0}, StartDelete(o, i, s) PROVE TidyInv'
    BY <2>1, TidyStarts DEF StartDelete
  <2>2. ASSUME NEW i \in Id, NEW s \in Slot \cup {0}, NEW change \in Changes,
               StartUpdate(o, i, s, change)
        PROVE  TidyInv'
    BY <2>2, TidyStarts DEF StartUpdate
  <2> QED
    BY <1>1, <2>1, <2>2, TidyReads, TidyWrite, TidyCreate, TidyRemove, TidyFails DEF OpNext
<1>2. CASE UNCHANGED vars
  BY <1>2 DEF vars, TidyInv
<1> QED
  BY <1>1, <1>2 DEF Next

\* Between operations that all did their writes, every edited occurrence is one
\* the series has, if the zone of a series is never changed alone
\* (smart.go:120-164; the run series_zone shows that the condition is needed).
THEOREM NoOrphans ==
    ASSUME "zone" \notin Changes
    PROVE  Spec => []ExceptionsHaveOriginals
<1>1. Init => NoZone /\ TidyInv
  <2>1. Idle.change # "zone"
    BY DEF Idle
  <2>2. Init => NoZone
    BY <2>1 DEF Init, NoZone
  <2> QED
    BY <2>2, TidyInit, Constants
<1>2. IInv /\ SoloInv /\ NoZone /\ TidyInv /\ [Next]_vars => NoZone' /\ TidyInv'
  BY NoZoneStep, TidyNext, Constants
<1>3. IInv /\ TidyInv => ExceptionsHaveOriginals
  <2> SUFFICES ASSUME IInv, TidyInv, Settled, NEW i \in Exceptions PROVE Generated(rows[i].rid)
    BY DEF ExceptionsHaveOriginals
  <2>1. \A o \in Op : ~Excused(i, op[o])
    BY DEF Settled, Excused, Halfway
  <2>2. GeneratedIn(rows[i].rid, rows)
    BY <2>1, ExceptionsIs DEF TidyInv, Settled
  <2> QED
    BY <2>2 DEF Generated, GeneratedIn
<1> QED
  BY <1>1, <1>2, <1>3, SoloInvariance, PTL DEF Spec
=============================================================================
