-------------------------- MODULE EventQueryProofs --------------------------
(***************************************************************************)
(* Proofs about EventQuery, for every calendar, window, page size and cap, *)
(* and any changes by other clients.                                       *)
(*                                                                         *)
(* A stream reads its pages in the order of the IDs.  As long as no row    *)
(* leaves the answer to its question, a row's rank in it only grows: so    *)
(* what has been there all the time, and ranks before the cursor, has been *)
(* received (ReadInv).                                                     *)
(***************************************************************************)
EXTENDS EventQuery, FiniteSetTheorems, WellFoundedInduction, TLAPS

\* What was received was there: it is of the rows ever there, and not another
\* version of a row that is there throughout.
FoundInv ==
    /\ began \subseteq ever /\ rows \subseteq ever
    /\ \A x \in found : /\ x.row \in ever
                        /\ \A r \in began \cap rows : x.row.id = r.id => x.row = r

\* A page has one row to an ID, and a stream still open has only pages before
\* its cursor.
PageInv ==
    \A x, y \in found :
        /\ cursor[x.stream] # Done => x.page < cursor[x.stream]
        /\ x.stream = y.stream /\ x.page = y.page /\ x.row.id = y.row.id => x.row = y.row

\* What is there throughout has been received, if it ranks before the cursor.
Passed(i, r) == cursor[i] = Done \/ Rank(i, r) \div PageSize < cursor[i]
ReadInv ==
    ~failed /\ ~removed =>
        \A i \in Streams : \A r \in {r \in began \cap rows : Answers(r, i)} :
            Passed(i, r) => \E x \in found : x.row = r

Asking == units = IF OfSeries THEN <<asked>> ELSE Units(asked)

IInv ==
    /\ TypeOK /\ rows \subseteq Lasting /\ ever \subseteq Lasting
    /\ Asking /\ FoundInv /\ PageInv /\ ReadInv

-----------------------------------------------------------------------------
(* Arithmetic.                                                             *)

LEMMA MinIsIn ==
    ASSUME NEW S \in SUBSET Nat, S # {}
    PROVE  Min(S) \in S /\ \A x \in S : Min(S) <= x
<1>1. \E x \in S : \A y \in S : ~(<<y, x>> \in OpToRel(<, Nat))
    BY NatLessThanWellFounded, WFMin, Zenon
<1>2. PICK x \in S : \A y \in S : ~(<<y, x>> \in OpToRel(<, Nat))
    BY <1>1
<1>3. \A y \in S : <<y, x>> \in Nat \X Nat /\ ~(y < x)
    BY <1>2, Zenon DEF OpToRel
<1>4. \A y \in S : x \in Nat /\ y \in Nat /\ ~(y < x)
    BY <1>3
<1>5. \A y \in S : x <= y
    BY <1>4
<1>6. QED BY <1>5 DEF Min

\* The numbers of a query.
LEMMA Numbers ==
    /\ Pad \in Nat \ {0} /\ MaxWindow \in Nat \ {0} /\ PageSize \in Nat \ {0}
    /\ MaxOccurrencesPerMaster \in Nat \ {0} /\ IsFiniteSet(Id) /\ Cardinality(Id) \in Nat
BY BoundAssumption, DomainAssumption, FS_CardinalityType

LEMMA Times == Time \subseteq Int /\ Time \subseteq Nat /\ IsFiniteSet(Time) /\ NoTime \notin Time
BY DomainAssumption

LEMMA WindowType ==
    ASSUME NEW w \in Windows
    PROVE  w.start \in Nat /\ w.end \in Nat /\ w.start < w.end
BY DomainAssumption

LEMMA RowTimes ==
    ASSUME NEW row \in Lasting
    PROVE  /\ row.start \in Time /\ row.end \in Time /\ row.rule \subseteq Time
           /\ row.start \in Int /\ row.end \in Int /\ row.allday \in BOOLEAN
           /\ Pad <= row.start /\ row.start < row.end
           /\ \A s \in Starts(row) : s \in Time /\ s \in Int /\ row.start <= s
<1>1. /\ row.start \in Time /\ row.end \in Time /\ row.rule \subseteq Time
      /\ row.allday \in BOOLEAN
    BY DEF Lasting, Row
<1>2. row.start \in Int /\ row.end \in Int
    BY <1>1, Times
<1>3. /\ Pad <= row.start /\ row.start < row.end
      /\ \A t \in row.rule : row.start <= t
    BY DEF Lasting
<1>4. ASSUME NEW s \in Starts(row)
      PROVE  s \in Time /\ s \in Int /\ row.start <= s
    <2>1. CASE Recurs(row)
        BY <1>1, <1>3, <2>1, Times DEF Starts
    <2>2. CASE ~Recurs(row)
        BY <1>1, <1>2, <2>2, Times DEF Starts
    <2>3. QED BY <2>1, <2>2
<1>5. QED BY <1>1, <1>2, <1>3, <1>4

LEMMA Division ==
    ASSUME NEW x \in Int, NEW b \in Nat \ {0}
    PROVE  /\ x \div b \in Int
           /\ b * (x \div b) <= x /\ x < b * (x \div b) + b
OBVIOUS

\* Multiplication keeps the order, and division by a positive number is by what
\* it multiplies to.
LEMMA Multiples ==
    ASSUME NEW x \in Int, NEW y \in Int, NEW b \in Nat \ {0}
    PROVE  x < y => b * x + b <= b * y
<1> SUFFICES ASSUME x < y PROVE b * x + b <= b * y
    OBVIOUS
<1>1. PICK d \in Nat : y = x + 1 + d
    <2>1. y - x - 1 \in Nat /\ y = x + 1 + (y - x - 1)
        OBVIOUS
    <2>2. QED BY <2>1
<1>2. b * y = b * x + b + b * d
    BY <1>1
<1>3. b * d >= 0
    OBVIOUS
<1>4. b * x \in Int /\ b * d \in Int
    OBVIOUS
<1>5. QED BY <1>2, <1>3, <1>4

LEMMA QuotientIs ==
    ASSUME NEW x \in Int, NEW n \in Int, NEW b \in Nat \ {0}
    PROVE  b * n <= x => n <= x \div b
<1> DEFINE d == x \div b
<1>1. d \in Int /\ x < b * d + b
    BY Division
<1> HIDE DEF d
<1>2. d < n => b * d + b <= b * n
    BY <1>1, Multiples
<1>3. b * d \in Int /\ b * n \in Int
    BY <1>1
<1>4. QED BY <1>1, <1>2, <1>3 DEF d

LEMMA QuotientGrows ==
    ASSUME NEW x \in Int, NEW y \in Int, NEW b \in Nat \ {0}, x <= y
    PROVE  x \div b <= y \div b
<1> DEFINE d == x \div b
<1>1. d \in Int /\ b * d <= x
    BY Division
<1> HIDE DEF d
<1>2. b * d <= y
    BY <1>1
<1>3. QED BY <1>1, <1>2, QuotientIs DEF d

LEMMA QuotientSmaller ==
    ASSUME NEW x \in Nat, NEW b \in Nat \ {0}
    PROVE  x \div b \in Nat /\ x \div b <= x
<1> DEFINE d == x \div b
<1>1. d \in Int /\ b * d <= x
    BY Division
<1>2. 0 <= d
    BY QuotientIs
<1> HIDE DEF d
<1>3. d <= b * d
    BY <1>1, <1>2
<1>4. QED BY <1>1, <1>2, <1>3 DEF d

-----------------------------------------------------------------------------
(* Ranks.                                                                  *)

Before(i, r) == {q.id : q \in {q \in Slice(i) : q.id < r.id}}

LEMMA RankType ==
    ASSUME rows \subseteq Row, NEW i, NEW r
    PROVE  /\ IsFiniteSet(Before(i, r)) /\ Rank(i, r) = Cardinality(Before(i, r))
           /\ Rank(i, r) \in Nat /\ Rank(i, r) <= Cardinality(Id)
<1>1. Before(i, r) \subseteq Id
    BY DEF Before, Slice, Row
<1>2. Rank(i, r) = Cardinality(Before(i, r))
    BY DEF Before, Rank
<1>3. IsFiniteSet(Id)
    BY DomainAssumption
<1>4. IsFiniteSet(Before(i, r)) /\ Cardinality(Before(i, r)) <= Cardinality(Id)
    BY <1>1, <1>3, FS_Subset
<1>5. Cardinality(Before(i, r)) \in Nat
    BY <1>4, FS_CardinalityType
<1>6. QED BY <1>2, <1>4, <1>5

\* The same of the next state.
LEMMA RankNext ==
    ASSUME rows' \subseteq Row, NEW i, NEW r
    PROVE  IsFiniteSet(Before(i, r)') /\ Rank(i, r)' = Cardinality(Before(i, r)') /\ Rank(i, r)' \in Nat
<1>1. Before(i, r)' \subseteq Id
    BY DEF Before, Slice, Row
<1>2. Rank(i, r)' = Cardinality(Before(i, r)')
    BY DEF Before, Rank
<1>3. IsFiniteSet(Before(i, r)')
    BY <1>1, DomainAssumption, FS_Subset
<1>4. QED BY <1>2, <1>3, FS_CardinalityType

\* A row that is stored, with no other leaving an answer, moves none forward.
LEMMA RankGrows ==
    ASSUME rows \subseteq Row, rows' \subseteq Row, UNCHANGED <<skew, asked, units>>,
           NEW i, NEW r,
           \A q \in rows : Answers(q, i) => \E p \in rows' : p.id = q.id /\ Answers(p, i)
    PROVE  Rank(i, r) <= Rank(i, r)'
<1>1. \A p : Answers(p, i)' <=> Answers(p, i)
    BY DEF Answers, OfSeries, InUnit
<1>2. Before(i, r) \subseteq Before(i, r)'
    BY <1>1 DEF Before, Slice
<1>3. IsFiniteSet(Before(i, r)') /\ Rank(i, r)' = Cardinality(Before(i, r)')
    BY RankNext
<1>4. Cardinality(Before(i, r)) <= Cardinality(Before(i, r)')
    BY <1>2, <1>3, FS_Subset
<1>5. Rank(i, r) = Cardinality(Before(i, r))
    BY RankType
<1>6. QED BY <1>3, <1>4, <1>5

-----------------------------------------------------------------------------
(* The steps.                                                              *)

LEMMA InitEstablishes ==
    ASSUME Init
    PROVE  IInv
<1>1. /\ rows \in Calendars /\ skew \in Skews /\ asked \in Windows \cup Uid
      /\ found = {} /\ cursor = [i \in Streams |-> 0] /\ failed = FALSE
      /\ began = rows /\ ever = rows /\ removed = FALSE /\ Asking
    BY DEF Init, Asking
<1>2. rows \subseteq Lasting /\ OnePerId(rows) /\ Lasting \subseteq Row
    BY <1>1, RowAssumption DEF Lasting
<1>3. 0 \in 0..Cardinality(Id)
    BY Numbers
<1>4. TypeOK
    BY <1>1, <1>2, <1>3 DEF TypeOK
<1>5. FoundInv /\ PageInv
    BY <1>1 DEF FoundInv, PageInv
<1>6. ReadInv
    <2> SUFFICES ASSUME NEW i \in Streams, NEW r \in rows, Passed(i, r)
                 PROVE  FALSE
        BY <1>1 DEF ReadInv
    <2>1. cursor[i] = 0
        BY <1>1
    <2>2. Rank(i, r) \div PageSize \in Nat
        BY <1>2, RankType, QuotientSmaller, Numbers
    <2>3. QED BY <2>1, <2>2 DEF Passed, Done
<1>7. QED BY <1>1, <1>2, <1>4, <1>5, <1>6 DEF IInv

\* The answers to the questions change only with the zone and the questions.
LEMMA SameQuestions ==
    ASSUME UNCHANGED <<skew, asked, units>>
    PROVE  /\ Streams' = Streams /\ (OfSeries' <=> OfSeries)
           /\ \A r, i : Answers(r, i)' <=> Answers(r, i)
           /\ Asking' <=> Asking
BY DEF Streams, OfSeries, Answers, InUnit, Asking, Units, Cut

LEMMA FetchPageKeeps ==
    ASSUME IInv, NEW i \in Streams, FetchPage(i)
    PROVE  IInv'
<1> DEFINE c == cursor[i]
           new == Sightings(i, Page(i, c))
           to == IF More(i, c) THEN c + 1 ELSE Done
<1>1. /\ ~failed /\ c # Done /\ found' = found \cup new /\ cursor' = [cursor EXCEPT ![i] = to]
      /\ UNCHANGED <<rows, skew, asked, units, failed, began, ever, removed>>
    BY DEF FetchPage, UnderWay, Open, NextPage
<1>2. TypeOK /\ FoundInv /\ PageInv /\ ReadInv /\ rows \subseteq Row /\ rows \subseteq ever
    BY DEF IInv, TypeOK, FoundInv
<1>3. c \in 0..Cardinality(Id)
    BY <1>1, <1>2 DEF TypeOK
<1>4. Streams' = Streams /\ Asking' /\ \A r, j : Answers(r, j)' <=> Answers(r, j)
    BY <1>1, SameQuestions DEF IInv
<1>5. /\ Page(i, c) \subseteq rows
      /\ new = {[row |-> r, stream |-> i, page |-> c] : r \in Page(i, c)}
    BY DEF Page, Slice, Sightings
<1>6. to \in {Done} \cup 0..Cardinality(Id)
    <2>1. ASSUME More(i, c)
          PROVE  c + 1 \in 0..Cardinality(Id)
        <3>1. PICK r \in rows : Rank(i, r) \div PageSize > c
            BY <2>1 DEF More, Slice
        <3>2. /\ Rank(i, r) \in Nat /\ Rank(i, r) <= Cardinality(Id)
              /\ Rank(i, r) \div PageSize \in Nat /\ Rank(i, r) \div PageSize <= Rank(i, r)
            BY <1>2, RankType, QuotientSmaller, Numbers
        <3>3. QED BY <1>3, <3>1, <3>2, Numbers
    <2>2. QED BY <2>1
<1>7. \A x \in new : x.row \in Page(i, c) /\ x.stream = i /\ x.page = c
    BY <1>5
<1>8. TypeOK'
    <2>1. new \subseteq [row : Row, stream : Streams, page : 0..Cardinality(Id)]
        BY <1>2, <1>3, <1>5
    <2> HIDE DEF new, to, c
    <2>2. QED BY <1>1, <1>2, <1>4, <1>6, <2>1 DEF TypeOK
<1>9. FoundInv'
    <2>1. ASSUME NEW x \in new
          PROVE  x.row \in ever /\ \A r \in began \cap rows : x.row.id = r.id => x.row = r
        BY <1>2, <1>5, <1>7 DEF TypeOK, OnePerId
    <2> HIDE DEF new
    <2>2. QED BY <1>1, <1>2, <2>1 DEF FoundInv
<1>10. PageInv'
    <2> SUFFICES ASSUME NEW x \in found', NEW y \in found'
                 PROVE  /\ cursor'[x.stream] # Done => x.page < cursor'[x.stream]
                        /\ x.stream = y.stream /\ x.page = y.page /\ x.row.id = y.row.id => x.row = y.row
        BY DEF PageInv
    <2>1. ASSUME NEW z \in found
          PROVE  z.stream \in Streams /\ z.page \in Nat /\ (z.stream = i => z.page < c)
        BY <1>1, <1>2 DEF TypeOK, PageInv
    <2>2. cursor'[i] = to /\ \A j \in Streams \ {i} : cursor'[j] = cursor[j]
        BY <1>1, <1>2 DEF TypeOK
    <2>3. to # Done => to = c + 1
        OBVIOUS
    <2>4. ASSUME NEW z \in new, NEW w \in new, z.row.id = w.row.id
          PROVE  z.row = w.row
        BY <1>2, <1>5, <1>7, <2>4 DEF TypeOK, OnePerId
    <2> HIDE DEF new, to
    <2>5. cursor'[x.stream] # Done => x.page < cursor'[x.stream]
        <3>1. CASE x \in new
            BY <1>3, <1>7, <2>2, <2>3, <3>1
        <3>2. CASE x \in found
            BY <1>2, <1>3, <2>1, <2>2, <2>3, <3>2 DEF PageInv
        <3>3. QED BY <1>1, <3>1, <3>2
    <2>6. x.stream = y.stream /\ x.page = y.page /\ x.row.id = y.row.id => x.row = y.row
        <3>1. CASE x \in new /\ y \in new
            BY <2>4, <3>1
        <3>2. CASE x \in found /\ y \in found
            BY <1>2, <3>2 DEF PageInv
        <3>3. CASE (x \in new /\ y \in found) \/ (x \in found /\ y \in new)
            BY <1>3, <1>7, <2>1, <3>3
        <3>4. QED BY <1>1, <3>1, <3>2, <3>3
    <2>7. QED BY <2>5, <2>6
<1>11. ReadInv'
    <2> SUFFICES ASSUME ~removed, NEW j \in Streams, NEW r \in began \cap rows,
                        Answers(r, j), Passed(j, r)'
                 PROVE  \E x \in found' : x.row = r
        BY <1>1, <1>4 DEF ReadInv
    <2>1. Rank(j, r)' = Rank(j, r)
        BY <1>1, <1>4 DEF Rank, Slice
    <2>2. CASE j # i
        <3>1. cursor'[j] = cursor[j]
            BY <1>1, <1>2, <2>2 DEF TypeOK
        <3>2. Passed(j, r)
            BY <2>1, <3>1 DEF Passed
        <3>3. QED BY <1>1, <1>2, <3>2 DEF ReadInv
    <2>3. CASE j = i
        <3>1. cursor'[i] = to
            BY <1>1, <1>2 DEF TypeOK
        <3>2. Rank(i, r) \div PageSize \in Nat
            BY <1>2, RankType, QuotientSmaller, Numbers
        <3>3. Rank(i, r) \div PageSize <= c
            <4>1. CASE More(i, c)
                BY <1>3, <2>1, <2>3, <3>1, <3>2, <4>1 DEF Passed, Done
            <4>2. CASE ~More(i, c)
                <5>1. ~(Rank(i, r) \div PageSize > c)
                    BY <2>3, <4>2 DEF More, Slice
                <5>2. QED BY <1>3, <3>2, <5>1
            <4>3. QED BY <4>1, <4>2
        <3>4. CASE Rank(i, r) \div PageSize < c
            BY <1>1, <1>2, <2>3, <3>4 DEF Passed, ReadInv
        <3>5. CASE Rank(i, r) \div PageSize = c
            <4>1. r \in Page(i, c)
                BY <2>3, <3>5 DEF Page, Slice
            <4>2. [row |-> r, stream |-> i, page |-> c] \in new
                BY <1>5, <4>1
            <4> HIDE DEF new
            <4>3. QED BY <1>1, <4>2
        <3>6. QED BY <1>3, <3>2, <3>3, <3>4, <3>5
    <2>4. QED BY <2>2, <2>3
<1>12. QED
    BY <1>1, <1>4, <1>8, <1>9, <1>10, <1>11 DEF IInv

LEMMA FetchFailsKeeps ==
    ASSUME IInv, NEW i \in Streams, FetchFails(i)
    PROVE  IInv'
<1>1. /\ failed' = TRUE /\ found' = {}
      /\ UNCHANGED <<rows, skew, asked, units, cursor, began, ever, removed>>
    BY DEF FetchFails
<1>2. Streams' = Streams /\ Asking'
    BY <1>1, SameQuestions DEF IInv
<1>3. TypeOK'
    BY <1>1, <1>2 DEF IInv, TypeOK
<1>4. FoundInv' /\ PageInv' /\ ReadInv'
    BY <1>1 DEF IInv, FoundInv, PageInv, ReadInv
<1>5. QED BY <1>1, <1>2, <1>3, <1>4 DEF IInv

\* Another client stores a row or deletes one.
LEMMA OtherClientKeeps ==
    ASSUME IInv, OtherClient
    PROVE  IInv'
<1>1. UNCHANGED <<skew, asked, units, found, cursor, failed, began>>
    BY DEF OtherClient
<1>2. /\ TypeOK /\ FoundInv /\ PageInv /\ ReadInv /\ rows \subseteq Row /\ rows \subseteq Lasting
      /\ ever \subseteq Lasting /\ Lasting \subseteq Row
    BY DEF IInv, TypeOK, Lasting
<1>3. Streams' = Streams /\ Asking' /\ \A r, j : Answers(r, j)' <=> Answers(r, j)
    BY <1>1, SameQuestions DEF IInv
<1>4. PageInv'
    BY <1>1, <1>2 DEF PageInv
<1>5. ASSUME NEW row \in rows, Deletes(row)
      PROVE  IInv'
    <2>1. rows' = rows \ {row} /\ removed' = TRUE /\ ever' = ever
        BY <1>5 DEF Deletes
    <2>2. TypeOK'
        BY <1>1, <1>2, <1>3, <2>1 DEF TypeOK, OnePerId
    <2>3. FoundInv' /\ ReadInv'
        BY <1>1, <1>2, <2>1 DEF FoundInv, ReadInv
    <2>4. QED BY <1>2, <1>3, <1>4, <2>1, <2>2, <2>3 DEF IInv
<1>6. ASSUME NEW row \in Puts, Stores(row)
      PROVE  IInv'
    <2> DEFINE old == {r \in rows : r.id = row.id}
    <2>1. /\ row \notin ever /\ rows' = (rows \ old) \cup {row} /\ ever' = ever \cup {row}
          /\ removed' = (removed \/ \E r \in old, i \in Streams : Answers(r, i) /\ ~Answers(row, i))
        BY <1>6 DEF Stores
    <2>2. row \in Lasting
        BY RowAssumption
    <2>3. OnePerId(rows')
        BY <1>2, <2>1 DEF TypeOK, OnePerId
    <2>4. TypeOK'
        BY <1>1, <1>2, <1>3, <2>1, <2>2, <2>3 DEF TypeOK
    <2>5. began \cap rows' \subseteq began \cap rows
        BY <1>2, <2>1 DEF FoundInv
    <2>6. FoundInv'
        BY <1>1, <1>2, <2>1, <2>5 DEF FoundInv
    <2>7. ReadInv'
        <3> SUFFICES ASSUME ~failed, ~removed', NEW i \in Streams, NEW r \in began \cap rows',
                            Answers(r, i), Passed(i, r)'
                     PROVE  \E x \in found : x.row = r
            BY <1>1, <1>3 DEF ReadInv
        <3>1. r \in began \cap rows /\ ~removed
            BY <2>1, <2>5
        <3>2. \A q \in rows : Answers(q, i) => \E p \in rows' : p.id = q.id /\ Answers(p, i)
            BY <2>1
        <3>3. Rank(i, r) <= Rank(i, r)'
            BY <1>1, <1>2, <2>4, <3>2, RankGrows DEF TypeOK
        <3>4. Rank(i, r) \in Nat /\ Rank(i, r)' \in Nat
            <4>1. rows' \subseteq Row
                BY <2>4 DEF TypeOK
            <4>2. QED BY <1>2, <4>1, RankType, RankNext
        <3>5. Rank(i, r) \div PageSize <= Rank(i, r)' \div PageSize
            BY <3>3, <3>4, QuotientGrows, Numbers
        <3>6. Passed(i, r)
            <4>1. cursor'[i] = cursor[i] /\ cursor[i] \in {Done} \cup 0..Cardinality(Id)
                BY <1>1, <1>2 DEF TypeOK
            <4>2. Rank(i, r) \div PageSize \in Nat /\ Rank(i, r)' \div PageSize \in Nat
                BY <3>4, QuotientSmaller, Numbers
            <4>3. QED BY <3>5, <4>1, <4>2 DEF Passed, Done
        <3>7. QED BY <1>2, <3>1, <3>6 DEF ReadInv
    <2>8. QED BY <1>2, <1>3, <1>4, <2>1, <2>2, <2>4, <2>6, <2>7 DEF IInv
<1>7. QED BY <1>5, <1>6 DEF OtherClient

LEMMA NextKeeps ==
    ASSUME IInv, [Next]_vars
    PROVE  IInv'
<1>1. CASE UNCHANGED vars
    <2>1. Streams' = Streams /\ Asking' /\ \A r, j : Answers(r, j)' <=> Answers(r, j)
        BY <1>1, SameQuestions DEF IInv, vars
    <2>2. \A r, j : Rank(j, r)' = Rank(j, r)
        BY <1>1, <2>1 DEF Rank, Slice, vars
    <2>3. ReadInv'
        BY <1>1, <2>1, <2>2 DEF IInv, ReadInv, Passed, vars
    <2>4. QED BY <1>1, <2>1, <2>3 DEF IInv, TypeOK, FoundInv, PageInv, vars
<1>2. QED
    BY <1>1, FetchPageKeeps, FetchFailsKeeps, OtherClientKeeps DEF Next, Terminating

\* The invariant that the theorems below rest on holds of every behaviour.
LEMMA Inductive == Spec => []IInv
<1>1. Init => IInv
    BY InitEstablishes
<1>2. IInv /\ [Next]_vars => IInv'
    BY NextKeeps
<1>3. QED BY <1>1, <1>2, PTL DEF Spec

\* The state keeps its types: there is one row to an ID, and no more pages are
\* asked for than there can be rows.
THEOREM QueryTypes == Spec => []TypeOK
<1>1. IInv => TypeOK
    BY DEF IInv
<1>2. QED BY <1>1, Inductive, PTL

-----------------------------------------------------------------------------
(* A window is covered by its units.                                       *)

LEMMA MinOfTwo ==
    ASSUME NEW x \in Int, NEW y \in Int
    PROVE  Min({x, y}) = IF x <= y THEN x ELSE y
BY DEF Min

LEMMA MaxOfTwo ==
    ASSUME NEW x \in Int, NEW y \in Int
    PROVE  Max({x, y}) = IF x <= y THEN y ELSE x
BY DEF Max

\* Every moment of an interval is in a stretch, for each type.
LEMMA CutAt ==
    ASSUME NEW from \in Int, NEW to \in Int, NEW t \in Int, from <= t, t < to, NEW j \in 1..4
    PROVE  \E i \in DOMAIN Cut(from, to) :
              LET u == Cut(from, to)[i]
              IN  /\ u.start \in Int /\ u.end \in Int /\ u.type = queryTypes[j]
                  /\ from <= u.start /\ u.start <= t /\ t < u.end
<1> DEFINE k == (t - from) \div MaxWindow
           n == (to - from + MaxWindow - 1) \div MaxWindow
           i == 4 * k + j
           s == from + k * MaxWindow
<1>1. MaxWindow \in Nat \ {0}
    BY Numbers
<1>2. k \in Int /\ MaxWindow * k <= t - from /\ t - from < MaxWindow * k + MaxWindow
    BY <1>1, Division
<1>3. 0 <= k
    BY <1>1, QuotientIs
<1> HIDE DEF k
<1>4. MaxWindow * (k + 1) <= to - from + MaxWindow - 1
    <2>1. MaxWindow * (k + 1) = MaxWindow * k + MaxWindow
        BY <1>1, <1>2
    <2>2. MaxWindow * k \in Int
        BY <1>1, <1>2
    <2>3. QED BY <1>1, <1>2, <2>1, <2>2
<1>5. k + 1 <= n
    <2>1. k + 1 \in Int /\ to - from + MaxWindow - 1 \in Int
        BY <1>1, <1>2
    <2>2. QED BY <1>1, <1>4, <2>1, QuotientIs
<1>6. n \in Int
    BY <1>1, Division
<1> HIDE DEF n
<1>7. i \in 1..(4 * n) /\ (i - 1) \div 4 = k /\ ((i - 1) % 4) + 1 = j
    BY <1>2, <1>3, <1>5, <1>6
<1>8. /\ s \in Int /\ from <= s /\ s <= t /\ t < s + MaxWindow /\ s + MaxWindow \in Int
    <2>1. k * MaxWindow = MaxWindow * k /\ MaxWindow * k \in Int /\ 0 <= MaxWindow * k
        BY <1>1, <1>2, <1>3
    <2>2. QED BY <1>1, <1>2, <2>1
<1> HIDE DEF i
<1>9. i \in DOMAIN Cut(from, to)
    BY <1>7 DEF Cut, n
<1>10. Cut(from, to)[i] = [start |-> s, end |-> Min({s + MaxWindow, to}), type |-> queryTypes[j]]
    BY <1>7 DEF Cut, n
<1> HIDE DEF s
<1>11. Min({s + MaxWindow, to}) \in Int /\ t < Min({s + MaxWindow, to})
    BY <1>1, <1>8, MinOfTwo
<1>12. QED BY <1>8, <1>9, <1>10, <1>11

\* A row with an occurrence that overlaps the window is an answer to one of the
\* questions: it starts in a stretch, or earlier, and has the occurrence there.
LEMMA UnitOf ==
    ASSUME NEW w \in Windows, NEW row \in Lasting, NEW s \in Starts(row), skew \in Skews,
           Overlaps(s, s + (row.end - row.start), w)
    PROVE  \E i \in DOMAIN Units(w) : InUnit(row, Units(w)[i])
<1> DEFINE by == IF row.allday THEN skew ELSE 0
           from == Max({w.start - Pad, 0})
           to == w.end + Pad
           length == row.end - row.start
           begins == row.start + by
           occurs == s + by
<1>1. /\ w.start \in Nat /\ w.end \in Nat /\ w.start < w.end /\ Pad \in Nat \ {0}
      /\ by \in Int /\ -Pad <= by /\ by <= Pad
    BY WindowType, SkewAssumption, Numbers
<1>2. /\ row.start \in Int /\ row.end \in Int /\ s \in Int /\ row.allday \in BOOLEAN
      /\ Pad <= row.start /\ row.start < row.end /\ row.start <= s
      /\ row.rule \subseteq Time
    BY RowTimes
<1>3. s < w.end /\ s + length > w.start
    BY DEF Overlaps
<1>4. from \in Int /\ to \in Int /\ from < to /\ occurs < to /\ from < occurs + length
    BY <1>1, <1>2, <1>3, MaxOfTwo
<1>5. begins \in Int /\ occurs \in Int /\ begins <= occurs /\ length \in Int /\ 0 < length
    BY <1>1, <1>2
<1>6. Units(w) = Cut(from, to)
    BY DEF Units
<1>7. ASSUME NEW u, u.start \in Int, u.end \in Int, u.type.allday = row.allday,
             \/ ~u.type.before /\ u.start <= begins /\ begins < u.end
             \/ u.type.before /\ begins < u.start /\ occurs < u.end /\ u.start < occurs + length
      PROVE  InUnit(row, u)
    <2> DEFINE local(t) == IF row.allday THEN t + skew ELSE t
    <2>1. local(row.start) = begins /\ local(s) = occurs
        BY <1>1, <1>2
    <2>2. CASE ~u.type.before /\ u.start <= begins /\ begins < u.end
        <3>1. local(row.start) \in u.start..(u.end - 1)
            BY <1>5, <1>7, <2>1, <2>2
        <3>2. QED BY <1>7, <2>2, <3>1 DEF InUnit
    <2>3. CASE u.type.before /\ begins < u.start /\ occurs < u.end /\ u.start < occurs + length
        <3>1. local(row.start) < u.start /\ Overlaps(local(s), local(s) + length, u)
            BY <2>1, <2>3 DEF Overlaps
        <3>2. QED BY <1>7, <2>3, <3>1 DEF InUnit
    <2>4. QED BY <1>7, <2>2, <2>3
<1>8. /\ queryTypes[IF row.allday THEN 3 ELSE 1] = [before |-> FALSE, allday |-> row.allday]
      /\ queryTypes[IF row.allday THEN 4 ELSE 2] = [before |-> TRUE, allday |-> row.allday]
    BY <1>2 DEF queryTypes
<1> HIDE DEF by, from, to, length, begins, occurs
<1>9. CASE from <= begins
    <2>1. PICK i \in DOMAIN Cut(from, to) :
             LET u == Cut(from, to)[i]
             IN  /\ u.start \in Int /\ u.end \in Int
                 /\ u.type = queryTypes[IF row.allday THEN 3 ELSE 1]
                 /\ from <= u.start /\ u.start <= begins /\ begins < u.end
        <3>1. (IF row.allday THEN 3 ELSE 1) \in 1..4 /\ begins < to
            BY <1>4, <1>5
        <3>2. QED BY <1>4, <1>5, <1>9, <3>1, CutAt
    <2> DEFINE u == Cut(from, to)[i]
    <2>2. ~u.type.before /\ u.type.allday = row.allday
        BY <1>8, <2>1
    <2>3. u.start \in Int /\ u.end \in Int /\ u.start <= begins /\ begins < u.end
        BY <2>1
    <2> HIDE DEF u
    <2>4. InUnit(row, u)
        BY <1>7, <2>2, <2>3
    <2>5. QED BY <1>6, <2>4 DEF u
<1>10. CASE begins < from
    <2> DEFINE t == IF from <= occurs THEN occurs ELSE from
    <2>1. PICK i \in DOMAIN Cut(from, to) :
             LET u == Cut(from, to)[i]
             IN  /\ u.start \in Int /\ u.end \in Int
                 /\ u.type = queryTypes[IF row.allday THEN 4 ELSE 2]
                 /\ from <= u.start /\ u.start <= t /\ t < u.end
        <3>1. (IF row.allday THEN 4 ELSE 2) \in 1..4 /\ t \in Int /\ from <= t /\ t < to
            BY <1>4, <1>5
        <3>2. QED BY <1>4, <3>1, CutAt
    <2> DEFINE u == Cut(from, to)[i]
    <2>2. u.type.before /\ u.type.allday = row.allday
        BY <1>8, <2>1
    <2>3. u.start \in Int /\ u.end \in Int /\ from <= u.start /\ u.start <= t /\ t < u.end
        BY <2>1
    <2> HIDE DEF u
    <2>4. begins < u.start /\ occurs < u.end /\ u.start < occurs + length
        BY <1>4, <1>5, <1>10, <2>3
    <2>5. InUnit(row, u)
        BY <1>7, <2>2, <2>3, <2>4
    <2>6. QED BY <1>6, <2>5 DEF u
<1>11. QED BY <1>4, <1>5, <1>9, <1>10

-----------------------------------------------------------------------------
(* What is listed.                                                         *)

LEMMA StreamsAreNumbers ==
    ASSUME Asking
    PROVE  /\ Streams \subseteq Nat
           /\ OfSeries => 1 \in Streams
           /\ ~OfSeries => units = Units(asked)
<1>1. CASE OfSeries
    BY <1>1 DEF Asking, Streams
<1>2. CASE ~OfSeries
    <2>1. units = Units(asked)
        BY <1>2 DEF Asking
    <2>2. DOMAIN Units(asked) \subseteq Nat
        BY DEF Units, Cut
    <2>3. QED BY <1>2, <2>1, <2>2 DEF Streams
<1>3. QED BY <1>1, <1>2

LEMMA SightingTypes ==
    ASSUME IInv, NEW x \in found
    PROVE  x.row \in ever /\ x.row \in Lasting /\ x.stream \in Nat /\ x.page \in Nat
<1>1. x.stream \in Streams /\ x.page \in Nat
    BY DEF IInv, TypeOK
<1>2. x.row \in ever /\ ever \subseteq Lasting
    BY DEF IInv, FoundInv
<1>3. Streams \subseteq Nat
    BY StreamsAreNumbers DEF IInv
<1>4. QED BY <1>1, <1>2, <1>3

\* Of one row there is one version among the first sightings.
LEMMA OneFirst ==
    ASSUME IInv, NEW p \in Raws, NEW q \in Raws, p.id = q.id
    PROVE  p = q
<1>1. PICK x \in found : x.row = p /\ ~\E b \in found : b.row.id = x.row.id /\ Earlier(b, x)
    BY DEF Raws, Deduplicated
<1>2. PICK y \in found : y.row = q /\ ~\E b \in found : b.row.id = y.row.id /\ Earlier(b, y)
    BY DEF Raws, Deduplicated
<1>3. ~Earlier(x, y) /\ ~Earlier(y, x)
    BY <1>1, <1>2
<1>4. x.stream = y.stream /\ x.page = y.page
    BY <1>3, SightingTypes DEF Earlier
<1>5. QED BY <1>1, <1>2, <1>4 DEF IInv, PageInv

\* A row that is there throughout is taken as it is, once it was received.
LEMMA Received ==
    ASSUME IInv, NEW row \in Steady, \E x \in found : x.row = row
    PROVE  row \in Raws
<1> DEFINE S == {x \in found : x.row = row}
           m == Min({x.stream : x \in S})
           T == {x \in S : x.stream = m}
           n == Min({x.page : x \in T})
<1>1. \A x \in S : x.stream \in Nat /\ x.page \in Nat
    BY SightingTypes
<1>2. m \in {x.stream : x \in S} /\ \A x \in S : m <= x.stream
    <2> DEFINE streams == {x.stream : x \in S}
    <2>1. streams \in SUBSET Nat /\ streams # {}
        BY <1>1
    <2> HIDE DEF streams
    <2>2. Min(streams) \in streams /\ \A k \in streams : Min(streams) <= k
        BY <2>1, MinIsIn
    <2>3. QED BY <2>2 DEF streams
<1> HIDE DEF m
<1>3. n \in {x.page : x \in T} /\ \A x \in T : n <= x.page
    <2> DEFINE pages == {x.page : x \in T}
    <2>1. pages \in SUBSET Nat /\ pages # {}
        BY <1>1, <1>2
    <2> HIDE DEF pages
    <2>2. Min(pages) \in pages /\ \A k \in pages : Min(pages) <= k
        BY <2>1, MinIsIn
    <2>3. QED BY <2>2 DEF pages
<1> HIDE DEF n
<1>4. PICK z \in found : z.row = row /\ z.stream = m /\ z.page = n
    BY <1>3
<1>5. ASSUME NEW b \in found, b.row.id = row.id, Earlier(b, z)
      PROVE  FALSE
    <2>1. b.row = row
        BY <1>5 DEF IInv, FoundInv, Steady
    <2>2. b.stream \in Nat /\ b.page \in Nat /\ m \in Nat /\ n \in Nat
        BY <1>1, <1>4, SightingTypes
    <2>3. m <= b.stream /\ (b.stream = m => n <= b.page)
        BY <1>2, <1>3, <2>1
    <2>4. QED BY <1>4, <1>5, <2>2, <2>3 DEF Earlier
<1>6. QED BY <1>4, <1>5 DEF Raws, Deduplicated

\* ... and it was received, if it is an answer.
LEMMA NoAnswerIsMissed ==
    ASSUME IInv, AllDone, ~failed, ~removed, NEW row \in Steady,
           NEW i \in Streams, Answers(row, i)
    PROVE  row \in Raws
<1>1. cursor[i] = Done
    BY DEF AllDone, Open
<1>2. \E x \in found : x.row = row
    BY <1>1 DEF IInv, ReadInv, Passed, Steady
<1>3. QED BY <1>2, Received

LEMMA NoneInWindowIsMissed ==
    ASSUME IInv, Listed, ~removed, NEW row \in Steady, NEW s \in Starts(row),
           Overlaps(s, s + (row.end - row.start), asked)
    PROVE  row \in Raws
<1>1. asked \in Windows /\ skew \in Skews /\ row \in Lasting /\ AllDone /\ ~failed
    BY DEF IInv, TypeOK, Listed, OfSeries, Steady
<1>2. units = Units(asked) /\ ~OfSeries
    BY StreamsAreNumbers DEF IInv, Listed
<1>3. PICK i \in DOMAIN Units(asked) : InUnit(row, Units(asked)[i])
    BY <1>1, UnitOf
<1>4. i \in Streams /\ Answers(row, i)
    BY <1>2, <1>3 DEF Streams, Answers
<1>5. QED BY <1>1, <1>4, NoAnswerIsMissed

\* A row that does not recur is there at its own time.
LEMMA OwnTime ==
    ASSUME NEW row \in Lasting, ~Recurs(row)
    PROVE  /\ Starts(row) = {row.start} /\ row.start + (row.end - row.start) = row.end
BY RowTimes DEF Starts

LEMMA ExceptionIsRead ==
    ASSUME IInv, Listed, ~removed, NEW e \in Steady, e.rid # NoTime,
           Overlaps(e.start, e.end, asked)
    PROVE  e \in Raws
<1>1. e \in Lasting /\ ~Recurs(e)
    BY DEF IInv, Steady, Recurs
<1>2. e.start \in Starts(e) /\ Overlaps(e.start, e.start + (e.end - e.start), asked)
    BY <1>1, OwnTime
<1>3. QED BY <1>2, NoneInWindowIsMissed

LEMMA RowsAreFound ==
    ASSUME IInv, NEW row \in Raws
    PROVE  row \in ever /\ row \in Lasting
BY SightingTypes DEF Raws, Deduplicated

\* A listed occurrence is one of a row that was received.
LEMMA ListedIs ==
    ASSUME NEW o \in Listing
    PROVE  /\ o.row \in Raws
           /\ Recurs(o.row) => o.start \in expandMaster(o.row, asked, ShadowedBy(Raws, o.row.uid))
<1>1. PICK row \in Raws :
          o \in IF Recurs(row)
                THEN {Occurrence(row, s) : s \in expandMaster(row, asked, ShadowedBy(Raws, row.uid))}
                ELSE Overlapping(row, asked)
    BY DEF Listing, ExpandOccurrences
<1>2. CASE Recurs(row)
    <2>1. PICK s \in expandMaster(row, asked, ShadowedBy(Raws, row.uid)) : o = Occurrence(row, s)
        BY <1>1, <1>2
    <2>2. o.row = row /\ o.start = s
        BY <2>1 DEF Occurrence
    <2>3. QED BY <2>1, <2>2
<1>3. CASE ~Recurs(row)
    <2>1. o = Occurrence(row, row.start)
        BY <1>1, <1>3 DEF Overlapping
    <2>2. o.row = row
        BY <2>1 DEF Occurrence
    <2>3. QED BY <1>3, <2>2
<1>4. QED BY <1>2, <1>3

\* A listing shows one version of each row, though the row changes between two
\* stretches, and no occurrence of a series besides the exception that stands
\* in for it, when the exception is in the window all along: query and
\* ExpandOccurrences (wire.go:197-210, expand.go:117-128).
THEOREM ListedOnce == Spec => []NothingIsListedTwice
<1>1. ASSUME IInv
      PROVE  OneVersionOfARow
    BY <1>1, ListedIs, OneFirst DEF OneVersionOfARow
<1>2. ASSUME IInv
      PROVE  NoReplacedOccurrence
    <2> SUFFICES ASSUME Listed, ~removed, NEW o \in Listing, NEW e \in Steady,
                        Overlaps(e.start, e.end, asked), e.rid # NoTime,
                        Recurs(o.row), o.row.uid = e.uid, o.start = e.rid
                 PROVE  FALSE
        BY DEF NoReplacedOccurrence
    <2>1. e \in Raws
        BY <1>2, ExceptionIsRead
    <2>2. e.rid \in ShadowedBy(Raws, o.row.uid)
        BY <2>1 DEF ShadowedBy
    <2>3. o.start \in expandMaster(o.row, asked, ShadowedBy(Raws, o.row.uid))
        BY ListedIs
    <2>4. QED BY <2>2, <2>3 DEF expandMaster
<1>3. IInv => NothingIsListedTwice
    BY <1>1, <1>2 DEF NothingIsListedTwice
<1>4. QED BY <1>3, Inductive, PTL

\* Whatever the window, its stretches, the pages and the zone: what is there
\* throughout is returned, and its occurrences are listed up to the cap
\* (wire.go:156-237, expand.go:61-154), unless a row leaves an answer meanwhile.
THEOREM MissesNothing == Spec => []NothingIsMissed
<1>1. ASSUME IInv
      PROVE  NoRowIsMissed
    <2> SUFFICES ASSUME AllDone, ~failed, ~removed, NEW row \in Steady,
                        IF OfSeries THEN row.uid = asked
                        ELSE \E s \in Starts(row) : Overlaps(s, s + (row.end - row.start), asked)
                 PROVE  row \in Raws
        BY DEF NoRowIsMissed
    <2>1. CASE OfSeries
        <3>1. 1 \in Streams /\ Answers(row, 1)
            BY <1>1, <2>1, StreamsAreNumbers DEF IInv, Answers
        <3>2. QED BY <1>1, <3>1, NoAnswerIsMissed
    <2>2. CASE ~OfSeries
        BY <1>1, <2>2, NoneInWindowIsMissed DEF Listed
    <2>3. QED BY <2>1, <2>2
<1>2. ASSUME IInv
      PROVE  NoOccurrenceIsMissed
    <2> SUFFICES ASSUME Listed, ~removed, NEW row \in Steady, NEW s \in Starts(row)
                 PROVE  LET length == row.end - row.start
                            inside(t) == Overlaps(t, t + length, asked)
                            near == {e \in Steady : Overlaps(e.start, e.end, asked)}
                            earlier == {t \in Starts(row) :
                                          t < s /\ Shows(row, t, near) /\ inside(t)}
                        IN  Shows(row, s, ever) /\ inside(s)
                            /\ Cardinality(earlier) < MaxOccurrencesPerMaster
                            => Occurrence(row, s) \in Listing
        BY DEF NoOccurrenceIsMissed
    <2> DEFINE length == row.end - row.start
               inside(t) == Overlaps(t, t + length, asked)
               near == {e \in Steady : Overlaps(e.start, e.end, asked)}
               earlier == {t \in Starts(row) : t < s /\ Shows(row, t, near) /\ inside(t)}
    <2> SUFFICES ASSUME Shows(row, s, ever), inside(s), Cardinality(earlier) < MaxOccurrencesPerMaster
                 PROVE  Occurrence(row, s) \in Listing
        OBVIOUS
    <2>1. row \in Raws
        BY <1>2, NoneInWindowIsMissed
    <2>2. row \in Lasting
        BY <1>2 DEF IInv, Steady
    <2>3. CASE ~Recurs(row)
        <3>1. s = row.start /\ Overlaps(row.start, row.end, asked)
            BY <2>2, <2>3, OwnTime
        <3>2. Occurrence(row, s) \in Overlapping(row, asked)
            BY <3>1 DEF Overlapping
        <3>3. QED BY <2>1, <2>3, <3>2 DEF Listing, ExpandOccurrences
    <2>4. CASE Recurs(row)
        <3> DEFINE shadowed == ShadowedBy(Raws, row.uid)
                   shown == {t \in row.rule : /\ t \in (asked.start - length)..asked.end
                                              /\ t \notin row.exdates \cup shadowed
                                              /\ Overlaps(t, t + length, asked)}
        <3>1. /\ asked.start \in Int /\ asked.end \in Int /\ length \in Int /\ row.rule \subseteq Time
              /\ Time \subseteq Int /\ IsFiniteSet(Time) /\ Starts(row) = row.rule
            <4>1. asked \in Windows
                BY <1>2 DEF IInv, TypeOK, Listed, OfSeries
            <4>2. asked.start \in Nat /\ asked.end \in Nat
                BY <4>1, WindowType
            <4>3. row.start \in Int /\ row.end \in Int /\ row.rule \subseteq Time
                BY <2>2, RowTimes
            <4>4. QED BY <2>4, <4>2, <4>3, Times DEF Starts
        <3>2. s \notin shadowed
            <4>1. ASSUME s \in shadowed
                  PROVE  FALSE
                <5>1. PICK r \in Raws : r.uid = row.uid /\ r.rid = s
                    BY <4>1 DEF ShadowedBy
                <5>2. r \in ever
                    BY <1>2, RowsAreFound
                <5>3. QED BY <2>4, <5>1, <5>2 DEF Shows
            <4>2. QED BY <4>1
        <3>3. s \in shown
            <4>1. s \in Int /\ s \notin row.exdates /\ s < asked.end /\ s + length > asked.start
                BY <2>4, <3>1 DEF Shows, Overlaps
            <4>2. QED BY <3>1, <3>2, <4>1
        <3>4. {t \in shown : t < s} \subseteq earlier
            <4> SUFFICES ASSUME NEW t \in shown, t < s, NEW e \in near,
                                e.uid = row.uid, e.rid = t
                         PROVE  FALSE
                BY <3>1 DEF Shows
            <4>1. e.rid # NoTime
                BY <3>1, Times
            <4>2. e \in Raws
                BY <1>2, <4>1, ExceptionIsRead
            <4>3. t \in shadowed
                BY <4>1, <4>2 DEF ShadowedBy
            <4>4. QED BY <4>3
        <3>5. IsFiniteSet(earlier)
            BY <3>1, FS_Subset
        <3>6. /\ Cardinality({t \in shown : t < s}) <= Cardinality(earlier)
              /\ Cardinality({t \in shown : t < s}) \in Nat /\ Cardinality(earlier) \in Nat
            BY <3>4, <3>5, FS_Subset, FS_CardinalityType
        <3>7. Cardinality({t \in shown : t < s}) < MaxOccurrencesPerMaster
            BY <3>6, Numbers
        <3>8. s \in expandMaster(row, asked, shadowed)
            BY <3>3, <3>7 DEF expandMaster
        <3>9. Occurrence(row, s) \in {Occurrence(row, t) : t \in expandMaster(row, asked, shadowed)}
            BY <3>8
        <3>10. QED BY <2>1, <2>4, <3>9 DEF Listing, ExpandOccurrences
    <2>5. QED BY <2>3, <2>4
<1>3. IInv => NothingIsMissed
    BY <1>1, <1>2 DEF NothingIsMissed
<1>4. QED BY <1>3, Inductive, PTL

\* What edits and deletions of single occurrences find (ResolveOccurrence,
\* expand.go:161-183) is what the rows show: every listed occurrence of a
\* series is found, and one is live exactly if no exception stands in for it.
THEOREM OccurrencesAreFound == Spec => []OccurrencesResolve
<1>1. ASSUME IInv, Listed, NEW o \in Listing, Recurs(o.row)
      PROVE  ResolveOccurrence(o.row, {r \in rows : r.uid = o.row.uid}, o.start) \in {"live", "edited"}
    <2>1. o.start \in expandMaster(o.row, asked, ShadowedBy(Raws, o.row.uid))
        BY <1>1, ListedIs
    <2>2. o.start \in o.row.rule /\ o.start \notin o.row.exdates
        BY <2>1 DEF expandMaster
    <2>3. QED BY <2>2 DEF ResolveOccurrence
<1>2. ASSUME NEW m \in {r \in rows : Recurs(r)}, NEW t \in Time
      PROVE  (ResolveOccurrence(m, {r \in rows : r.uid = m.uid}, t) = "live") <=> Shows(m, t, rows)
    BY DEF ResolveOccurrence, Shows, Starts
<1>3. IInv => OccurrencesResolve
    BY <1>1, <1>2 DEF OccurrencesResolve
<1>4. QED BY <1>3, Inductive, PTL
=============================================================================
