------------------------ MODULE MCCalendarResolution ------------------------
(* Constants, symmetry and initial states for the runs of CalendarResolution. *)
EXTENDS CalendarResolution, TLC

CONSTANTS n1, n2, r1, r2

MCCal == 1..3
MCKind == 1 :> "owned" @@ 2 :> "managed" @@ 3 :> "owned"

A(op, sel) == [op |-> op, sel |-> sel, what |-> {}, name |-> n1]
Update(sel, what, n) == [op |-> "update", sel |-> sel, what |-> what, name |-> n]

Create(what, n) == [A("create", {}) EXCEPT !.what = what, !.name = n]

Pair(first, second) == r1 :> first @@ r2 :> second

MCMenu ==
    {Pair(A("access", {}), q) : q \in {A("calendars", {}), A("delete", {1}), A("access", {n2}),
                                      Update({n2}, {"default"}, n2)}}
    \cup {Pair(A("access", {n1}), Create({"meta", "default"}, n1)),
          Pair(A("access", {n2}), Update({n1}, {"meta", "default"}, n2)),
          Pair(A("window", All), A("delete", {1})),
          Pair(A("calendars", {}), Update({n1}, {"meta"}, n2)),
          Pair(Update({}, {"default"}, n2), Update({n1}, {"meta"}, n2)),
          Pair(A("delete", {n1}), A("delete", {1})),
          Pair(A("delete", {n1}), Create({"meta"}, n2)),
          Pair(Create({"meta"}, n2), Create({"meta", "default"}, n2))}

\* One calendar or two; the cache is empty, current, or from before the app
\* made calendar 2 and the default.
MCInit ==
    /\ Init /\ names \in {1 :> n1 @@ 2 :> n2 @@ 3 :> Gone, 1 :> n1 @@ 2 :> Gone @@ 3 :> Gone}
    /\ \/ disk = [list |-> None, default |-> None]
       \/ disk = [list |-> [names EXCEPT ![2] = Gone], default |-> 1]
       \/ disk = [list |-> [names EXCEPT ![2] = Gone], default |-> default]

MCSpec == MCInit /\ [][Next]_vars
=============================================================================
