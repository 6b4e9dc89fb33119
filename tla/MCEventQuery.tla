---------------------------- MODULE MCEventQuery ----------------------------
(* Constants for the runs of EventQuery: a series, perhaps with an exception, *)
(* beside a plain event; one moved away before the cap; one of a lost rule.  *)
EXTENDS EventQuery

CONSTANTS a, b

MCTime == 0..12
MCWindows == {[start |-> 0, end |-> 2], [start |-> 4, end |-> 6], [start |-> 3, end |-> 8]}
MCSkews == {-1, 0, 1}

Plain(id, allday, s, length) ==
    [id |-> id, uid |-> b, allday |-> allday, start |-> s, end |-> s + length,
     rid |-> NoTime, rule |-> {}, exdates |-> {}]
Series(allday, rule, length, exdates) ==
    [id |-> 1, uid |-> a, allday |-> allday, start |-> Min(rule), end |-> Min(rule) + length,
     rid |-> NoTime, rule |-> rule, exdates |-> exdates]
Edited(id, rid, s) ==
    [id |-> id, uid |-> a, allday |-> FALSE, start |-> s, end |-> s + 1,
     rid |-> rid, rule |-> {}, exdates |-> {}]

MCCalendars ==
    {{m} : m \in {Series(d, {1, 3, 5, 7}, n, {3}) : d \in BOOLEAN, n \in 1..3}}
    \cup {{Plain(3, d, s, n)} : d \in BOOLEAN, s \in 2..9, n \in 1..3}
    \cup {{Series(FALSE, {2, 4, 6}, 1, {}), Edited(2, 4, s), Plain(3, FALSE, t, 1)} :
            s \in {1, 4, 5, 9}, t \in {3, 4}}
    \cup {{Series(FALSE, {2, 4, 6, 7}, 1, {}), Edited(2, 4, 9)},
          {[Plain(1, FALSE, 4, 1) EXCEPT !.uid = a], Edited(2, 4, 5)}}

MCPuts == {Plain(0, FALSE, 4, 1), Plain(3, FALSE, 5, 1), Edited(4, 6, 4),
           Series(FALSE, {2, 4, 6}, 1, {2})}
=============================================================================
