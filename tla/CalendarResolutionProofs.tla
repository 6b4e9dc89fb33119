---------------------- MODULE CalendarResolutionProofs ----------------------
(***************************************************************************)
(* Proofs about CalendarResolution, for every set of calendars and names,  *)
(* any number of requests and any menu of theirs.                          *)
(*                                                                         *)
(* The inductive invariant says of each request what it has read and from  *)
(* when: a list is fresh if the request saw the server have it since its   *)
(* last turn; the caches of a request that has dropped them hold only what *)
(* it has seen since; and a mark stands for what was read from the disk.   *)
(***************************************************************************)
EXTENDS CalendarResolution, WellFoundedInduction, TLAPS

-----------------------------------------------------------------------------
(* The inductive invariant.                                                *)

\* Where a request has chosen its calendars, and where it works on a list.
Busy == {"act", "meta", "metaDone", "mkdef", "defDone", "keys",
         "unlock", "delete", "relock", "deleted"}
Reading == {"keepList", "dflt", "getDflt", "storeDflt", "check"}
Refreshing == {"list", "getList", "storeList", "keepList", "dflt", "getDflt", "storeDflt", "done"}

\* A request whose caches are known to be newer than its last turn: it was told
\* "not found" and dropped them, or it wrote the metadata and dropped them.
NamesKnown(q) ==
    \/ q.failed # NoCal
    \/ "meta" \in q.what /\ (q.op = "detail" \/ q.pc \in {"mkdef", "defDone"})
DefaultKnown(q) == q.failed # NoCal \/ q.op = "detail"

\* What is true of a request by itself.
Local(q) ==
    /\ q.pc \in Busy => q.cals # {}
    /\ q.pc \in {"unlock", "relock"} => Kind[The(q.cals)] = "owned"
    /\ q.pc \in (Busy \cup {"post"}) \ {"act"} => q.op \in {"update", "create", "delete"}
    /\ q.failed # NoCal => q.op = "access" /\ q.again
    /\ q.pc = "idle" => q.failed = NoCal /\ q.op # "detail"
    /\ q.pc \in {"idle", "list", "keepList"} => ~q.fresh
    /\ q.pc \in {"list", "keepList", "check"} => q.round = "first"
    /\ q.pc = "dflt" => q.round = "first" \/ q.op = "detail"
    /\ q.op = "detail" => q.pc \in Refreshing /\ (q.pc # "done" => q.sel # {})
    /\ q.op = "detail" /\ q.pc \in {"list", "getList", "storeList", "keepList"} =>
          q.cals = {} /\ q.dflt = NoCal
    /\ q.pc = "act" => q.op \in {"access", "window"} /\ q.failed \notin q.cals
    /\ q.end # "none" => q.pc \in {"relock", "deleted", "done"}
    /\ q.end = "unknown" => q.pc = "done"

\* The four properties of one request q that was not overtaken, of what it has
\* seen of the server.
Unknown(q, seen) ==
    q.end = "unknown" =>
        \E list \in seen.names, d \in seen.default : ResolveMany(list, q.sel, d) = {}
PassedOver(q, seen) ==
    q.pc = "act" /\ q.sel = {} /\ q.dflt \notin q.cals \cup {NoCal} /\ ~q.lost =>
        q.dflt \in seen.default /\ \E list \in seen.names : q.dflt \notin Listed(list)
Replayed(q, seen) ==
    q.pc = "act" /\ q.failed # NoCal /\ ~q.lost =>
        /\ q.failed \notin q.cals
        /\ \E list \in seen.names, d \in seen.default : ResolveMany(list, q.sel, d) = q.cals
Detailed(q, seen) ==
    q.op = "detail" /\ q.end = "ok" /\ ~q.lost =>
        /\ \E d \in seen.default : (d = The(q.cals)) = (q.dflt = The(q.cals))
        /\ "meta" \in q.what => \E list \in seen.names : list[The(q.cals)] = q.list[The(q.cals)]

\* What a request holds is what it has seen.
Heard(q, seen, marks) ==
    /\ q.pc \in Reading /\ (q.fresh \/ q.round = "list" \/ NamesKnown(q)) =>
          q.list \in seen.names
    /\ q.pc = "keepList" => "list" \in marks
    /\ q.pc = "check" /\ ~q.lost =>
          q.dflt \in seen.default \/ ("default" \in marks /\ q.failed = NoCal)

Known(q, seen, late, marks) ==
    /\ q.pc = "storeList" => q.list \in seen.names
    /\ q.pc = "storeDflt" => q.dflt \in seen.default
    /\ ~late => /\ Heard(q, seen, marks)
                /\ Unknown(q, seen) /\ PassedOver(q, seen)
                /\ Replayed(q, seen) /\ Detailed(q, seen)

\* The caches of a request that has dropped them hold what it has seen since.
CachesSeen(q, seen, m, d) ==
    /\ NamesKnown(q) => {m, d.list} \subseteq seen.names \cup {None}
    /\ DefaultKnown(q) => d.default \in seen.default \cup {None}

ScopeHeld ==
    scope => \E r \in Request :
                \/ req[r].lost \/ req[r].pc = "relock"
                \/ req[r].pc = "delete" /\ Kind[The(req[r].cals)] = "owned"

RequestInv(r) ==
    /\ Local(req[r])
    /\ Known(req[r], since[r], overtaken[r], served)
    /\ Running(r) => names \in since[r].names /\ default \in since[r].default
    /\ Running(r) /\ ~overtaken[r] => CachesSeen(req[r], since[r], mem, disk)

IInv == TypeOK /\ ScopeHeld /\ \A r \in Request : RequestInv(r)

-----------------------------------------------------------------------------
(* Resolution of a selection.                                              *)

\* A nonempty set of naturals has its minimum as a member.
LEMMA MinIsIn ==
    ASSUME NEW S \in SUBSET Nat, S # {}
    PROVE  Min(S) \in S
<1>1. \E x \in S : \A y \in S : ~(<<y, x>> \in OpToRel(<, Nat))
    BY NatLessThanWellFounded, WFMin, Zenon
<1>2. PICK x \in S : \A y \in S : ~(<<y, x>> \in OpToRel(<, Nat))
    BY <1>1
<1>3. \A y \in S : <<y, x>> \in Nat \X Nat /\ ~(y < x)
    BY <1>2, Zenon DEF OpToRel
<1>a. \A y \in S : x \in Nat /\ y \in Nat /\ ~(y < x)
    BY <1>3
<1>4. \A y \in S : x <= y
    BY <1>a
<1>5. QED BY <1>4 DEF Min

\* The chosen member of a set is one.
LEMMA TheIsIn ==
    ASSUME NEW S, S # {}
    PROVE  The(S) \in S
BY DEF The

\* A resolution finds calendars.
LEMMA ResolveManyType ==
    ASSUME NEW list, NEW sel, NEW d
    PROVE  ResolveMany(list, sel, d) \in SUBSET Cal
<1>1. ASSUME NEW s PROVE ResolveOne(list, s) \in SUBSET Cal
    BY DEF ResolveOne, Listed
<1>2. Listed(list) \in SUBSET Cal
    BY DEF Listed
<1>3. Listed(list) # {} => Min(Listed(list)) \in Cal
    BY <1>2, MinIsIn, CalAssumption
<1>4. UNION {ResolveOne(list, s) : s \in sel} \in SUBSET Cal
    BY <1>1
<1>5. QED
    BY <1>2, <1>3, <1>4, SMT DEF ResolveMany

\* Only a request for the default depends on it.
LEMMA ResolveManyByName ==
    ASSUME NEW list, NEW sel, NEW d, NEW e, sel # {}
    PROVE  ResolveMany(list, sel, d) = ResolveMany(list, sel, e)
BY Zenon DEF ResolveMany

\* Whether there is a calendar to be had does not depend on the default.
LEMMA ResolveManyFails ==
    ASSUME NEW list, NEW sel, NEW d, NEW e, ResolveMany(list, sel, d) = {}
    PROVE  ResolveMany(list, sel, e) = {}
<1>1. CASE sel = {}
    <2>1. All # {}
        BY MarkAssumption
    <2>2. Listed(list) = {}
        BY <1>1, <2>1 DEF ResolveMany
    <2>3. QED BY <2>2 DEF ResolveMany
<1>2. CASE sel # {}
    BY <1>2, ResolveManyByName
<1>3. QED BY <1>1, <1>2

\* A listed default is what a request for the default gets.
LEMMA ResolveManyDefault ==
    ASSUME NEW list, NEW d, d \in Listed(list)
    PROVE  ResolveMany(list, {}, d) = {d}
<1>1. All # {} /\ Listed(list) # {}
    BY MarkAssumption
<1>2. QED BY <1>1 DEF ResolveMany
-----------------------------------------------------------------------------
(* Where a resolution leads.                                               *)

\* What q needs to hold for its resolution to be trusted.
Resolvable(q, seen, late) ==
    /\ q \in ReqState /\ q.end = "none" /\ q.pc \in Refreshing \cup {"check"}
    /\ q.failed # NoCal => q.op = "access" /\ q.again
    /\ q.op = "detail" => q.sel # {} /\ q.dflt = NoCal
    /\ ~late /\ (q.fresh \/ q.round = "list" \/ NamesKnown(q)) => q.list \in seen.names
    /\ ~late /\ ~q.lost /\ q.sel = {} =>
          \/ q.dflt \in seen.default
          \/ q.failed = NoCal /\ (Missing(q.list, q.dflt) => MayRefresh(q))

\* Where a request that leaves the metadata may be found.
Exits == {"getList", "getDflt", "check", "dflt", "act", "meta", "mkdef", "unlock", "delete", "done"}

\* From q a request goes to next, which holds no more than what it has seen.
Leads(q, next, seen, late, marks) ==
    /\ next \in ReqState /\ next.pc \in Exits
    /\ Local(next) /\ Known(next, seen, late, marks)
    /\ next.lost <=> q.lost
    /\ next.pc # "done" /\ NamesKnown(next) => NamesKnown(q)
    /\ next.pc # "done" /\ DefaultKnown(next) => DefaultKnown(q)

\* A request that has ended without a calendar, and without a detail, claims nothing.
LEMMA EndedLeads ==
    ASSUME NEW q \in ReqState, NEW end \in End, end # "unknown",
           q.op = "detail" => end # "ok",
           NEW seen, NEW late, NEW marks
    PROVE  Leads(q, Ended(q, end), seen, late, marks)
<1> DEFINE next == Ended(q, end)
<1>a. NewName \in Name
    BY DEF ReqState, NewName
<1>1. next \in ReqState
    <2>1. q.op \in Op /\ q.sel \in Selection /\ q.lost \in BOOLEAN /\ q.cals \in SUBSET Cal
        BY DEF ReqState
    <2>2. {} \in Selection /\ NoCal \in Defaults /\ "done" \in Pc /\ {} \in SUBSET Cal
        BY DEF Selection, Defaults, Pc
    <2>3. QED BY <1>a, <2>1, <2>2 DEF ReqState, Ended, Blank
<1>2. next.pc = "done" /\ next.end = end /\ next.op = q.op /\ (next.lost <=> q.lost) /\ next.failed = NoCal
    BY DEF Ended, Blank
<1> HIDE DEF next
<1>3. Local(next)
    BY <1>2 DEF Local, Busy, Refreshing
<1>4. Known(next, seen, late, marks)
    BY <1>2 DEF Known, Heard, Unknown, PassedOver, Replayed, Detailed, Reading
<1>5. QED
    BY <1>1, <1>2, <1>3, <1>4 DEF Leads, Exits, next
\* The request that has left the metadata, and what it keeps.
LeftAt(q, out, pc) == [Forget(q) EXCEPT !.pc = pc, !.cals = out]

LeavesAt(q, next, out, pc) ==
    /\ next \in ReqState
    /\ next.pc = pc /\ next.cals = out /\ next.op = q.op /\ next.sel = q.sel
    /\ next.what = q.what /\ next.dflt = q.dflt /\ ~next.fresh /\ next.list = None
    /\ next.round = "first" /\ (next.lost <=> q.lost) /\ (next.again <=> q.again) /\ next.failed = q.failed
    /\ next.end = q.end

LEMMA LeftFields ==
    ASSUME NEW q \in ReqState, NEW out \in SUBSET Cal, NEW pc \in Pc
    PROVE  LeavesAt(q, LeftAt(q, out, pc), out, pc)
<1>1. q.cals \in SUBSET Cal /\ None \in Lists \cup {None}
    BY DEF ReqState
<1>2. QED BY <1>1 DEF ReqState, Forget, LeftAt, LeavesAt

\* What the calendars out mean for a request that is to work on them.
Chooses(q, out, seen, late) ==
    /\ q \in ReqState /\ out \in SUBSET Cal /\ out # {} /\ q.end = "none"
    /\ q.failed # NoCal => q.op = "access" /\ q.again
    /\ q.op = "detail" => q.sel # {}
    /\ ~late /\ q.op = "detail" /\ (q.fresh \/ q.round = "list" \/ NamesKnown(q)) =>
          q.list \in seen.names
    /\ ~late => PassedOver(LeftAt(q, out, "act"), seen)
    /\ ~late /\ q.failed # NoCal /\ ~q.lost =>
          \E list \in seen.names, d \in seen.default : ResolveMany(list, q.sel, d) = out

\* Choosing calendars on the strength of what was seen.
LEMMA ChosenLeads ==
    ASSUME NEW q, NEW out, NEW seen, NEW late \in BOOLEAN, NEW marks,
           Chooses(q, out, seen, late)
    PROVE  Leads(q, Chosen(q, out), seen, late, marks)
<1>1. q \in ReqState /\ out \in SUBSET Cal /\ out # {} /\ q.end = "none" /\ The(out) \in Cal
    BY TheIsIn DEF Chooses
<1>2. ASSUME NEW pc \in {"meta", "mkdef", "unlock", "delete"},
             q.op \in {"update", "delete"},
             pc = "mkdef" => "meta" \notin q.what,
             pc = "unlock" => Kind[The(out)] = "owned"
      PROVE  Leads(q, LeftAt(q, out, pc), seen, late, marks)
    <2>1. pc \in Pc
        BY DEF Pc
    <2> DEFINE next == LeftAt(q, out, pc)
    <2>2. LeavesAt(q, next, out, pc)
        BY <1>1, <2>1, LeftFields
    <2>3. q.failed = NoCal
        BY <1>2 DEF Chooses
    <2> HIDE DEF next
    <2>4. Local(next)
        BY <1>1, <1>2, <2>2, <2>3 DEF Local, LeavesAt
    <2>5. Known(next, seen, late, marks)
        BY <1>1, <1>2, <2>2 DEF LeavesAt, Known, Heard, Unknown, PassedOver, Replayed, Detailed, Reading
    <2>6. ~NamesKnown(next) /\ ~DefaultKnown(next)
        BY <1>2, <2>2, <2>3 DEF LeavesAt, NamesKnown, DefaultKnown
    <2>7. QED
        BY <1>2, <2>2, <2>4, <2>5, <2>6 DEF LeavesAt, Leads, Exits, next
<1>3. CASE TheSameAgain(q, out)
    <2>1. Leads(q, Ended(q, "notfound"), seen, late, marks)
        BY <1>1, EndedLeads DEF End
    <2>2. QED BY <1>3, <2>1 DEF Chosen
<1>4. CASE ~TheSameAgain(q, out) /\ q.op \in {"access", "window"}
    <2> DEFINE next == LeftAt(q, out, "act")
    <2>1. "act" \in Pc
        BY DEF Pc
    <2>2. LeavesAt(q, next, out, "act")
        BY <1>1, <2>1, LeftFields
    <2>3. ~late => PassedOver(next, seen)
        BY DEF Chooses
    <2>4. q.failed \notin out
        BY <1>1, <1>4, CalAssumption DEF TheSameAgain, Chooses
    <2>5. q.failed # NoCal => q.op = "access" /\ q.again
        BY DEF Chooses
    <2>6. ~late => Replayed(next, seen)
        <3> HIDE DEF next
        <3>1. QED BY <2>2, <2>4 DEF LeavesAt, Replayed, Chooses
    <2>7. Chosen(q, out) = next
        BY <1>4, Zenon DEF Chosen, LeftAt
    <2> HIDE DEF next
    <2>8. Local(next)
        BY <1>1, <1>4, <2>2, <2>4, <2>5 DEF LeavesAt, Local
    <2>9. Known(next, seen, late, marks)
        BY <1>1, <1>4, <2>2, <2>3, <2>6 DEF LeavesAt, Known, Heard, Unknown, Detailed, Reading
    <2>10. (NamesKnown(next) => NamesKnown(q)) /\ (DefaultKnown(next) => DefaultKnown(q))
        BY <1>4, <2>2 DEF LeavesAt, NamesKnown, DefaultKnown
    <2>11. QED
        BY <2>2, <2>7, <2>8, <2>9, <2>10 DEF LeavesAt, Leads, Exits
<1>5. CASE ~TheSameAgain(q, out) /\ q.op = "detail"
    <2> DEFINE next == [q EXCEPT !.pc = "dflt", !.cals = out]
    <2>1. Chosen(q, out) = next
        BY <1>5, Zenon DEF Chosen
    <2>2. next \in ReqState
        BY <1>1 DEF ReqState, Pc
    <2>3. /\ next.pc = "dflt" /\ next.cals = out /\ next.op = q.op /\ next.sel = q.sel
          /\ next.what = q.what /\ next.dflt = q.dflt /\ (next.fresh <=> q.fresh)
          /\ next.list = q.list /\ next.round = q.round /\ (next.lost <=> q.lost) /\ (next.again <=> q.again)
          /\ next.failed = q.failed /\ next.end = q.end
        BY <1>1 DEF ReqState
    <2>4. q.failed = NoCal /\ q.sel # {}
        BY <1>5 DEF Chooses
    <2>5. ~late /\ (q.fresh \/ q.round = "list" \/ NamesKnown(q)) => q.list \in seen.names
        BY <1>5 DEF Chooses
    <2> HIDE DEF next
    <2>6. Local(next)
        BY <1>1, <1>5, <2>3, <2>4 DEF Local, Busy, Refreshing
    <2>7. (NamesKnown(next) => NamesKnown(q)) /\ (DefaultKnown(next) => DefaultKnown(q))
        BY <1>5, <2>3, <2>4 DEF NamesKnown, DefaultKnown
    <2>8. Known(next, seen, late, marks)
        BY <1>1, <1>5, <2>3, <2>4, <2>5, <2>7 DEF Known, Heard, Unknown, PassedOver, Replayed, Detailed, Reading
    <2>9. QED
        BY <2>1, <2>2, <2>3, <2>6, <2>7, <2>8 DEF Leads, Exits
<1>6. CASE ~TheSameAgain(q, out) /\ q.op = "update" /\ Kind[The(out)] = "owned"
    <2>1. Chosen(q, out) = LeftAt(q, out, IF "meta" \in q.what THEN "meta" ELSE "mkdef")
        BY <1>6, Zenon DEF Chosen, LeftAt
    <2>2. CASE "meta" \in q.what
        BY <1>2, <1>6, <2>1, <2>2, Zenon
    <2>3. CASE "meta" \notin q.what
        BY <1>2, <1>6, <2>1, <2>3, Zenon
    <2>4. QED BY <2>2, <2>3
<1>7. CASE ~TheSameAgain(q, out) /\ q.op = "delete" /\ Kind[The(out)] # "subscribed"
    <2>1. Chosen(q, out) = LeftAt(q, out, IF Kind[The(out)] = "owned" THEN "unlock" ELSE "delete")
        BY <1>7, Zenon DEF Chosen, LeftAt
    <2>2. CASE Kind[The(out)] = "owned"
        BY <1>2, <1>7, <2>1, <2>2, Zenon
    <2>3. CASE Kind[The(out)] # "owned"
        BY <1>2, <1>7, <2>1, <2>3, Zenon
    <2>4. QED BY <2>2, <2>3
<1>8. CASE /\ ~TheSameAgain(q, out) /\ q.op \notin {"access", "window", "detail"}
           /\ ~(q.op = "update" /\ Kind[The(out)] = "owned")
           /\ ~(q.op = "delete" /\ Kind[The(out)] # "subscribed")
    <2>1. Chosen(q, out) = Ended(q, "refused")
        BY <1>8, Zenon DEF Chosen
    <2>2. QED BY <1>1, <2>1, EndedLeads DEF End
<1>9. QED BY <1>3, <1>4, <1>5, <1>6, <1>7, <1>8
\* A request that fails for want of a calendar.
LEMMA UnresolvedLeads ==
    ASSUME NEW q, NEW seen, NEW late \in BOOLEAN, NEW marks, NEW end \in {"unknown", "error"},
           q \in ReqState, q.failed # NoCal => q.op = "access" /\ q.again,
           end = "unknown" /\ ~late =>
               \E list \in seen.names, d \in seen.default : ResolveMany(list, q.sel, d) = {}
    PROVE  Leads(q, Unresolved(q, end), seen, late, marks)
<1> DEFINE served2 == q.op = "access" /\ q.again /\ q.failed = NoCal
<1>1. CASE served2
    <2>1. Unresolved(q, end) = Ended(q, "ok")
        BY <1>1, Zenon DEF Unresolved
    <2>2. QED BY <1>1, <2>1, EndedLeads DEF End
<1>2. CASE ~served2 /\ end = "error"
    <2>1. Unresolved(q, end) = Ended(q, "error")
        BY <1>2, Zenon DEF Unresolved
    <2>2. QED BY <1>2, <2>1, EndedLeads DEF End
<1>3. CASE ~served2 /\ end = "unknown"
    <2> DEFINE next == Ended(q, "unknown")
    <2>1. Unresolved(q, end) = next
        BY <1>3, Zenon DEF Unresolved
    <2>2. NewName \in Name
        BY DEF ReqState, NewName
    <2>3. /\ q.op \in Op /\ q.sel \in Selection /\ q.lost \in BOOLEAN
          /\ {} \in Selection /\ NoCal \in Defaults /\ "done" \in Pc /\ {} \in SUBSET Cal
        BY DEF ReqState, Selection, Defaults, Pc
    <2>4. next \in ReqState
        BY <2>2, <2>3 DEF ReqState, Ended, Blank, End
    <2>5. /\ next.pc = "done" /\ next.end = "unknown" /\ next.op = q.op /\ next.sel = q.sel
          /\ (next.lost <=> q.lost) /\ next.failed = NoCal
        BY DEF Ended, Blank
    <2> HIDE DEF next
    <2>6. Local(next)
        BY <2>5 DEF Local, Busy, Refreshing
    <2>7. Known(next, seen, late, marks)
        BY <1>3, <2>5 DEF Known, Heard, Unknown, PassedOver, Replayed, Detailed, Reading
    <2>8. QED
        BY <2>1, <2>4, <2>5, <2>6, <2>7 DEF Leads, Exits
<1>4. QED BY <1>1, <1>2, <1>3

\* A resolution that is concluded, or that asks for a fresh list.
LEMMA ResolvedLeads ==
    ASSUME NEW q, NEW seen, NEW late \in BOOLEAN, NEW marks,
           Resolvable(q, seen, late), seen.names # {}, seen.default # {}
    PROVE  Leads(q, Resolved(q), seen, late, marks)
<1> DEFINE out == ResolveMany(q.list, q.sel, q.dflt)
<1>1. out \in SUBSET Cal
    BY ResolveManyType
<1> HIDE DEF out
<1>2. /\ q \in ReqState /\ q.end = "none"
      /\ q.failed # NoCal => q.op = "access" /\ q.again
      /\ q.op = "detail" => q.sel # {} /\ q.dflt = NoCal
    BY DEF Resolvable
<1>3. CASE MayRefresh(q) /\ (out = {} \/ Missing(q.list, q.dflt))
    <2> DEFINE next == Refresh(q, out)
    <2>1. Resolved(q) = next
        BY <1>3, Zenon DEF Resolved, out
    <2>2. next \in ReqState
        BY <1>1, <1>2 DEF Refresh, ReqState, Pc
    <2>3. /\ next.pc = "getList" /\ next.cals = out /\ next.op = q.op /\ next.sel = q.sel
          /\ next.dflt = q.dflt /\ (next.lost <=> q.lost) /\ (next.again <=> q.again) /\ next.what = q.what
          /\ next.failed = q.failed /\ next.end = q.end
        BY <1>2 DEF Refresh, ReqState
    <2>4. q.op = "detail" => out = {}
        BY <1>2, <1>3 DEF Missing
    <2> HIDE DEF next
    <2>5. Local(next)
        BY <1>2, <2>3, <2>4 DEF Local, Busy, Refreshing
    <2>6. Known(next, seen, late, marks)
        BY <1>2, <2>3 DEF Known, Heard, Unknown, PassedOver, Replayed, Detailed, Reading
    <2>7. (NamesKnown(next) => NamesKnown(q)) /\ (DefaultKnown(next) => DefaultKnown(q))
        BY <2>3 DEF NamesKnown, DefaultKnown
    <2>8. QED
        BY <2>1, <2>2, <2>3, <2>5, <2>6, <2>7 DEF Leads, Exits
<1>4. CASE ~(MayRefresh(q) /\ (out = {} \/ Missing(q.list, q.dflt))) /\ out = {}
    <2>1. Resolved(q) = Unresolved(q, "unknown")
        BY <1>4, Zenon DEF Resolved, out
    <2>2. ~late => q.list \in seen.names
        BY <1>4 DEF MayRefresh, Resolvable
    <2>3. \A d : ResolveMany(q.list, q.sel, d) = {}
        BY <1>4, ResolveManyFails DEF out
    <2>4. ~late => \E list \in seen.names, d \in seen.default : ResolveMany(list, q.sel, d) = {}
        BY <2>2, <2>3
    <2>5. QED BY <1>2, <2>1, <2>4, UnresolvedLeads
<1>5. CASE ~(MayRefresh(q) /\ (out = {} \/ Missing(q.list, q.dflt))) /\ out # {}
    <2>1. Resolved(q) = Chosen(q, out)
        BY <1>5, Zenon DEF Resolved, out
    <2>2. ASSUME ~late, q.sel = {}, q.dflt \notin out \cup {NoCal}, ~q.lost
          PROVE  /\ q.dflt \in seen.default
                 /\ \E list \in seen.names : q.dflt \notin Listed(list)
        <3>1. q.dflt \notin Listed(q.list)
            BY <2>2, ResolveManyDefault DEF out
        <3>2. Missing(q.list, q.dflt) /\ ~MayRefresh(q)
            BY <1>5, <2>2, <3>1 DEF Missing
        <3>3. q.list \in seen.names /\ q.dflt \in seen.default
            BY <2>2, <3>2 DEF MayRefresh, Resolvable
        <3>4. QED BY <3>1, <3>3
    <2>3. ~late => PassedOver(LeftAt(q, out, "act"), seen)
        <3> DEFINE next == LeftAt(q, out, "act")
        <3>1. LeavesAt(q, next, out, "act")
            BY <1>1, <1>2, LeftFields DEF Pc
        <3> HIDE DEF next
        <3>2. ~late => PassedOver(next, seen)
            BY <2>2, <3>1 DEF LeavesAt, PassedOver
        <3>3. QED BY <3>2 DEF next
    <2>4. ASSUME ~late, q.failed # NoCal, ~q.lost
          PROVE  \E list \in seen.names, d \in seen.default : ResolveMany(list, q.sel, d) = out
        <3>1. q.list \in seen.names
            BY <2>4 DEF Resolvable, NamesKnown
        <3>2. CASE q.sel = {}
            BY <2>4, <3>1, <3>2 DEF out, Resolvable
        <3>3. CASE q.sel # {}
            <4>1. \A d : ResolveMany(q.list, q.sel, d) = out
                BY <3>3, ResolveManyByName DEF out
            <4>2. QED BY <3>1, <4>1
        <3>4. QED BY <3>2, <3>3
    <2>5. Chooses(q, out, seen, late)
        BY <1>1, <1>2, <1>5, <2>3, <2>4 DEF Chooses, Resolvable
    <2>6. QED BY <2>1, <2>5, ChosenLeads
<1>6. QED BY <1>3, <1>4, <1>5
\* A list is found: in memory, on the disk or at the server.
LEMMA WithListLeads ==
    ASSUME NEW q, NEW list \in Lists \cup {None}, NEW fresh \in BOOLEAN,
           NEW seen, NEW late \in BOOLEAN, NEW marks,
           q \in ReqState, Local(q), q.pc \in {"list", "keepList", "storeList"},
           q.round = "first", q.end = "none",
           ~late /\ (fresh \/ NamesKnown(q)) => list \in seen.names,
           seen.names # {}, seen.default # {}
    PROVE  Leads(q, WithList(q, list, fresh), seen, late, marks)
<1> DEFINE known == [q EXCEPT !.list = list, !.fresh = fresh]
<1>1. known \in ReqState
    BY DEF ReqState
<1>2. /\ known.pc = q.pc /\ known.op = q.op /\ known.sel = q.sel /\ known.what = q.what
      /\ known.list = list /\ known.dflt = q.dflt /\ (known.fresh <=> fresh)
      /\ known.round = q.round /\ (known.lost <=> q.lost) /\ (known.again <=> q.again) /\ known.failed = q.failed
      /\ known.cals = q.cals /\ known.end = q.end
    BY DEF ReqState
<1>3. /\ q.failed # NoCal => q.op = "access" /\ q.again
      /\ q.op = "detail" => q.sel # {} /\ q.dflt = NoCal
    BY DEF Local
<1>4. (NamesKnown(known) <=> NamesKnown(q)) /\ (DefaultKnown(known) <=> DefaultKnown(q))
    BY <1>2 DEF NamesKnown, DefaultKnown
<1>5. CASE ~NeedsDefault(q)
    <2>1. WithList(q, list, fresh) = Resolved(known)
        BY <1>5, Zenon DEF WithList
    <2>2. q.sel # {}
        BY <1>5 DEF NeedsDefault
    <2> HIDE DEF known
    <2>3. Resolvable(known, seen, late)
        BY <1>1, <1>2, <1>3, <1>4, <2>2 DEF Resolvable, Refreshing
    <2>4. Leads(known, Resolved(known), seen, late, marks)
        BY <2>3, ResolvedLeads
    <2>5. QED
        BY <1>2, <1>4, <2>1, <2>4 DEF Leads
<1>6. CASE NeedsDefault(q)
    <2> DEFINE next == [known EXCEPT !.pc = "dflt"]
    <2>1. WithList(q, list, fresh) = next
        BY <1>6, Zenon DEF WithList
    <2>2. q.op # "detail"
        BY <1>3, <1>6 DEF NeedsDefault
    <2> HIDE DEF known
    <2>3. next \in ReqState
        BY <1>1 DEF ReqState, Pc
    <2>4. /\ next.pc = "dflt" /\ next.op = known.op /\ next.sel = known.sel
          /\ next.what = known.what /\ next.list = known.list /\ next.dflt = known.dflt
          /\ (next.fresh <=> known.fresh) /\ next.round = known.round
          /\ (next.lost <=> known.lost) /\ (next.again <=> known.again) /\ next.failed = known.failed /\ next.end = known.end
        BY <1>1 DEF ReqState
    <2> HIDE DEF next
    <2>5. Local(next)
        BY <1>2, <1>3, <2>2, <2>4 DEF Local, Busy, Refreshing
    <2>6. (NamesKnown(next) => NamesKnown(q)) /\ (DefaultKnown(next) => DefaultKnown(q))
        BY <1>2, <2>2, <2>4 DEF NamesKnown, DefaultKnown
    <2>7. Known(next, seen, late, marks)
        BY <1>2, <2>4, <2>6 DEF Known, Heard, Unknown, PassedOver, Replayed, Detailed, Reading
    <2>8. QED
        BY <1>2, <2>1, <2>3, <2>4, <2>5, <2>6, <2>7 DEF Leads, Exits
<1>7. QED BY <1>5, <1>6

\* A default is found, or cannot be read.
LEMMA WithDefaultLeads ==
    ASSUME NEW q, NEW d \in Defaults, NEW seen, NEW late \in BOOLEAN, NEW marks,
           q \in ReqState, Local(q), q.pc \in {"dflt", "getDflt", "storeDflt"}, q.end = "none",
           ~late => Heard(q, seen, marks),
           ~late /\ ~q.lost =>
               \/ d \in seen.default
               \/ q.pc = "dflt" /\ "default" \in marks /\ ~DefaultKnown(q),
           seen.names # {}, seen.default # {}
    PROVE  Leads(q, WithDefault(q, d), seen, late, marks)
<1> DEFINE known == [q EXCEPT !.dflt = d]
<1>1. known \in ReqState
    BY DEF ReqState
<1>2. /\ known.pc = q.pc /\ known.op = q.op /\ known.sel = q.sel /\ known.what = q.what
      /\ known.list = q.list /\ known.dflt = d /\ (known.fresh <=> q.fresh)
      /\ known.round = q.round /\ (known.lost <=> q.lost) /\ (known.again <=> q.again) /\ known.failed = q.failed
      /\ known.cals = q.cals /\ known.end = q.end
    BY DEF ReqState
<1>3. /\ q.failed # NoCal => q.op = "access" /\ q.again
      /\ q.op = "detail" => q.sel # {}
      /\ q.pc = "dflt" => q.round = "first" \/ q.op = "detail"
    BY DEF Local
<1>4. (NamesKnown(known) <=> NamesKnown(q)) /\ (DefaultKnown(known) <=> DefaultKnown(q))
    BY <1>2 DEF NamesKnown, DefaultKnown
<1>5. ~late /\ (q.fresh \/ q.round = "list" \/ NamesKnown(q)) => q.list \in seen.names
    BY DEF Heard, Reading
<1> HIDE DEF known
<1>6. CASE q.op \in {"detail", "calendars"}
    <2> DEFINE next == [known EXCEPT !.pc = "done", !.end = "ok"]
    <2>1. WithDefault(q, d) = next
        BY <1>6, Zenon DEF WithDefault, known
    <2>2. next \in ReqState
        BY <1>1 DEF ReqState, Pc, End
    <2>3. /\ next.pc = "done" /\ next.end = "ok" /\ next.op = known.op /\ next.sel = known.sel
          /\ next.what = known.what /\ next.list = known.list /\ next.dflt = known.dflt
          /\ (next.lost <=> known.lost) /\ (next.again <=> known.again) /\ next.failed = known.failed /\ next.cals = known.cals
        BY <1>1 DEF ReqState
    <2>4. ~late => Detailed(next, seen)
        <3>1. SUFFICES ASSUME ~late, q.op = "detail", ~q.lost
                       PROVE  /\ d \in seen.default
                              /\ "meta" \in q.what => q.list \in seen.names
            <4> HIDE DEF next
            <4>1. QED BY <1>2, <2>3 DEF Detailed
        <3>2. d \in seen.default
            BY <3>1 DEF DefaultKnown
        <3>3. "meta" \in q.what => NamesKnown(q)
            BY <3>1 DEF NamesKnown
        <3>4. QED BY <1>5, <3>1, <3>2, <3>3
    <2> HIDE DEF next
    <2>5. Local(next)
        BY <1>2, <1>3, <1>6, <2>3 DEF Local, Busy, Refreshing
    <2>6. Known(next, seen, late, marks)
        BY <1>2, <2>3, <2>4 DEF Known, Heard, Unknown, PassedOver, Replayed, Reading
    <2>7. QED
        BY <1>2, <2>1, <2>2, <2>3, <2>5, <2>6 DEF Leads, Exits
<1>7. CASE q.op \notin {"detail", "calendars"} /\ q.round = "first"
    <2> DEFINE next == [known EXCEPT !.pc = "check"]
    <2>1. WithDefault(q, d) = next
        BY <1>7, Zenon DEF WithDefault, known
    <2>2. next \in ReqState
        BY <1>1 DEF ReqState, Pc
    <2>3. /\ next.pc = "check" /\ next.op = known.op /\ next.sel = known.sel
          /\ next.what = known.what /\ next.list = known.list /\ next.dflt = known.dflt
          /\ (next.fresh <=> known.fresh) /\ next.round = known.round
          /\ (next.lost <=> known.lost) /\ (next.again <=> known.again) /\ next.failed = known.failed /\ next.end = known.end
        BY <1>1 DEF ReqState
    <2> HIDE DEF next
    <2>4. Local(next)
        BY <1>2, <1>3, <1>7, <2>3 DEF Local, Busy, Refreshing
    <2>5. (NamesKnown(next) <=> NamesKnown(q)) /\ (DefaultKnown(next) <=> DefaultKnown(q))
        BY <1>2, <1>7, <2>3 DEF NamesKnown, DefaultKnown
    <2>6. ~late => Heard(next, seen, marks)
        BY <1>2, <1>5, <2>3, <2>5 DEF Heard, DefaultKnown
    <2>7. Known(next, seen, late, marks)
        BY <1>2, <1>7, <2>3, <2>6 DEF Known, Unknown, PassedOver, Replayed, Detailed
    <2>8. QED
        BY <1>2, <2>1, <2>2, <2>3, <2>4, <2>5, <2>7 DEF Leads, Exits
<1>8. CASE q.op \notin {"detail", "calendars"} /\ q.round # "first"
    <2>1. WithDefault(q, d) = Resolved(known)
        BY <1>8, Zenon DEF WithDefault, known
    <2>2. Resolvable(known, seen, late)
        BY <1>1, <1>2, <1>3, <1>4, <1>5, <1>8 DEF Resolvable, Refreshing
    <2>3. Leads(known, Resolved(known), seen, late, marks)
        BY <2>2, ResolvedLeads
    <2>4. QED
        BY <1>2, <1>4, <2>1, <2>3 DEF Leads
<1>9. QED BY <1>6, <1>7, <1>8
-----------------------------------------------------------------------------
(* What a step leaves of what the requests have seen.                      *)

USE DEF Cached

\* The types of the server and of the caches.
Typed ==
    /\ names \in Lists /\ default \in Defaults
    /\ unborn \subseteq Cal /\ keyed \subseteq Cal /\ scope \in BOOLEAN
    /\ mem \in Lists \cup {None}
    /\ disk \in Cached /\ file \in Cached
    /\ served \subseteq {"list", "default"}
    /\ env \in 0..MaxEnv
    /\ \A c \in unborn : names[c] = Gone

\* What was known stays known when more has been seen.
LEMMA KnownStays ==
    ASSUME NEW q, NEW s, NEW s2, NEW late, NEW late2, NEW marks, NEW marks2,
           Known(q, s, late, marks),
           s.names \subseteq s2.names, s.default \subseteq s2.default,
           ~late2 => ~late,
           ~late2 /\ q.pc \in {"keepList", "check"} => marks \subseteq marks2
    PROVE  Known(q, s2, late2, marks2)
<1>1. (q.pc = "storeList" => q.list \in s2.names) /\ (q.pc = "storeDflt" => q.dflt \in s2.default)
    BY DEF Known
<1>2. ASSUME ~late2
      PROVE  Heard(q, s2, marks2) /\ Unknown(q, s2) /\ PassedOver(q, s2) /\ Replayed(q, s2) /\ Detailed(q, s2)
    <2>1. Heard(q, s, marks) /\ Unknown(q, s) /\ PassedOver(q, s) /\ Replayed(q, s) /\ Detailed(q, s)
        BY <1>2 DEF Known
    <2>2. Heard(q, s2, marks2)
        BY <1>2, <2>1 DEF Heard
    <2>3. Unknown(q, s2)
        BY <2>1 DEF Unknown
    <2>4. PassedOver(q, s2)
        BY <2>1 DEF PassedOver
    <2>5. Replayed(q, s2)
        BY <2>1 DEF Replayed
    <2>6. Detailed(q, s2)
        BY <2>1 DEF Detailed
    <2>7. QED BY <2>2, <2>3, <2>4, <2>5, <2>6
<1>3. QED BY <1>1, <1>2 DEF Known

\* A request that holds neither list nor default, and has nothing to answer
\* for, knows enough.
LEMMA KnownByNone ==
    ASSUME NEW q, q.pc \notin Reading \cup {"storeList", "storeDflt", "act"},
           q.end # "unknown", q.op = "detail" => q.end # "ok",
           NEW seen, NEW late, NEW marks
    PROVE  Known(q, seen, late, marks)
BY DEF Known, Heard, Unknown, PassedOver, Replayed, Detailed, Reading

LEMMA CachesStay ==
    ASSUME NEW q, NEW s, NEW s2, NEW m, NEW d, CachesSeen(q, s, m, d),
           s.names \subseteq s2.names, s.default \subseteq s2.default
    PROVE  CachesSeen(q, s2, m, d)
BY DEF CachesSeen

\* What a request has seen grows, unless it has its turn or writes the default.
LEMMA SeenGrows ==
    ASSUME TypeOK, History, NEW r \in Request, Records(r), ~Turn(r)
    PROVE  /\ since[r].names \subseteq since'[r].names
           /\ ~(Stepping(r) /\ req'[r].pc = "defDone") => since[r].default \subseteq since'[r].default
           /\ ~overtaken'[r] => ~overtaken[r]
<1>1. since'[r] = Observed(r) /\ (overtaken'[r] <=> Records(r) /\ (Overtakes(r) \/ (overtaken[r] /\ ~Turn(r))))
    BY DEF History
<1>2. /\ since'[r].names = Watched(r, since[r].names, names', Turn(r))
      /\ since'[r].default = Watched(r, since[r].default, default',
                                     Turn(r) \/ (Stepping(r) /\ req'[r].pc = "defDone"))
    BY <1>1 DEF Observed
<1>3. since[r].names \subseteq since'[r].names
    BY <1>2 DEF Watched
<1>4. ASSUME ~(Stepping(r) /\ req'[r].pc = "defDone")
      PROVE  since[r].default \subseteq since'[r].default
    BY <1>2, <1>4 DEF Watched
<1>5. QED BY <1>1, <1>3, <1>4

\* A running request has seen the present.
LEMMA SeesNow ==
    ASSUME History, NEW r \in Request, Running(r)'
    PROVE  names' \in since'[r].names /\ default' \in since'[r].default
<1>1. Records(r)
    BY DEF Records
<1>2. since'[r] = Observed(r)
    BY <1>1 DEF History
<1>3. /\ since'[r].names = Watched(r, since[r].names, names', Turn(r))
      /\ since'[r].default = Watched(r, since[r].default, default',
                                     Turn(r) \/ (Stepping(r) /\ req'[r].pc = "defDone"))
    BY <1>2 DEF Observed
<1>4. names' \in since'[r].names
    BY <1>3 DEF Watched
<1>5. default' \in since'[r].default
    BY <1>3 DEF Watched
<1>6. QED BY <1>4, <1>5

\* What was seen is lists and defaults.
LEMMA SeenType ==
    ASSUME TypeOK, History, names' \in Lists, default' \in Defaults
    PROVE  since' \in [Request -> Seen] /\ overtaken' \in [Request -> BOOLEAN]
<1>1. ASSUME NEW r \in Request
      PROVE  Observed(r) \in Seen
    <2>1. since[r] \in Seen
        BY DEF TypeOK
    <2>2. Watched(r, since[r].names, names', Turn(r)) \in SUBSET Lists
        BY <2>1 DEF Watched, Seen
    <2>3. Watched(r, since[r].default, default', Turn(r) \/ (Stepping(r) /\ req'[r].pc = "defDone")) \in SUBSET Defaults
        BY <2>1 DEF Watched, Seen
    <2>4. QED BY <2>2, <2>3 DEF Observed, Seen
<1>2. Nothing \in Seen
    BY DEF Nothing, Seen
<1>3. since' \in [Request -> Seen]
    <2>1. since' = [r \in Request |-> IF Records(r) THEN Observed(r) ELSE Nothing]
        BY DEF History
    <2>2. QED BY <1>1, <1>2, <2>1
<1>4. overtaken' \in [Request -> BOOLEAN]
    BY DEF History, Records, Overtakes, Running
<1>5. QED BY <1>3, <1>4
\* A request that takes no step keeps what is true of it.
LEMMA Frame ==
    ASSUME IInv, History, NEW k \in Request, req'[k] = req[k]
    PROVE  RequestInv(k)'
<1> DEFINE q == req[k]
<1>1. RequestInv(k) /\ TypeOK
    BY DEF IInv
<1>2. ~Stepping(k) /\ ~Turn(k)
    BY DEF Stepping, Turn
<1>3. (Running(k)' <=> Running(k))
    BY DEF Running
<1>4. CASE Running(k)
    <2>1. Records(k)
        BY <1>3, <1>4 DEF Records
    <2>2. /\ since[k].names \subseteq since'[k].names
          /\ since[k].default \subseteq since'[k].default
          /\ ~overtaken'[k] => ~overtaken[k]
        BY <1>1, <1>2, <2>1, SeenGrows
    <2>3. overtaken'[k] <=> Overtakes(k) \/ overtaken[k]
        BY <1>2, <2>1 DEF History
    <2>4. ~overtaken'[k] /\ q.pc \in {"keepList", "check"} => served \subseteq served'
        BY <1>2, <1>4, <2>3 DEF Overtakes
    <2>5. Known(q, since'[k], overtaken'[k], served')
        <3>1. Known(q, since[k], overtaken[k], served)
            BY <1>1 DEF RequestInv
        <3> HIDE DEF q
        <3>2. QED BY <2>2, <2>4, <3>1, KnownStays
    <2>6. names' \in since'[k].names /\ default' \in since'[k].default
        BY <1>3, <1>4, SeesNow
    <2>7. ASSUME ~overtaken'[k]
          PROVE  CachesSeen(q, since'[k], mem', disk')
        <3>1. CachesSeen(q, since[k], mem, disk)
            BY <1>1, <1>4, <2>2, <2>7 DEF RequestInv
        <3>2. CachesSeen(q, since'[k], mem, disk)
            BY <2>2, <3>1, CachesStay
        <3>3. ~StaleStored(k)
            BY <1>2, <1>4, <2>3, <2>7 DEF Overtakes
        <3>4. /\ mem' \in {mem, None, names'}
              /\ disk'.list \in {disk.list, None, names'}
              /\ disk'.default \in {disk.default, None, default'}
            BY <1>2, <3>3 DEF StaleStored, Stored
        <3>5. QED BY <2>6, <3>2, <3>4 DEF CachesSeen
    <2>8. QED
        BY <1>1, <1>3, <1>4, <2>5, <2>6, <2>7 DEF RequestInv
<1>5. CASE ~Running(k)
    <2>1. q.pc \in {"idle", "done"}
        BY <1>5 DEF Running
    <2>2. Known(q, since'[k], overtaken'[k], served')
        <3>1. CASE Records(k)
            <4>1. /\ since[k].names \subseteq since'[k].names
                  /\ since[k].default \subseteq since'[k].default
                  /\ ~overtaken'[k] => ~overtaken[k]
                BY <1>1, <1>2, <3>1, SeenGrows
            <4>2. Known(q, since[k], overtaken[k], served)
                BY <1>1 DEF RequestInv
            <4> HIDE DEF q
            <4>3. QED BY <2>1, <4>1, <4>2, KnownStays
        <3>2. CASE ~Records(k)
            <4>1. q.end # "unknown" /\ q.op # "detail"
                BY <3>2 DEF Records
            <4> HIDE DEF q
            <4>2. QED BY <2>1, <4>1, KnownByNone DEF Reading
        <3>3. QED BY <3>1, <3>2
    <2>3. QED
        BY <1>1, <1>3, <1>5, <2>2 DEF RequestInv
<1>6. QED BY <1>4, <1>5

\* A request takes a step that is no turn of it.
LEMMA StepKeeps ==
    ASSUME IInv, History, Typed', NEW r \in Request, NEW next \in ReqState,
           req' = [req EXCEPT ![r] = next],
           Running(r), next.pc \notin {"idle", "metaDone", "defDone"},
           req[r].pc = "act" => ~(next.again /\ ~req[r].again),
           Local(next), Known(next, since[r], overtaken[r], served'),
           next.pc # "done" /\ ~overtaken[r] /\ ~StaleStored(r) => CachesSeen(next, since[r], mem', disk')
    PROVE  TypeOK' /\ \A k \in Request : RequestInv(k)'
<1>1. TypeOK /\ RequestInv(r)
    BY DEF IInv
<1>2. req \in [Request -> ReqState]
    BY <1>1 DEF TypeOK
<1>3. req'[r] = next /\ \A k \in Request \ {r} : req'[k] = req[k]
    BY <1>2
<1>4. req' \in [Request -> ReqState]
    BY <1>2
<1>5. TypeOK'
    <2>1. names' \in Lists /\ default' \in Defaults
        BY DEF Typed
    <2>2. since' \in [Request -> Seen] /\ overtaken' \in [Request -> BOOLEAN]
        BY <1>1, <2>1, SeenType
    <2>3. QED BY <1>4, <2>2 DEF TypeOK, Typed
<1>6. ASSUME NEW k \in Request \ {r}
      PROVE  RequestInv(k)'
    BY <1>3, Frame
<1>7. ~Turn(r) /\ ~(Stepping(r) /\ req'[r].pc = "defDone")
    BY <1>3 DEF Turn, Running
<1>8. Running(r)' <=> next.pc # "done"
    BY <1>3 DEF Running
<1>9. CASE Records(r)
    <2>1. /\ since[r].names \subseteq since'[r].names
          /\ since[r].default \subseteq since'[r].default
          /\ ~overtaken'[r] => ~overtaken[r]
        BY <1>1, <1>7, <1>9, SeenGrows
    <2>2. Known(next, since'[r], overtaken'[r], served')
        BY <2>1, KnownStays
    <2>3. next.pc # "done" => names' \in since'[r].names /\ default' \in since'[r].default
        BY <1>8, SeesNow
    <2>a. ~overtaken'[r] => ~StaleStored(r)
        BY <1>9 DEF History, Overtakes
    <2>4. next.pc # "done" /\ ~overtaken'[r] => CachesSeen(next, since'[r], mem', disk')
        BY <2>1, <2>a, CachesStay
    <2>5. RequestInv(r)'
        BY <1>3, <1>8, <2>2, <2>3, <2>4 DEF RequestInv
    <2>6. QED BY <1>5, <1>6, <2>5
<1>10. CASE ~Records(r)
    <2>1. next.end # "unknown" /\ next.op # "detail" /\ next.pc = "done"
        BY <1>3, <1>8, <1>10 DEF Records
    <2>2. Known(next, since'[r], overtaken'[r], served')
        BY <2>1, KnownByNone DEF Reading
    <2>3. RequestInv(r)'
        BY <1>3, <1>8, <2>1, <2>2 DEF RequestInv
    <2>4. QED BY <1>5, <1>6, <2>3
<1>11. QED BY <1>9, <1>10

\* A request has its turn: it knows the present only.
LEMMA TurnKeeps ==
    ASSUME IInv, History, Typed', NEW r \in Request, NEW next \in ReqState,
           req' = [req EXCEPT ![r] = next], next.pc \notin {"idle", "done"},
           Turn(r), Local(next),
           \A seen \in Seen : Known(next, seen, FALSE, served') /\ CachesSeen(next, seen, mem', disk')
    PROVE  TypeOK' /\ \A k \in Request : RequestInv(k)'
<1>1. TypeOK
    BY DEF IInv
<1>2. req \in [Request -> ReqState]
    BY <1>1 DEF TypeOK
<1>3. req'[r] = next /\ \A k \in Request \ {r} : req'[k] = req[k]
    BY <1>2
<1>4. req' \in [Request -> ReqState]
    BY <1>2
<1>5. since' \in [Request -> Seen] /\ overtaken' \in [Request -> BOOLEAN]
    BY <1>1, SeenType DEF Typed
<1>6. TypeOK'
    BY <1>4, <1>5 DEF TypeOK, Typed
<1>7. \A k \in Request \ {r} : RequestInv(k)'
    BY <1>3, Frame
<1>8. Running(r)'
    BY <1>3 DEF Running
<1>9. Known(next, since'[r], FALSE, served') /\ CachesSeen(next, since'[r], mem', disk')
    BY <1>5
<1>10. Known(next, since'[r], overtaken'[r], served')
    BY <1>9 DEF Known
<1>11. names' \in since'[r].names /\ default' \in since'[r].default
    BY <1>8, SeesNow
<1>12. RequestInv(r)'
    BY <1>3, <1>9, <1>10, <1>11 DEF RequestInv
<1>13. QED BY <1>6, <1>7, <1>12
-----------------------------------------------------------------------------
(* The steps of a resolution.                                              *)

\* What the invariant says of a running request.
RunningAt(r, q) ==
    /\ q \in ReqState /\ Local(q) /\ since[r] \in Seen /\ overtaken[r] \in BOOLEAN
    /\ Known(q, since[r], overtaken[r], served)
    /\ names \in since[r].names /\ default \in since[r].default
    /\ ~overtaken[r] => CachesSeen(q, since[r], mem, disk)

LEMMA RunningFacts ==
    ASSUME IInv, NEW r \in Request, Running(r)
    PROVE  RunningAt(r, req[r])
BY DEF IInv, TypeOK, RequestInv, RunningAt

LEMMA TypedFacts ==
    ASSUME IInv
    PROVE  Typed /\ req \in [Request -> ReqState]
BY DEF IInv, TypeOK, Typed

\* Some request still answers for the scope.
LEMMA ScopeStays ==
    ASSUME ScopeHeld, scope' => scope, NEW r \in Request, NEW next,
           req \in [Request -> ReqState], req' = [req EXCEPT ![r] = next],
           req[r].lost => next.lost,
           req[r].pc = "relock" => next.lost,
           req[r].pc = "delete" /\ Kind[The(req[r].cals)] = "owned" => next.pc = "relock"
    PROVE  ScopeHeld'
<1>1. req'[r] = next /\ \A k \in Request \ {r} : req'[k] = req[k]
    OBVIOUS
<1>2. SUFFICES ASSUME scope'
               PROVE  \E k \in Request :
                        \/ req'[k].lost \/ req'[k].pc = "relock"
                        \/ req'[k].pc = "delete" /\ Kind[The(req'[k].cals)] = "owned"
    BY DEF ScopeHeld
<1>3. PICK k \in Request :
            \/ req[k].lost \/ req[k].pc = "relock"
            \/ req[k].pc = "delete" /\ Kind[The(req[k].cals)] = "owned"
    BY <1>2 DEF ScopeHeld
<1>4. QED BY <1>1, <1>3

\* A step to where a resolution leads keeps the invariant.
LEMMA LeadsKeeps ==
    ASSUME IInv, History, Typed', scope' => scope, NEW r \in Request, NEW q, NEW next,
           Running(r), req[r].pc \notin {"act", "delete", "relock"},
           req' = [req EXCEPT ![r] = next],
           Leads(q, next, since[r], overtaken[r], served'),
           NamesKnown(q) => NamesKnown(req[r]), DefaultKnown(q) => DefaultKnown(req[r]),
           req[r].lost => q.lost,
           ~overtaken[r] /\ ~StaleStored(r) => CachesSeen(req[r], since[r], mem', disk')
    PROVE  IInv'
<1>1. next \in ReqState /\ Local(next) /\ Known(next, since[r], overtaken[r], served')
    BY DEF Leads
<1>2. next.pc \notin {"idle", "metaDone", "defDone"}
    BY DEF Leads, Exits
<1>3. next.pc # "done" /\ ~overtaken[r] /\ ~StaleStored(r) => CachesSeen(next, since[r], mem', disk')
    BY DEF Leads, CachesSeen
<1>4. TypeOK' /\ \A k \in Request : RequestInv(k)'
    BY <1>1, <1>2, <1>3, StepKeeps
<1>5. ScopeHeld'
    BY TypedFacts, ScopeStays DEF Leads, IInv
<1>6. QED BY <1>4, <1>5 DEF IInv

\* A step that leaves the caches and the marks as they are.
LEMMA SameCaches ==
    ASSUME IInv, NEW r \in Request, Running(r), UNCHANGED <<server, cache, env>>
    PROVE  /\ Typed' /\ (scope' => scope) /\ served' = served
           /\ ~overtaken[r] => CachesSeen(req[r], since[r], mem', disk')
<1>1. Typed /\ RunningAt(r, req[r])
    BY TypedFacts, RunningFacts
<1>2. QED BY <1>1 DEF Typed, RunningAt, server, cache

\* What an update of the cache writes is in the snapshot afterwards.
Holds(keys, new) ==
    /\ disk' \in Cached /\ file' \in Cached /\ env' \in 0..MaxEnv
    /\ "list" \in keys => disk'.list = new.list
    /\ "default" \in keys => disk'.default = new.default

\* One update.
LEMMA UpdatesFields ==
    ASSUME NEW d \in Cached, NEW f \in Cached, NEW keys, NEW new \in Cached,
           NEW u \in Updates(d, f, keys, new)
    PROVE  /\ u.disk \in Cached /\ u.file \in Cached /\ u.fails \in {0, 1}
           /\ "list" \in keys => u.disk.list = new.list
           /\ "default" \in keys => u.disk.default = new.default
<1>1. ASSUME NEW entries \in Cached
      PROVE  /\ Changed(entries, keys, new) \in Cached
             /\ "list" \in keys => Changed(entries, keys, new).list = new.list
             /\ "default" \in keys => Changed(entries, keys, new).default = new.default
    BY DEF Changed
<1> PICK inFile : inFile = Changed(f, keys, new)
    OBVIOUS
<1> PICK inSnapshot : inSnapshot = Changed(d, keys, new)
    OBVIOUS
<1>2. u \in {[disk |-> inFile, file |-> inFile, fails |-> 0],
             [disk |-> inSnapshot, file |-> f, fails |-> 1],
             [disk |-> inFile, file |-> f, fails |-> 1]}
    BY DEF Updates
<1>3. /\ inFile \in Cached /\ inSnapshot \in Cached
      /\ "list" \in keys => inFile.list = new.list /\ inSnapshot.list = new.list
      /\ "default" \in keys => inFile.default = new.default /\ inSnapshot.default = new.default
    BY <1>1
<1>4. QED BY <1>2, <1>3

LEMMA UpdateHolds ==
    ASSUME Typed, NEW keys, NEW new \in Cached, UpdateCache(keys, new)
    PROVE  Holds(keys, new)
<1>1. PICK u \in Updates(disk, file, keys, new) : Becoming(u, u.fails)
    BY DEF UpdateCache
<1>2. /\ u.disk \in Cached /\ u.file \in Cached /\ u.fails \in {0, 1}
      /\ "list" \in keys => u.disk.list = new.list
      /\ "default" \in keys => u.disk.default = new.default
    BY UpdatesFields DEF Typed
<1>3. /\ disk' = u.disk /\ file' = u.file
      /\ env + u.fails <= MaxEnv /\ env' = env + u.fails
    BY <1>1 DEF Becoming
<1>4. env' \in 0..MaxEnv
    BY <1>2, <1>3, BoundAssumption DEF Typed
<1>5. QED BY <1>2, <1>3, <1>4 DEF Holds

LEMMA InvalidateHolds ==
    ASSUME Typed, NEW keys, Invalidate(keys)
    PROVE  /\ Holds(keys, Dropped) /\ served' \subseteq served
           /\ "list" \in keys => disk'.list = None
           /\ "default" \in keys => disk'.default = None
<1>1. Dropped \in Cached /\ Dropped.list = None /\ Dropped.default = None
    BY DEF Dropped
<1>2. Holds(keys, Dropped)
    BY <1>1, UpdateHolds DEF Invalidate
<1>3. QED BY <1>1, <1>2 DEF Holds, Invalidate

LEMMA ListInvalidated ==
    ASSUME Typed, InvalidateCalendarList
    PROVE  /\ disk' \in Cached /\ file' \in Cached /\ env' \in 0..MaxEnv
           /\ mem' = None /\ disk'.list = None /\ disk'.default = None /\ served' \subseteq served
BY InvalidateHolds DEF InvalidateCalendarList, Holds

\* What a request stores itself is what it has seen; what else an update of its
\* own brings to the snapshot overtakes it, if it is out of date.
LEMMA CachesKept ==
    ASSUME NEW r \in Request, RunningAt(r, req[r]), ~overtaken[r], ~StaleStored(r),
           names' = names, default' = default, mem' \in {mem} \cup since[r].names
    PROVE  CachesSeen(req[r], since[r], mem', disk')
<1>1. Stored(r, "storeList", req[r].list) \in since[r].names \cup {None}
    BY DEF Stored, RunningAt, Known
<1>2. Stored(r, "storeDflt", req[r].dflt) \in since[r].default \cup {None}
    BY DEF Stored, RunningAt, Known
<1>3. /\ disk'.list \in {disk.list} \cup since[r].names \cup {None}
      /\ disk'.default \in {disk.default} \cup since[r].default \cup {None}
    BY <1>1, <1>2 DEF StaleStored, RunningAt
<1>4. CachesSeen(req[r], since[r], mem, disk)
    BY DEF RunningAt
<1>5. QED BY <1>3, <1>4 DEF CachesSeen

LEMMA ListFromMemoryKeeps ==
    ASSUME IInv, History, NEW r \in Request, ListFromMemory(r)
    PROVE  IInv'
<1> DEFINE q == req[r]
           next == WithList(q, mem, FALSE)
<1>1. /\ q.pc = "list" /\ mem # None /\ Running(r)
      /\ req' = [req EXCEPT ![r] = next] /\ UNCHANGED <<server, cache, env>>
    BY DEF ListFromMemory, Set, Running
<1>2. RunningAt(r, q) /\ Typed
    BY <1>1, RunningFacts, TypedFacts
<1>3. q.round = "first" /\ q.end = "none"
    BY <1>1, <1>2 DEF RunningAt, Local
<1>4. ~overtaken[r] /\ (FALSE \/ NamesKnown(q)) => mem \in since[r].names
    BY <1>1, <1>2 DEF RunningAt, CachesSeen
<1>a. /\ q \in ReqState /\ Local(q) /\ overtaken[r] \in BOOLEAN /\ mem \in Lists \cup {None}
      /\ since[r].names # {} /\ since[r].default # {} /\ FALSE \in BOOLEAN
      /\ q.pc \in {"list", "keepList", "storeList"}
    BY <1>1, <1>2 DEF RunningAt, Typed
<1> HIDE DEF q, next
<1>5. Leads(q, next, since[r], overtaken[r], served)
    BY <1>3, <1>4, <1>a, WithListLeads, Zenon DEF next
<1>6. QED
    BY <1>1, <1>5, SameCaches, LeadsKeeps DEF q

LEMMA ListHitKeeps ==
    ASSUME IInv, History, NEW r \in Request, ListHit(r)
    PROVE  IInv'
<1> DEFINE q == req[r]
           next == [q EXCEPT !.pc = "keepList", !.list = disk.list]
<1>1. /\ q.pc = "list" /\ disk.list # None /\ served' = served \cup {"list"} /\ Running(r)
      /\ req' = [req EXCEPT ![r] = next] /\ UNCHANGED <<server, mem, disk, file, env>>
    BY DEF ListHit, Set, Running
<1>2. RunningAt(r, q) /\ Typed
    BY <1>1, RunningFacts, TypedFacts
<1>3. Typed'
    BY <1>1, <1>2 DEF Typed, server
<1>4. next \in ReqState
    BY <1>2 DEF RunningAt, Typed, ReqState, Pc
<1>5. /\ next.pc = "keepList" /\ next.op = q.op /\ next.sel = q.sel /\ next.what = q.what
      /\ next.list = disk.list /\ next.dflt = q.dflt /\ (next.fresh <=> q.fresh)
      /\ next.round = q.round /\ (next.lost <=> q.lost) /\ (next.again <=> q.again)
      /\ next.failed = q.failed /\ next.cals = q.cals /\ next.end = q.end
    BY <1>2 DEF RunningAt, ReqState
<1>6. ~overtaken[r] /\ NamesKnown(q) => disk.list \in since[r].names
    BY <1>1, <1>2 DEF RunningAt, CachesSeen
<1> HIDE DEF next
<1>7. (NamesKnown(next) <=> NamesKnown(q)) /\ (DefaultKnown(next) <=> DefaultKnown(q))
    BY <1>1, <1>5 DEF NamesKnown, DefaultKnown
<1>8. Local(next)
    BY <1>1, <1>2, <1>5 DEF RunningAt, Local, Busy, Refreshing
<1>9. Known(next, since[r], overtaken[r], served')
    <2>1. ~next.fresh /\ next.round = "first" /\ next.end = "none" /\ "list" \in served'
        BY <1>1, <1>2, <1>5 DEF RunningAt, Local
    <2>2. QED
        BY <1>5, <1>6, <1>7, <2>1 DEF Known, Heard, Unknown, PassedOver, Replayed, Detailed
<1>10. ~overtaken[r] => CachesSeen(next, since[r], mem', disk')
    BY <1>1, <1>2, <1>7 DEF RunningAt, CachesSeen
<1>11. TypeOK' /\ \A k \in Request : RequestInv(k)'
    BY <1>1, <1>3, <1>4, <1>5, <1>8, <1>9, <1>10, StepKeeps
<1>12. ScopeHeld'
    BY <1>1, <1>5, TypedFacts, ScopeStays DEF IInv, server
<1>13. QED BY <1>11, <1>12 DEF IInv

LEMMA KeepListKeeps ==
    ASSUME IInv, History, NEW r \in Request, KeepList(r)
    PROVE  IInv'
<1> DEFINE q == req[r]
           fresh == "list" \notin served
           next == WithList(q, q.list, fresh)
<1>1. /\ q.pc = "keepList" /\ mem' = q.list /\ Running(r)
      /\ req' = [req EXCEPT ![r] = next] /\ UNCHANGED <<server, disk, file, served, env>>
    BY DEF KeepList, Set, Running
<1>2. RunningAt(r, q) /\ Typed
    BY <1>1, RunningFacts, TypedFacts
<1>3. q.round = "first" /\ q.end = "none"
    BY <1>1, <1>2 DEF RunningAt, Local
<1>4. ~overtaken[r] => Heard(q, since[r], served)
    BY <1>2 DEF RunningAt, Known
<1>5. ~overtaken[r] /\ (fresh \/ NamesKnown(q)) => q.list \in since[r].names
    BY <1>1, <1>4 DEF Heard, Reading
<1>6. /\ q \in ReqState /\ Local(q) /\ overtaken[r] \in BOOLEAN /\ q.list \in Lists \cup {None}
      /\ since[r].names # {} /\ since[r].default # {} /\ fresh \in BOOLEAN
      /\ q.pc \in {"list", "keepList", "storeList"}
    BY <1>1, <1>2 DEF RunningAt, ReqState
<1>7. Typed' /\ (scope' => scope)
    BY <1>1, <1>2, <1>6 DEF Typed, server
<1>8. ~overtaken[r] => CachesSeen(q, since[r], mem', disk')
    BY <1>1, <1>2, <1>5 DEF RunningAt, CachesSeen
<1> HIDE DEF q, next, fresh
<1>9. Leads(q, next, since[r], overtaken[r], served')
    BY <1>3, <1>5, <1>6, WithListLeads, Zenon DEF next
<1>10. QED
    BY <1>1, <1>7, <1>8, <1>9, LeadsKeeps DEF q

\* The request asks the server for what it has not found in the cache.
LEMMA MissKeeps ==
    ASSUME IInv, History, NEW r \in Request, NEW from, NEW to,
           \/ from = "list" /\ to = "getList"
           \/ from = "dflt" /\ to = "getDflt",
           req[r].pc = from, req' = [req EXCEPT ![r] = [req[r] EXCEPT !.pc = to]],
           UNCHANGED <<server, cache, env>>
    PROVE  IInv'
<1> DEFINE q == req[r]
           next == [q EXCEPT !.pc = to]
<1>1. Running(r)
    BY DEF Running
<1>2. RunningAt(r, q)
    BY <1>1, RunningFacts
<1>3. next \in ReqState
    BY <1>2 DEF RunningAt, ReqState, Pc
<1>4. /\ next.pc = to /\ next.op = q.op /\ next.sel = q.sel /\ next.what = q.what
      /\ next.list = q.list /\ next.dflt = q.dflt /\ (next.fresh <=> q.fresh)
      /\ next.round = q.round /\ (next.lost <=> q.lost) /\ (next.again <=> q.again)
      /\ next.failed = q.failed /\ next.cals = q.cals /\ next.end = q.end
    BY <1>2 DEF RunningAt, ReqState
<1> HIDE DEF next
<1>5. (NamesKnown(next) <=> NamesKnown(q)) /\ (DefaultKnown(next) <=> DefaultKnown(q))
    BY <1>4 DEF NamesKnown, DefaultKnown
<1>6. Local(next)
    BY <1>2, <1>4 DEF RunningAt, Local, Busy, Refreshing
<1>7. Known(next, since[r], overtaken[r], served)
    <2>1. next.end = "none"
        BY <1>2, <1>4 DEF RunningAt, Local
    <2>2. ~overtaken[r] => Heard(next, since[r], served)
        BY <1>2, <1>4, <1>5 DEF RunningAt, Known, Heard, Reading
    <2>3. QED
        BY <1>4, <2>1, <2>2 DEF Known, Unknown, PassedOver, Replayed, Detailed
<1>8. Typed' /\ (scope' => scope) /\ served' = served
    BY <1>1, SameCaches
<1>9. ~overtaken[r] => CachesSeen(next, since[r], mem', disk')
    BY <1>1, <1>5, SameCaches DEF CachesSeen
<1>10. TypeOK' /\ \A k \in Request : RequestInv(k)'
    <2>1. req' = [req EXCEPT ![r] = next]
        BY DEF next
    <2>2. QED BY <1>1, <1>3, <1>4, <1>6, <1>7, <1>8, <1>9, <2>1, StepKeeps
<1>11. ScopeHeld'
    BY <1>4, <1>8, TypedFacts, ScopeStays DEF IInv, next
<1>12. QED BY <1>10, <1>11 DEF IInv

\* The server answers with its list.
LEMMA ListAnsweredKeeps ==
    ASSUME IInv, History, NEW r \in Request, ListAnswered(r)
    PROVE  IInv'
<1> DEFINE q == req[r]
           next == [q EXCEPT !.pc = "storeList", !.list = names]
<1>1. /\ q.pc = "getList" /\ Running(r)
      /\ req' = [req EXCEPT ![r] = next] /\ UNCHANGED <<server, cache, env>>
    BY DEF ListAnswered, Set, Running
<1>2. RunningAt(r, q) /\ Typed
    BY <1>1, RunningFacts, TypedFacts
<1>3. next \in ReqState
    BY <1>2 DEF RunningAt, Typed, ReqState, Pc
<1>4. /\ next.pc = "storeList" /\ next.op = q.op /\ next.sel = q.sel /\ next.what = q.what
      /\ next.list = names /\ next.dflt = q.dflt /\ (next.fresh <=> q.fresh)
      /\ next.round = q.round /\ (next.lost <=> q.lost) /\ (next.again <=> q.again)
      /\ next.failed = q.failed /\ next.cals = q.cals /\ next.end = q.end
    BY <1>2 DEF RunningAt, ReqState
<1> HIDE DEF next
<1>5. (NamesKnown(next) <=> NamesKnown(q)) /\ (DefaultKnown(next) <=> DefaultKnown(q))
    BY <1>1, <1>4 DEF NamesKnown, DefaultKnown
<1>6. Local(next)
    BY <1>1, <1>2, <1>4 DEF RunningAt, Local, Busy, Refreshing
<1>7. Known(next, since[r], overtaken[r], served)
    <2>1. next.end = "none" /\ next.list \in since[r].names
        BY <1>1, <1>2, <1>4 DEF RunningAt, Local
    <2>2. QED
        BY <1>4, <2>1 DEF Known, Heard, Reading, Unknown, PassedOver, Replayed, Detailed
<1>8. Typed' /\ (scope' => scope) /\ served' = served
    BY <1>1, SameCaches
<1>9. ~overtaken[r] => CachesSeen(next, since[r], mem', disk')
    BY <1>1, <1>5, SameCaches DEF CachesSeen
<1>10. TypeOK' /\ \A k \in Request : RequestInv(k)'
    BY <1>1, <1>3, <1>4, <1>6, <1>7, <1>8, <1>9, StepKeeps
<1>11. ScopeHeld'
    BY <1>1, <1>4, <1>8, TypedFacts, ScopeStays DEF IInv
<1>12. QED BY <1>10, <1>11 DEF IInv

\* The server answers with the default.
LEMMA DefaultAnsweredKeeps ==
    ASSUME IInv, History, NEW r \in Request, DefaultAnswered(r)
    PROVE  IInv'
<1> DEFINE q == req[r]
           next == [q EXCEPT !.pc = "storeDflt", !.dflt = default]
<1>1. /\ q.pc = "getDflt" /\ Running(r)
      /\ req' = [req EXCEPT ![r] = next] /\ UNCHANGED <<server, cache, env>>
    BY DEF DefaultAnswered, Set, Running
<1>2. RunningAt(r, q) /\ Typed
    BY <1>1, RunningFacts, TypedFacts
<1>3. next \in ReqState
    BY <1>2 DEF RunningAt, Typed, ReqState, Pc
<1>4. /\ next.pc = "storeDflt" /\ next.op = q.op /\ next.sel = q.sel /\ next.what = q.what
      /\ next.list = q.list /\ next.dflt = default /\ (next.fresh <=> q.fresh)
      /\ next.round = q.round /\ (next.lost <=> q.lost) /\ (next.again <=> q.again)
      /\ next.failed = q.failed /\ next.cals = q.cals /\ next.end = q.end
    BY <1>2 DEF RunningAt, ReqState
<1> HIDE DEF next
<1>5. (NamesKnown(next) <=> NamesKnown(q)) /\ (DefaultKnown(next) <=> DefaultKnown(q))
    BY <1>1, <1>4 DEF NamesKnown, DefaultKnown
<1>6. Local(next)
    BY <1>1, <1>2, <1>4 DEF RunningAt, Local, Busy, Refreshing
<1>7. Known(next, since[r], overtaken[r], served)
    <2>1. next.end = "none" /\ next.dflt \in since[r].default
        BY <1>1, <1>2, <1>4 DEF RunningAt, Local
    <2>2. ~overtaken[r] => Heard(next, since[r], served)
        BY <1>1, <1>2, <1>4, <1>5 DEF RunningAt, Known, Heard, Reading
    <2>3. QED
        BY <1>4, <2>1, <2>2 DEF Known, Unknown, PassedOver, Replayed, Detailed
<1>8. Typed' /\ (scope' => scope) /\ served' = served
    BY <1>1, SameCaches
<1>9. ~overtaken[r] => CachesSeen(next, since[r], mem', disk')
    BY <1>1, <1>5, SameCaches DEF CachesSeen
<1>10. TypeOK' /\ \A k \in Request : RequestInv(k)'
    BY <1>1, <1>3, <1>4, <1>6, <1>7, <1>8, <1>9, StepKeeps
<1>11. ScopeHeld'
    BY <1>1, <1>4, <1>8, TypedFacts, ScopeStays DEF IInv
<1>12. QED BY <1>10, <1>11 DEF IInv

\* Where a refresh also drops the default, two updates of the cache follow each
\* other.
LEMMA StoreListTyped ==
    ASSUME Typed, NEW r \in Request, req[r] \in ReqState, StoreList(r)
    PROVE  disk' \in Cached /\ file' \in Cached /\ env' \in 0..MaxEnv
<1> PICK new : new = [Dropped EXCEPT !.list = req[r].list]
    OBVIOUS
<1>1. new \in Cached /\ Dropped \in Cached
    BY DEF Dropped, ReqState
<1>2. PICK u \in Updates(disk, file, {"list"}, new) :
          IF req[r].round # "first"
          THEN \E v \in Updates(u.disk, u.file, {"default"}, Dropped) : Becoming(v, u.fails + v.fails)
          ELSE Becoming(u, u.fails)
    BY DEF StoreList
<1>3. u.disk \in Cached /\ u.file \in Cached /\ u.fails \in {0, 1}
    BY <1>1, UpdatesFields DEF Typed
<1>4. CASE req[r].round # "first"
    <2>1. PICK v \in Updates(u.disk, u.file, {"default"}, Dropped) : Becoming(v, u.fails + v.fails)
        BY <1>2, <1>4
    <2>2. v.disk \in Cached /\ v.file \in Cached /\ v.fails \in {0, 1}
        BY <1>1, <1>3, UpdatesFields
    <2>3. /\ disk' = v.disk /\ file' = v.file
          /\ env + (u.fails + v.fails) <= MaxEnv /\ env' = env + (u.fails + v.fails)
        BY <2>1 DEF Becoming
    <2>4. env' \in 0..MaxEnv
        BY <1>3, <2>2, <2>3, BoundAssumption DEF Typed
    <2>5. QED BY <2>2, <2>3, <2>4
<1>5. CASE req[r].round = "first"
    <2>1. /\ disk' = u.disk /\ file' = u.file
          /\ env + u.fails <= MaxEnv /\ env' = env + u.fails
        BY <1>2, <1>5 DEF Becoming
    <2>2. env' \in 0..MaxEnv
        BY <1>3, <2>1, BoundAssumption DEF Typed
    <2>3. QED BY <1>3, <2>1, <2>2
<1>6. QED BY <1>4, <1>5

\* A fetched list is stored on the disk and in memory.
LEMMA StoreListKeeps ==
    ASSUME IInv, History, NEW r \in Request, StoreList(r)
    PROVE  IInv'
<1> DEFINE q == req[r]
           fresh == "list" \notin served
           next == req'[r]
<1>1. /\ q.pc = "storeList" /\ mem' = q.list /\ Running(r)
      /\ served' \subseteq served /\ UNCHANGED server
      /\ req' = [req EXCEPT ![r] = IF q.round # "first"
                  THEN IF NeedsDefault(q) THEN [q EXCEPT !.pc = "getDflt"] ELSE Resolved(q)
                  ELSE WithList(q, q.list, fresh)]
    BY DEF StoreList, Set, Running
<1>2. RunningAt(r, q) /\ Typed /\ req \in [Request -> ReqState]
    BY <1>1, RunningFacts, TypedFacts
<1>3. /\ q \in ReqState /\ Local(q) /\ q.end = "none" /\ overtaken[r] \in BOOLEAN
      /\ q.list \in Lists \cup {None} /\ q.list \in since[r].names
      /\ since[r].names # {} /\ since[r].default # {} /\ fresh \in BOOLEAN
      /\ q.pc \in {"list", "keepList", "storeList"}
    BY <1>1, <1>2 DEF RunningAt, Known, Local, ReqState
<1>4. Typed' /\ (scope' => scope)
    <2>1. q.pc = "storeList" => disk' \in Cached /\ file' \in Cached /\ env' \in 0..MaxEnv
        BY <1>2, <1>3, StoreListTyped
    <2>2. QED BY <1>1, <1>2, <1>3, <2>1 DEF Typed, server
<1>5. ~overtaken[r] /\ ~StaleStored(r) => CachesSeen(q, since[r], mem', disk')
    BY <1>1, <1>2, <1>3, CachesKept DEF server
<1>6. Leads(q, next, since[r], overtaken[r], served')
    <2>1. CASE q.round = "first"
        <3>1. next = WithList(q, q.list, fresh)
            BY <1>1, <1>2, <2>1
        <3>2. ~overtaken[r] /\ (fresh \/ NamesKnown(q)) => q.list \in since[r].names
            BY <1>3
        <3> HIDE DEF q, next, fresh
        <3>3. Leads(q, WithList(q, q.list, fresh), since[r], overtaken[r], served')
            BY <1>3, <2>1, <3>2, WithListLeads, Zenon
        <3>4. QED BY <3>1, <3>3
    <2>2. CASE q.round # "first" /\ NeedsDefault(q)
        <3> DEFINE other == [q EXCEPT !.pc = "getDflt"]
        <3>1. next = other
            BY <1>1, <1>2, <2>2
        <3>2. other \in ReqState
            BY <1>3 DEF ReqState, Pc
        <3>3. /\ other.pc = "getDflt" /\ other.op = q.op /\ other.sel = q.sel /\ other.what = q.what
              /\ other.list = q.list /\ (other.lost <=> q.lost) /\ (other.again <=> q.again) /\ other.failed = q.failed
              /\ other.end = q.end
            BY <1>3 DEF ReqState
        <3>4. q.op # "detail"
            BY <1>1, <1>3, <2>2 DEF NeedsDefault, Local
        <3> HIDE DEF other, next
        <3>5. Local(other)
            BY <1>3, <3>3, <3>4 DEF Local, Busy, Refreshing
        <3>6. Known(other, since[r], overtaken[r], served')
            BY <1>3, <3>3 DEF Known, Heard, Reading, Unknown, PassedOver, Replayed, Detailed
        <3>7. (NamesKnown(other) => NamesKnown(q)) /\ (DefaultKnown(other) => DefaultKnown(q))
            BY <3>3 DEF NamesKnown, DefaultKnown
        <3>8. QED BY <3>1, <3>2, <3>3, <3>5, <3>6, <3>7 DEF Leads, Exits
    <2>3. CASE q.round # "first" /\ ~NeedsDefault(q)
        <3>1. next = Resolved(q)
            BY <1>1, <1>2, <2>3
        <3>2. Resolvable(q, since[r], overtaken[r])
            BY <1>1, <1>3, <2>3 DEF Resolvable, Local, NeedsDefault, Refreshing
        <3> HIDE DEF q, next
        <3>3. QED BY <1>3, <3>1, <3>2, ResolvedLeads
    <2>4. QED BY <2>1, <2>2, <2>3
<1>7. req' = [req EXCEPT ![r] = next]
    BY <1>1, <1>2
<1> HIDE DEF q, next
<1>8. QED
    BY <1>1, <1>4, <1>5, <1>6, <1>7, LeadsKeeps DEF q

\* The list cannot be fetched.
LEMMA ListFailsKeeps ==
    ASSUME IInv, History, NEW r \in Request, ListFails(r)
    PROVE  IInv'
<1> DEFINE q == req[r]
           lost == [q EXCEPT !.lost = TRUE]
           next == IF q.cals # {} THEN Chosen(lost, q.cals) ELSE Unresolved(lost, "error")
<1>1. /\ q.pc = "getList" /\ Running(r)
      /\ req' = [req EXCEPT ![r] = next] /\ UNCHANGED <<server, cache, env>>
    BY DEF ListFails, Set, Running
<1>2. RunningAt(r, q)
    BY <1>1, RunningFacts
<1>3. lost \in ReqState
    BY <1>2 DEF RunningAt, ReqState
<1>4. /\ lost.pc = q.pc /\ lost.op = q.op /\ lost.sel = q.sel /\ lost.what = q.what
      /\ lost.lost /\ (lost.again <=> q.again) /\ lost.failed = q.failed /\ lost.end = q.end
    BY <1>2 DEF RunningAt, ReqState
<1>5. (NamesKnown(lost) <=> NamesKnown(q)) /\ (DefaultKnown(lost) <=> DefaultKnown(q))
    BY <1>4 DEF NamesKnown, DefaultKnown
<1>6. /\ q.cals \in SUBSET Cal /\ q.end = "none" /\ overtaken[r] \in BOOLEAN
      /\ q.failed # NoCal => q.op = "access" /\ q.again
      /\ q.op = "detail" => q.sel # {} /\ q.cals = {}
    BY <1>1, <1>2 DEF RunningAt, Local, ReqState
<1> HIDE DEF lost
<1>7. Leads(lost, next, since[r], overtaken[r], served)
    <2>1. CASE q.cals # {}
        <3> DEFINE other == LeftAt(lost, q.cals, "act")
        <3>1. LeavesAt(lost, other, q.cals, "act")
            BY <1>3, <1>6, LeftFields DEF Pc
        <3> HIDE DEF other
        <3>2. PassedOver(other, since[r])
            BY <1>4, <3>1 DEF LeavesAt, PassedOver
        <3>3. Chooses(lost, q.cals, since[r], overtaken[r])
            BY <1>3, <1>4, <1>6, <2>1, <3>2 DEF Chooses, other
        <3>4. Leads(lost, Chosen(lost, q.cals), since[r], overtaken[r], served)
            BY <1>6, <3>3, ChosenLeads
        <3>5. QED BY <2>1, <3>4
    <2>2. CASE q.cals = {}
        <3>1. Leads(lost, Unresolved(lost, "error"), since[r], overtaken[r], served)
            BY <1>3, <1>4, <1>6, UnresolvedLeads
        <3>2. QED BY <2>2, <3>1
    <2>3. QED BY <2>1, <2>2
<1> HIDE DEF next, q
<1>8. QED
    BY <1>1, <1>4, <1>5, <1>7, SameCaches, LeadsKeeps DEF q

LEMMA DefaultHitKeeps ==
    ASSUME IInv, History, NEW r \in Request, DefaultHit(r)
    PROVE  IInv'
<1> DEFINE q == req[r]
           next == WithDefault(q, disk.default)
<1>1. /\ q.pc = "dflt" /\ disk.default # None /\ served' = served \cup {"default"} /\ Running(r)
      /\ req' = [req EXCEPT ![r] = next] /\ UNCHANGED <<server, mem, disk, file, env>>
    BY DEF DefaultHit, Set, Running
<1>2. RunningAt(r, q) /\ Typed
    BY <1>1, RunningFacts, TypedFacts
<1>3. /\ q \in ReqState /\ Local(q) /\ q.end = "none" /\ overtaken[r] \in BOOLEAN
      /\ disk.default \in Defaults /\ q.pc \in {"dflt", "getDflt", "storeDflt"}
      /\ since[r].names # {} /\ since[r].default # {}
    BY <1>1, <1>2 DEF RunningAt, Typed, Local
<1>4. ~overtaken[r] => Heard(q, since[r], served')
    BY <1>1, <1>2 DEF RunningAt, Known, Heard
<1>5. ~overtaken[r] /\ ~q.lost =>
          \/ disk.default \in since[r].default
          \/ q.pc = "dflt" /\ "default" \in served' /\ ~DefaultKnown(q)
    BY <1>1, <1>2 DEF RunningAt, CachesSeen
<1>6. Typed' /\ (scope' => scope)
    BY <1>1, <1>2 DEF Typed, server
<1>7. ~overtaken[r] => CachesSeen(q, since[r], mem', disk')
    BY <1>1, <1>2 DEF RunningAt
<1> HIDE DEF q, next
<1>8. Leads(q, next, since[r], overtaken[r], served')
    BY <1>3, <1>4, <1>5, WithDefaultLeads, Zenon DEF next
<1>9. QED
    BY <1>1, <1>6, <1>7, <1>8, LeadsKeeps DEF q

\* A fetched default is stored on the disk.
LEMMA StoreDefaultKeeps ==
    ASSUME IInv, History, NEW r \in Request, StoreDefault(r)
    PROVE  IInv'
<1> DEFINE q == req[r]
           next == WithDefault(q, q.dflt)
<1>1. /\ q.pc = "storeDflt" /\ Running(r)
      /\ UpdateCache({"default"}, [Dropped EXCEPT !.default = q.dflt])
      /\ req' = [req EXCEPT ![r] = next] /\ UNCHANGED <<server, mem, served>>
    BY DEF StoreDefault, Set, Running
<1>2. RunningAt(r, q) /\ Typed
    BY <1>1, RunningFacts, TypedFacts
<1>3. /\ q \in ReqState /\ Local(q) /\ q.end = "none" /\ overtaken[r] \in BOOLEAN
      /\ q.dflt \in Defaults /\ q.pc \in {"dflt", "getDflt", "storeDflt"}
      /\ since[r].names # {} /\ since[r].default # {} /\ q.dflt \in since[r].default
    BY <1>1, <1>2 DEF RunningAt, Known, Local, ReqState
<1>4. ~overtaken[r] => Heard(q, since[r], served')
    BY <1>1, <1>2 DEF RunningAt, Known
<1>5. ~overtaken[r] /\ ~q.lost =>
          \/ q.dflt \in since[r].default
          \/ q.pc = "dflt" /\ "default" \in served' /\ ~DefaultKnown(q)
    BY <1>3
<1>6. Typed' /\ (scope' => scope)
    <2> PICK new : new = [Dropped EXCEPT !.default = q.dflt]
        OBVIOUS
    <2>1. new \in Cached
        BY <1>3 DEF Dropped
    <2>2. Holds({"default"}, new)
        BY <1>1, <1>2, <2>1, UpdateHolds
    <2>3. QED BY <1>1, <1>2, <2>2 DEF Typed, server, Holds
<1>7. ~overtaken[r] /\ ~StaleStored(r) => CachesSeen(q, since[r], mem', disk')
    BY <1>1, <1>2, CachesKept DEF server
<1> HIDE DEF q, next
<1>8. Leads(q, next, since[r], overtaken[r], served')
    BY <1>3, <1>4, <1>5, WithDefaultLeads, Zenon DEF next
<1>9. QED
    BY <1>1, <1>6, <1>7, <1>8, LeadsKeeps DEF q

\* The default cannot be read.
LEMMA DefaultFailsKeeps ==
    ASSUME IInv, History, NEW r \in Request, DefaultFails(r)
    PROVE  IInv'
<1> DEFINE q == req[r]
           lost == [q EXCEPT !.lost = TRUE]
           next == WithDefault(lost, NoCal)
<1>1. /\ q.pc = "getDflt" /\ Running(r)
      /\ req' = [req EXCEPT ![r] = next] /\ UNCHANGED <<server, cache, env>>
    BY DEF DefaultFails, Set, Running
<1>2. RunningAt(r, q)
    BY <1>1, RunningFacts
<1>3. lost \in ReqState
    BY <1>2 DEF RunningAt, ReqState
<1>4. /\ lost.pc = q.pc /\ lost.op = q.op /\ lost.sel = q.sel /\ lost.what = q.what
      /\ lost.list = q.list /\ lost.dflt = q.dflt /\ (lost.fresh <=> q.fresh)
      /\ lost.round = q.round /\ lost.lost /\ (lost.again <=> q.again) /\ lost.failed = q.failed
      /\ lost.cals = q.cals /\ lost.end = q.end
    BY <1>2 DEF RunningAt, ReqState
<1>5. (NamesKnown(lost) <=> NamesKnown(q)) /\ (DefaultKnown(lost) <=> DefaultKnown(q))
    BY <1>4 DEF NamesKnown, DefaultKnown
<1> HIDE DEF lost
<1>6. Local(lost) /\ lost.end = "none"
    BY <1>1, <1>2, <1>4 DEF RunningAt, Local
<1>7. ~overtaken[r] => Heard(lost, since[r], served)
    BY <1>1, <1>2, <1>4, <1>5 DEF RunningAt, Known, Heard
<1>8. /\ overtaken[r] \in BOOLEAN /\ NoCal \in Defaults /\ lost.pc \in {"dflt", "getDflt", "storeDflt"}
      /\ since[r].names # {} /\ since[r].default # {}
    BY <1>1, <1>2, <1>4 DEF RunningAt, Defaults
<1>9. ~overtaken[r] /\ ~lost.lost =>
          \/ NoCal \in since[r].default
          \/ lost.pc = "dflt" /\ "default" \in served /\ ~DefaultKnown(lost)
    BY <1>4
<1> HIDE DEF q, next
<1>10. Leads(lost, next, since[r], overtaken[r], served)
    BY <1>3, <1>6, <1>7, <1>8, <1>9, WithDefaultLeads, Zenon DEF next
<1>11. QED
    BY <1>1, <1>4, <1>5, <1>10, SameCaches, LeadsKeeps DEF q

\* A default that is not listed is read again, if it came from the cache.
LEMMA CheckDefaultKeeps ==
    ASSUME IInv, History, NEW r \in Request, CheckDefault(r)
    PROVE  IInv'
<1> DEFINE q == req[r]
           again == Missing(q.list, q.dflt) /\ "default" \in served
<1>1. q.pc = "check" /\ Running(r) /\ UNCHANGED server
    BY DEF CheckDefault, Running
<1>2. RunningAt(r, q) /\ Typed
    BY <1>1, RunningFacts, TypedFacts
<1>3. q \in ReqState /\ Local(q) /\ q.end = "none" /\ overtaken[r] \in BOOLEAN
    BY <1>1, <1>2 DEF RunningAt, Local
<1>4. ~overtaken[r] => Heard(q, since[r], served)
    BY <1>2 DEF RunningAt, Known
<1>5. CASE again
    <2> DEFINE next == [q EXCEPT !.pc = "getDflt", !.round = "default"]
    <2>1. /\ req' = [req EXCEPT ![r] = next]
          /\ Invalidate({"default"}) /\ mem' = mem
        BY <1>5 DEF CheckDefault, Set
    <2>2. next \in ReqState
        BY <1>3 DEF ReqState, Pc
    <2>3. /\ next.pc = "getDflt" /\ next.op = q.op /\ next.sel = q.sel /\ next.what = q.what
          /\ next.list = q.list /\ (next.fresh <=> q.fresh) /\ next.round = "default"
          /\ (next.lost <=> q.lost) /\ (next.again <=> q.again) /\ next.failed = q.failed /\ next.end = q.end
        BY <1>3 DEF ReqState
    <2>4. Typed' /\ (scope' => scope)
        <3>1. Holds({"default"}, Dropped) /\ served' \subseteq served
            BY <1>2, <2>1, InvalidateHolds
        <3>2. QED BY <1>1, <1>2, <2>1, <3>1 DEF Typed, server, Holds
    <2>5. ~overtaken[r] /\ ~StaleStored(r) => CachesSeen(q, since[r], mem', disk')
        BY <1>1, <1>2, <2>1, CachesKept DEF server
    <2> HIDE DEF next
    <2>6. Local(next)
        BY <1>1, <1>3, <2>3 DEF Local, Busy, Refreshing
    <2>7. (NamesKnown(next) <=> NamesKnown(q)) /\ (DefaultKnown(next) <=> DefaultKnown(q))
        BY <1>1, <2>3 DEF NamesKnown, DefaultKnown
    <2>8. ~overtaken[r] => Heard(next, since[r], served')
        BY <1>1, <1>4, <2>3, <2>7 DEF Heard, Reading
    <2>9. Known(next, since[r], overtaken[r], served')
        BY <1>3, <2>3, <2>8 DEF Known, Unknown, PassedOver, Replayed, Detailed
    <2>10. Leads(q, next, since[r], overtaken[r], served')
        BY <2>2, <2>3, <2>6, <2>7, <2>9 DEF Leads, Exits
    <2> HIDE DEF q
    <2>11. QED
        BY <1>1, <2>1, <2>4, <2>5, <2>10, LeadsKeeps DEF q
<1>6. CASE ~again
    <2> DEFINE next == Resolved(q)
    <2>1. req' = [req EXCEPT ![r] = next] /\ UNCHANGED <<cache, env>>
        BY <1>6 DEF CheckDefault, Set
    <2>2. Resolvable(q, since[r], overtaken[r])
        BY <1>1, <1>3, <1>4, <1>6 DEF Resolvable, Local, Heard, Reading, Refreshing
    <2>3. since[r].names # {} /\ since[r].default # {}
        BY <1>2 DEF RunningAt
    <2> HIDE DEF q
    <2>4. Leads(q, next, since[r], overtaken[r], served)
        BY <1>3, <2>2, <2>3, ResolvedLeads
    <2> HIDE DEF next
    <2>5. UNCHANGED <<server, cache, env>>
        BY <1>1, <2>1
    <2>6. QED
        BY <1>1, <2>1, <2>4, <2>5, SameCaches, LeadsKeeps DEF q
<1>7. QED BY <1>5, <1>6
-----------------------------------------------------------------------------
(* The beginning and the end of a request, and its event operations.       *)

\* The selection is of calendars and names, and the first step goes for them.
LEMMA BeginKeeps ==
    ASSUME IInv, History, NEW r \in Request, Begin(r)
    PROVE  IInv'
<1> DEFINE q == req[r]
           to == CASE q.op = "create" -> "post" [] q.op = "calendars" -> "getList" [] OTHER -> "list"
           round == IF q.op = "calendars" THEN "list" ELSE "first"
           next == [q EXCEPT !.pc = to, !.round = round]
<1>1. q.pc = "idle" /\ req' = [req EXCEPT ![r] = next] /\ UNCHANGED <<server, cache, env>>
    BY DEF Begin, Set
<1>2. Typed /\ req \in [Request -> ReqState] /\ RequestInv(r)
    BY TypedFacts DEF IInv
<1>3. q \in ReqState /\ Local(q) /\ q.end = "none" /\ q.failed = NoCal /\ q.op # "detail"
    BY <1>1, <1>2 DEF RequestInv, Local
<1>4. \/ to = "post" /\ q.op = "create"
      \/ to = "getList"
      \/ to = "list" /\ round = "first"
    <2>1. CASE q.op = "create"
        BY <2>1, Zenon
    <2>2. CASE q.op = "calendars"
        BY <2>2, Zenon
    <2>3. CASE q.op \notin {"create", "calendars"}
        BY <2>3, Zenon
    <2>4. QED BY <2>1, <2>2, <2>3
<1>5. round \in {"first", "list"}
    OBVIOUS
<1> HIDE DEF to, round
<1>6. next \in ReqState
    BY <1>3, <1>4, <1>5 DEF ReqState, Pc
<1>7. /\ next.pc = to /\ next.op = q.op /\ next.sel = q.sel /\ next.what = q.what
      /\ (next.fresh <=> q.fresh) /\ next.round = round /\ (next.lost <=> q.lost)
      /\ next.failed = q.failed /\ next.end = q.end
    BY <1>3 DEF ReqState
<1> HIDE DEF next
<1>8. Local(next)
    BY <1>1, <1>3, <1>4, <1>5, <1>7 DEF Local, Busy
<1>9. ASSUME NEW seen \in Seen
      PROVE  Known(next, seen, FALSE, served') /\ CachesSeen(next, seen, mem', disk')
    <2>1. Known(next, seen, FALSE, served')
        BY <1>3, <1>4, <1>7, KnownByNone DEF Reading
    <2>2. CachesSeen(next, seen, mem', disk')
        BY <1>3, <1>4, <1>7 DEF CachesSeen, NamesKnown, DefaultKnown
    <2>3. QED BY <2>1, <2>2
<1>10. Typed'
    BY <1>1, <1>2 DEF Typed, server, cache
<1>11. Turn(r)
    <2>1. req'[r] = next
        BY <1>1, <1>2
    <2>2. next # q
        BY <1>1, <1>4, <1>7
    <2>3. QED BY <1>1, <2>1, <2>2 DEF Turn, Stepping
<1>12. TypeOK' /\ \A k \in Request : RequestInv(k)'
    <2>1. next.pc \notin {"idle", "done"}
        BY <1>4, <1>7
    <2>2. QED BY <1>1, <1>6, <1>8, <1>9, <1>10, <1>11, <2>1, TurnKeeps
<1>13. ScopeHeld'
    BY <1>1, <1>2, <1>7, ScopeStays DEF IInv, server
<1>14. QED BY <1>12, <1>13 DEF IInv

\* A request ends otherwise than with an unknown selector.
LEMMA EndKeeps ==
    ASSUME IInv, History, Typed', NEW r \in Request, NEW q \in ReqState, NEW end \in End,
           end # "unknown", q.op = "detail" => end # "ok",
           Running(r), req' = [req EXCEPT ![r] = Ended(q, end)]
    PROVE  TypeOK' /\ \A k \in Request : RequestInv(k)'
<1> DEFINE next == Ended(q, end)
<1>1. Leads(q, next, since[r], overtaken[r], served')
    BY EndedLeads
<1>2. next.pc = "done" /\ ~next.again
    BY DEF Ended, Blank
<1> HIDE DEF next
<1>3. next \in ReqState /\ Local(next) /\ Known(next, since[r], overtaken[r], served')
    BY <1>1 DEF Leads
<1>4. QED
    BY <1>2, <1>3, StepKeeps DEF next

\* ... and the scope is as it was.
LEMMA EndsQuietly ==
    ASSUME IInv, History, NEW r \in Request, NEW q \in ReqState, NEW end \in End,
           end # "unknown", q.op = "detail" => end # "ok", req[r].lost => q.lost,
           Running(r), req[r].pc \notin {"delete", "relock"},
           req' = [req EXCEPT ![r] = Ended(q, end)],
           Typed', scope' => scope
    PROVE  IInv'
<1>1. TypeOK' /\ \A k \in Request : RequestInv(k)'
    BY EndKeeps
<1> DEFINE next == Ended(q, end)
<1>2. next.lost <=> q.lost
    BY DEF Ended, Blank
<1> HIDE DEF next
<1>3. ScopeHeld'
    BY <1>2, TypedFacts, ScopeStays DEF IInv, next
<1>4. QED BY <1>1, <1>3 DEF IInv

\* A request that starts its resolution over.
LEMMA AnewFields ==
    ASSUME NEW q \in ReqState
    PROVE  /\ Anew(q) \in ReqState
           /\ Anew(q).pc = "list" /\ Anew(q).op = q.op /\ Anew(q).sel = q.sel
           /\ Anew(q).what = q.what /\ Anew(q).list = None /\ Anew(q).dflt = NoCal
           /\ ~Anew(q).fresh /\ Anew(q).round = "first" /\ (Anew(q).lost <=> q.lost)
           /\ (Anew(q).again <=> q.again) /\ Anew(q).failed = q.failed
           /\ Anew(q).cals = {} /\ Anew(q).end = q.end
<1>1. NoCal \in Defaults /\ {} \in SUBSET Cal /\ None \in Lists \cup {None} /\ "list" \in Pc
    BY DEF Defaults, Pc
<1>2. QED BY <1>1 DEF Anew, ReqState

\* A request in the middle of its work.
LEMMA BusyFacts ==
    ASSUME IInv, NEW r \in Request, req[r].pc \in Busy
    PROVE  /\ Running(r) /\ RunningAt(r, req[r]) /\ req[r].cals \in SUBSET Cal
           /\ The(req[r].cals) \in req[r].cals /\ The(req[r].cals) \in Cal
           /\ req[r].op # "detail"
<1>1. Running(r)
    BY DEF Running, Busy
<1>2. RunningAt(r, req[r])
    BY <1>1, RunningFacts
<1>3. req[r].cals \in SUBSET Cal /\ req[r].cals # {} /\ req[r].op # "detail"
    BY <1>2 DEF RunningAt, Local, ReqState, Busy, Refreshing
<1>4. QED BY <1>1, <1>2, <1>3, TheIsIn

\* "not found": a replay ends; the first refreshes the metadata.
LEMMA NotFoundKeeps ==
    ASSUME IInv, History, NEW r \in Request, NotFound(r)
    PROVE  IInv'
<1> DEFINE q == req[r]
<1>1. q.pc = "act" /\ q.pc \in Busy /\ UNCHANGED server
    BY DEF NotFound, Busy
<1>2. Typed /\ req \in [Request -> ReqState] /\ Running(r) /\ RunningAt(r, q) /\ The(q.cals) \in Cal
    BY <1>1, BusyFacts, TypedFacts
<1>3. q \in ReqState /\ Local(q) /\ q.end = "none" /\ q.op \in {"access", "window"}
    BY <1>1, <1>2 DEF RunningAt, Local
<1>4. CASE q.again
    <2>1. req' = [req EXCEPT ![r] = Ended(q, "notfound")] /\ UNCHANGED <<cache, env>>
        BY <1>4 DEF NotFound, Set
    <2>2. Typed' /\ (scope' => scope)
        BY <1>1, <1>2, <2>1 DEF Typed, server, cache
    <2>3. "notfound" \in End
        BY DEF End
    <2> HIDE DEF q
    <2>4. QED
        BY <1>1, <1>2, <1>3, <2>1, <2>2, <2>3, EndsQuietly DEF q
<1>5. CASE ~q.again
    <2> DEFINE start == Anew(q)
               failed == IF q.op = "access" THEN The(q.cals) ELSE NoCal
               next == [start EXCEPT !.again = TRUE, !.failed = failed]
    <2>1. req' = [req EXCEPT ![r] = next] /\ InvalidateCalendarList
        BY <1>5 DEF NotFound, Set
    <2>2. /\ start \in ReqState /\ start.pc = "list" /\ start.op = q.op
          /\ ~start.fresh /\ start.round = "first" /\ start.end = q.end
          /\ (start.lost <=> q.lost) /\ start.cals = {}
        BY <1>3, AnewFields
    <2>3. failed \in Defaults /\ (failed # NoCal => q.op = "access")
        BY <1>2 DEF Defaults
    <2> HIDE DEF start, failed
    <2>4. next \in ReqState
        BY <2>2, <2>3 DEF ReqState
    <2>5. /\ next.pc = "list" /\ next.op = q.op /\ ~next.fresh /\ next.round = "first"
          /\ next.end = q.end /\ (next.lost <=> q.lost) /\ next.again /\ next.failed = failed
        BY <2>2 DEF ReqState
    <2> HIDE DEF next
    <2>6. Local(next)
        BY <1>3, <2>3, <2>5 DEF Local, Busy
    <2>7. mem' = None /\ disk'.list = None /\ disk'.default = None /\ served' \subseteq served
        BY <1>2, <2>1, ListInvalidated
    <2>8. Typed' /\ (scope' => scope)
        BY <1>1, <1>2, <2>1, ListInvalidated DEF Typed, server
    <2>9. ASSUME NEW seen \in Seen
          PROVE  Known(next, seen, FALSE, served') /\ CachesSeen(next, seen, mem', disk')
        <3>1. Known(next, seen, FALSE, served')
            BY <1>3, <2>5, KnownByNone DEF Reading
        <3>2. CachesSeen(next, seen, mem', disk')
            BY <2>7 DEF CachesSeen
        <3>3. QED BY <3>1, <3>2
    <2>10. Turn(r)
        BY <1>1, <1>2, <1>5, <2>1, <2>5 DEF Turn, Stepping
    <2>11. TypeOK' /\ \A k \in Request : RequestInv(k)'
        BY <2>1, <2>4, <2>5, <2>6, <2>8, <2>9, <2>10, TurnKeeps
    <2>12. ScopeHeld'
        BY <1>1, <1>2, <2>1, <2>5, <2>8, ScopeStays DEF IInv
    <2>13. QED BY <2>11, <2>12 DEF IInv
<1>6. QED BY <1>4, <1>5

\* A degraded read is done again.
LEMMA DegradedKeeps ==
    ASSUME IInv, History, NEW r \in Request, Degraded(r)
    PROVE  IInv'
<1> DEFINE q == req[r]
           start == Anew(q)
           next == [start EXCEPT !.again = TRUE]
<1>1. /\ q.pc = "act" /\ q.pc \in Busy /\ q.op = "access" /\ ~q.again
      /\ req' = [req EXCEPT ![r] = next] /\ UNCHANGED <<server, cache, env>>
    BY DEF Degraded, Set, Busy
<1>2. Typed /\ req \in [Request -> ReqState] /\ Running(r) /\ RunningAt(r, q)
    BY <1>1, BusyFacts, TypedFacts
<1>3. q \in ReqState /\ Local(q) /\ q.end = "none" /\ q.failed = NoCal
    BY <1>1, <1>2 DEF RunningAt, Local
<1>4. /\ start \in ReqState /\ start.pc = "list" /\ start.op = q.op
      /\ ~start.fresh /\ start.round = "first" /\ start.end = q.end
      /\ (start.lost <=> q.lost) /\ start.failed = q.failed
    BY <1>3, AnewFields
<1> HIDE DEF start
<1>5. next \in ReqState
    BY <1>4 DEF ReqState
<1>6. /\ next.pc = "list" /\ next.op = q.op /\ ~next.fresh /\ next.round = "first"
      /\ next.end = q.end /\ (next.lost <=> q.lost) /\ next.again /\ next.failed = NoCal
    BY <1>3, <1>4 DEF ReqState
<1> HIDE DEF next
<1>7. Local(next)
    BY <1>1, <1>3, <1>6 DEF Local, Busy
<1>8. Typed' /\ (scope' => scope)
    BY <1>1, <1>2 DEF Typed, server, cache
<1>9. ASSUME NEW seen \in Seen
      PROVE  Known(next, seen, FALSE, served') /\ CachesSeen(next, seen, mem', disk')
    <2>1. Known(next, seen, FALSE, served')
        BY <1>3, <1>6, KnownByNone DEF Reading
    <2>2. CachesSeen(next, seen, mem', disk')
        BY <1>1, <1>6 DEF CachesSeen, NamesKnown, DefaultKnown
    <2>3. QED BY <2>1, <2>2
<1>10. Turn(r)
    BY <1>1, <1>2, <1>6 DEF Turn, Stepping
<1>11. TypeOK' /\ \A k \in Request : RequestInv(k)'
    BY <1>1, <1>5, <1>6, <1>7, <1>8, <1>9, <1>10, TurnKeeps
<1>12. ScopeHeld'
    BY <1>1, <1>2, <1>6, <1>8, ScopeStays DEF IInv
<1>13. QED BY <1>11, <1>12 DEF IInv

\* An event operation is done, or fails.
LEMMA ActEndsKeeps ==
    ASSUME IInv, History, NEW r \in Request, ActDone(r) \/ ActFails(r)
    PROVE  IInv'
<1> DEFINE q == req[r]
<1>1. PICK end \in {"ok", "error"} :
          /\ q.pc = "act" /\ req' = [req EXCEPT ![r] = Ended(q, end)]
          /\ UNCHANGED <<server, cache, env>>
    BY DEF ActDone, ActFails, Set
<1>2. Typed /\ Running(r) /\ RunningAt(r, q) /\ q.op # "detail"
    BY <1>1, BusyFacts, TypedFacts DEF Busy
<1>3. q \in ReqState /\ end \in End
    BY <1>2 DEF RunningAt, End
<1>4. Typed' /\ (scope' => scope)
    BY <1>1, <1>2 DEF Typed, server, cache
<1> HIDE DEF q
<1>5. QED
    BY <1>1, <1>2, <1>3, <1>4, EndsQuietly DEF q
-----------------------------------------------------------------------------
(* Changing the calendars.                                                 *)

\* A request that writes: neither an access nor a detail.
LEMMA WriterFacts ==
    ASSUME IInv, NEW r \in Request, req[r].pc \in (Busy \cup {"post"}) \ {"act"}
    PROVE  /\ Typed /\ req \in [Request -> ReqState] /\ Running(r) /\ RunningAt(r, req[r])
           /\ req[r] \in ReqState /\ Local(req[r]) /\ req[r].failed = NoCal
           /\ req[r].op \in {"update", "create", "delete"}
<1>1. Running(r)
    BY DEF Running, Busy
<1>2. Typed /\ req \in [Request -> ReqState] /\ RunningAt(r, req[r])
    BY <1>1, TypedFacts, RunningFacts
<1>3. req[r] \in ReqState /\ Local(req[r])
    BY <1>2 DEF RunningAt
<1>4. req[r].op \in {"update", "create", "delete"} /\ req[r].failed = NoCal
    BY <1>3 DEF Local
<1>5. QED BY <1>1, <1>2, <1>3, <1>4

\* What a writing request moves on with.
Moves(q, next, pc) ==
    /\ next \in ReqState
    /\ next.pc = pc /\ next.op = q.op /\ next.sel = q.sel /\ next.what = q.what
    /\ (next.lost <=> q.lost) /\ (next.again <=> q.again) /\ next.failed = q.failed
    /\ (next.fresh <=> q.fresh) /\ next.round = q.round /\ next.end = q.end
    /\ next.cals = q.cals

LEMMA MovesFields ==
    ASSUME NEW q \in ReqState, NEW pc \in Pc
    PROVE  Moves(q, [q EXCEPT !.pc = pc], pc)
BY DEF Moves, ReqState

\* A step of a writing request to another one of its write, or to a detail.
LEMMA WriteKeeps ==
    ASSUME IInv, History, NEW r \in Request, NEW next \in ReqState,
           req[r].pc \in (Busy \cup {"post"}) \ {"act"}, Typed',
           req' = [req EXCEPT ![r] = next],
           next.pc \in (Busy \ {"act", "metaDone", "defDone"}) \cup {"list"},
           Local(next), ~overtaken[r] /\ ~StaleStored(r) => CachesSeen(next, since[r], mem', disk')
    PROVE  TypeOK' /\ \A k \in Request : RequestInv(k)'
<1>1. next.end \notin {"unknown"} /\ (next.op = "detail" => next.end # "ok")
    BY DEF Local, Busy, Refreshing
<1>2. Known(next, since[r], overtaken[r], served')
    BY <1>1, KnownByNone DEF Reading, Busy
<1>3. QED
    BY <1>2, WriterFacts, StepKeeps DEF Busy

\* The turn of a writing request: the metadata is written.
LEMMA WrittenKeeps ==
    ASSUME IInv, History, NEW r \in Request, NEW next \in ReqState,
           req[r].pc \in {"meta", "keys"}, Typed',
           req' = [req EXCEPT ![r] = next], Moves(req[r], next, "metaDone")
    PROVE  TypeOK' /\ \A k \in Request : RequestInv(k)'
<1> DEFINE q == req[r]
<1>1. /\ req \in [Request -> ReqState] /\ Local(q) /\ q.failed = NoCal
      /\ q.op \in {"update", "create", "delete"} /\ q.cals # {} /\ q.end = "none"
    BY WriterFacts DEF Busy, Local
<1>2. Local(next)
    BY <1>1 DEF Moves, Local, Busy
<1>3. ASSUME NEW seen \in Seen
      PROVE  Known(next, seen, FALSE, served') /\ CachesSeen(next, seen, mem', disk')
    <2>1. Known(next, seen, FALSE, served')
        BY <1>1, KnownByNone DEF Reading, Moves
    <2>2. CachesSeen(next, seen, mem', disk')
        BY <1>1 DEF CachesSeen, NamesKnown, DefaultKnown, Moves
    <2>3. QED BY <2>1, <2>2
<1>4. Turn(r)
    BY <1>1 DEF Turn, Stepping, Moves
<1>5. QED
    BY <1>2, <1>3, <1>4, TurnKeeps DEF Moves

\* A name given to a calendar that is there, or that comes into being.
LEMMA NamesType ==
    ASSUME Typed, NEW c \in Cal, NEW n \in Name, c \notin unborn'
    PROVE  /\ [names EXCEPT ![c] = n] \in Lists
           /\ unborn' \subseteq unborn => \A k \in unborn' : [names EXCEPT ![c] = n][k] = Gone
BY DEF Typed, Lists

LEMMA PutMemberKeeps ==
    ASSUME IInv, History, NEW r \in Request, PutMember(r)
    PROVE  IInv'
<1> DEFINE q == req[r]
           c == The(q.cals)
<1>1. /\ q.pc = "meta" /\ names[c] # Gone
      /\ names' = [names EXCEPT ![c] = q.name] /\ default' = default
      /\ UNCHANGED <<unborn, keyed, scope, cache, env>>
    BY DEF PutMember, Becomes
<1>2. /\ Typed /\ req \in [Request -> ReqState] /\ Running(r) /\ q \in ReqState
      /\ q.op # "detail" /\ c \in Cal
    BY <1>1, WriterFacts, BusyFacts DEF Busy
<1>3. Typed'
    <2>1. c \notin unborn' /\ q.name \in Name /\ unborn' \subseteq unborn
        BY <1>1, <1>2 DEF Typed, ReqState
    <2>2. q.name \in Name /\ c \in Cal
        BY <1>2, <2>1
    <2> HIDE DEF c, q
    <2>3. /\ [names EXCEPT ![c] = q.name] \in Lists
          /\ unborn' \subseteq unborn => \A k \in unborn' : [names EXCEPT ![c] = q.name][k] = Gone
        BY <1>2, <2>1, <2>2, NamesType, Zenon
    <2>4. QED BY <1>1, <1>2, <2>1, <2>3 DEF Typed, cache
<1>4. CASE req' = [req EXCEPT ![r] = [q EXCEPT !.pc = "metaDone"]]
    <2> DEFINE next == [q EXCEPT !.pc = "metaDone"]
    <2>1. Moves(q, next, "metaDone")
        BY <1>2, MovesFields DEF Pc
    <2> HIDE DEF next
    <2>2. TypeOK' /\ \A k \in Request : RequestInv(k)'
        BY <1>1, <1>3, <1>4, <2>1, WrittenKeeps DEF Moves, next
    <2>3. ScopeHeld'
        BY <1>1, <1>2, <1>4, <2>1, ScopeStays DEF IInv, Moves, next
    <2>4. QED BY <2>2, <2>3 DEF IInv
<1>5. CASE req' = [req EXCEPT ![r] = Ended(q, "error")]
    <2>1. "error" \in End
        BY DEF End
    <2> HIDE DEF q, c
    <2>2. QED BY <1>1, <1>2, <1>3, <1>5, <2>1, EndsQuietly DEF q
<1>6. QED BY <1>4, <1>5 DEF PutMember, Set

\* The detail of a calendar is resolved anew.
LEMMA DetailFields ==
    ASSUME NEW q \in ReqState, NEW c \in Cal, q.end = "none", q.failed = NoCal
    PROVE  /\ Detail(q, c) \in ReqState /\ Local(Detail(q, c))
           /\ Detail(q, c).pc = "list" /\ Detail(q, c).op = "detail" /\ Detail(q, c).what = q.what
           /\ (Detail(q, c).lost <=> q.lost) /\ Detail(q, c).failed = NoCal
<1> DEFINE start == Anew(q)
           next == [start EXCEPT !.op = "detail", !.sel = {c}]
<1>1. /\ start \in ReqState /\ start.pc = "list" /\ start.what = q.what /\ start.dflt = NoCal
      /\ ~start.fresh /\ start.round = "first" /\ (start.lost <=> q.lost)
      /\ start.failed = q.failed /\ start.cals = {} /\ start.end = q.end
    BY AnewFields
<1>2. Detail(q, c) = next
    BY DEF Detail
<1> HIDE DEF start
<1>3. next \in ReqState
    BY <1>1 DEF ReqState, Op, Selection
<1>4. /\ next.pc = "list" /\ next.op = "detail" /\ next.sel = {c} /\ next.what = q.what
      /\ next.dflt = NoCal /\ ~next.fresh /\ next.round = "first" /\ (next.lost <=> q.lost)
      /\ next.failed = NoCal /\ next.cals = {} /\ next.end = "none"
    BY <1>1 DEF ReqState
<1> HIDE DEF next
<1>5. Local(next)
    BY <1>4 DEF Local, Busy, Refreshing
<1>6. QED BY <1>2, <1>3, <1>4, <1>5

\* The metadata is written and the cached list dropped.
LEMMA MemberPutKeeps ==
    ASSUME IInv, History, NEW r \in Request, MemberPut(r)
    PROVE  IInv'
<1> DEFINE q == req[r]
           c == The(q.cals)
           next == AfterMetadata(q)
<1>1. /\ q.pc = "metaDone" /\ InvalidateCalendarList /\ UNCHANGED server
      /\ req' = [req EXCEPT ![r] = next]
    BY DEF MemberPut, Set
<1>2. /\ Typed /\ req \in [Request -> ReqState] /\ Running(r) /\ q \in ReqState /\ Local(q)
      /\ q.failed = NoCal /\ q.op \in {"update", "create", "delete"} /\ c \in Cal
      /\ q.cals # {} /\ q.end = "none"
    BY <1>1, WriterFacts, BusyFacts DEF Busy, Local
<1>3. mem' = None /\ disk'.list = None /\ disk'.default = None /\ served' \subseteq served
    BY <1>1, <1>2, ListInvalidated
<1>4. Typed' /\ (scope' => scope)
    BY <1>1, <1>2, ListInvalidated DEF Typed, server
<1>5. next \in ReqState /\ Local(next) /\ next.pc \in {"mkdef", "list"} /\ (next.lost <=> q.lost)
    <2>1. CASE "default" \in q.what
        <3> DEFINE other == [q EXCEPT !.pc = "mkdef"]
        <3>1. Moves(q, other, "mkdef") /\ next = other
            BY <1>2, <2>1, MovesFields DEF Pc, AfterMetadata
        <3> HIDE DEF other, next
        <3>2. QED BY <1>2, <3>1 DEF Moves, Local, Busy
    <2>2. CASE "default" \notin q.what
        <3>1. next = Detail(q, c)
            BY <2>2 DEF AfterMetadata
        <3> HIDE DEF next, q, c
        <3>2. QED BY <1>2, <3>1, DetailFields
    <2>3. QED BY <2>1, <2>2
<1>6. CachesSeen(next, since[r], mem', disk')
    BY <1>3 DEF CachesSeen
<1> HIDE DEF next
<1>7. TypeOK' /\ \A k \in Request : RequestInv(k)'
    BY <1>1, <1>4, <1>5, <1>6, WriteKeeps DEF Busy
<1>8. ScopeHeld'
    BY <1>1, <1>2, <1>4, <1>5, ScopeStays DEF IInv
<1>9. QED BY <1>7, <1>8 DEF IInv

LEMMA PutDefaultKeeps ==
    ASSUME IInv, History, NEW r \in Request, PutDefault(r)
    PROVE  IInv'
<1> DEFINE q == req[r]
           c == The(q.cals)
<1>1. /\ q.pc = "mkdef" /\ names[c] # Gone /\ names' = names /\ default' = c
      /\ UNCHANGED <<unborn, keyed, scope, cache, env>>
    BY DEF PutDefault, Becomes
<1>2. /\ Typed /\ req \in [Request -> ReqState] /\ Running(r) /\ RunningAt(r, q) /\ q \in ReqState
      /\ Local(q) /\ q.op \in {"update", "create", "delete"} /\ q.failed = NoCal /\ c \in Cal
      /\ q.cals # {} /\ q.end = "none"
    BY <1>1, WriterFacts, BusyFacts DEF Busy, Local
<1>3. Typed'
    BY <1>1, <1>2 DEF Typed, cache, Defaults
<1>4. CASE req' = [req EXCEPT ![r] = [q EXCEPT !.pc = "defDone"]]
    <2> DEFINE next == [q EXCEPT !.pc = "defDone"]
    <2>1. Moves(q, next, "defDone")
        BY <1>2, MovesFields DEF Pc
    <2>2. req'[r] = next /\ \A k \in Request \ {r} : req'[k] = req[k]
        BY <1>2, <1>4
    <2> HIDE DEF next
    <2>3. Local(next)
        BY <1>2, <2>1 DEF Moves, Local, Busy
    <2>4. ~Turn(r) /\ Records(r) /\ Running(r)'
        BY <1>1, <2>1, <2>2 DEF Turn, Records, Running, Moves
    <2>5. TypeOK
        BY DEF IInv
    <2>6. since[r].names \subseteq since'[r].names /\ (~overtaken'[r] => ~overtaken[r])
        BY <2>4, <2>5, SeenGrows
    <2>7. Known(next, since'[r], overtaken'[r], served')
        BY <1>2, <2>1, KnownByNone DEF Moves, Reading
    <2>8. names' \in since'[r].names /\ default' \in since'[r].default
        BY <2>4, SeesNow
    <2>9. ~overtaken'[r] => CachesSeen(next, since'[r], mem', disk')
        <3>1. ~DefaultKnown(next) /\ (NamesKnown(next) <=> NamesKnown(q))
            BY <1>1, <1>2, <2>1 DEF DefaultKnown, NamesKnown, Moves
        <3>2. ~overtaken[r] => CachesSeen(q, since[r], mem, disk)
            BY <1>2 DEF RunningAt
        <3>3. QED BY <1>1, <2>6, <3>1, <3>2 DEF CachesSeen, cache
    <2>10. RequestInv(r)'
        BY <2>2, <2>3, <2>7, <2>8, <2>9 DEF RequestInv
    <2>11. \A k \in Request : RequestInv(k)'
        BY <2>2, <2>10, Frame
    <2>12. TypeOK'
        <3>1. since' \in [Request -> Seen] /\ overtaken' \in [Request -> BOOLEAN]
            BY <1>3, <2>5, SeenType DEF Typed
        <3>2. req' \in [Request -> ReqState]
            BY <1>2, <1>4, <2>1 DEF Moves, next
        <3>3. QED BY <1>3, <3>1, <3>2 DEF TypeOK, Typed
    <2>13. ScopeHeld'
        BY <1>1, <1>2, <1>4, <2>1, ScopeStays DEF IInv, Moves, next
    <2>14. QED BY <2>11, <2>12, <2>13 DEF IInv
<1>5. CASE req' = [req EXCEPT ![r] = Ended(q, "error")]
    <2>1. "error" \in End
        BY DEF End
    <2> HIDE DEF q, c
    <2>2. QED BY <1>1, <1>2, <1>3, <1>5, <2>1, EndsQuietly DEF q
<1>6. QED BY <1>4, <1>5 DEF PutDefault, Set

\* The default is written and the cached one dropped.
LEMMA DefaultPutKeeps ==
    ASSUME IInv, History, NEW r \in Request, DefaultPut(r)
    PROVE  IInv'
<1> DEFINE q == req[r]
           c == The(q.cals)
           next == Detail(q, c)
<1>1. /\ q.pc = "defDone" /\ Invalidate({"default"}) /\ UNCHANGED <<server, mem>>
      /\ req' = [req EXCEPT ![r] = next]
    BY DEF DefaultPut, Set
<1>2. /\ Typed /\ req \in [Request -> ReqState] /\ Running(r) /\ RunningAt(r, q) /\ q \in ReqState
      /\ q.failed = NoCal /\ c \in Cal /\ q.end = "none"
    BY <1>1, WriterFacts, BusyFacts DEF Busy, Local
<1>3. Holds({"default"}, Dropped) /\ disk'.default = None /\ served' \subseteq served
    BY <1>1, <1>2, InvalidateHolds
<1>4. Typed' /\ (scope' => scope)
    BY <1>1, <1>2, <1>3 DEF Typed, server, Holds
<1> HIDE DEF c
<1>5. /\ next \in ReqState /\ Local(next) /\ next.pc = "list" /\ next.op = "detail"
      /\ next.what = q.what /\ (next.lost <=> q.lost) /\ next.failed = NoCal
    BY <1>2, DetailFields
<1> HIDE DEF next
<1>6. ~overtaken[r] /\ ~StaleStored(r) => CachesSeen(next, since[r], mem', disk')
    <2>1. ~overtaken[r] /\ ~StaleStored(r) => CachesSeen(q, since[r], mem', disk')
        BY <1>1, <1>2, CachesKept DEF server
    <2>2. QED BY <1>1, <1>2, <1>3, <1>5, <2>1 DEF CachesSeen, NamesKnown
<1>7. TypeOK' /\ \A k \in Request : RequestInv(k)'
    BY <1>1, <1>4, <1>5, <1>6, WriteKeeps DEF Busy
<1>8. ScopeHeld'
    BY <1>1, <1>2, <1>4, <1>5, ScopeStays DEF IInv
<1>9. QED BY <1>7, <1>8 DEF IInv

\* A write that fails, keys that cannot be made.
LEMMA PutFailsKeeps ==
    ASSUME IInv, History, NEW r \in Request, PutFails(r) \/ PostKeysFails(r)
    PROVE  IInv'
<1> DEFINE q == req[r]
<1>1. PICK end \in {"error", "keyless"} :
          /\ q.pc \in {"meta", "mkdef", "post", "unlock", "keys"}
          /\ req' = [req EXCEPT ![r] = Ended(q, end)] /\ UNCHANGED <<server, cache, env>>
    BY DEF PutFails, PostKeysFails, Set
<1>2. Typed /\ Running(r) /\ q \in ReqState /\ end \in End
    BY <1>1, WriterFacts DEF Busy, End
<1>3. Typed' /\ (scope' => scope)
    BY <1>1, <1>2 DEF Typed, server, cache
<1> HIDE DEF q
<1>4. QED BY <1>1, <1>2, <1>3, EndsQuietly DEF q

\* A calendar is made.
LEMMA PostCalendarKeeps ==
    ASSUME IInv, History, NEW r \in Request, PostCalendar(r)
    PROVE  IInv'
<1> DEFINE q == req[r]
           c == Min(unborn)
<1>1. /\ q.pc = "post" /\ unborn # {} /\ unborn' = unborn \ {c}
      /\ names' = [names EXCEPT ![c] = q.name] /\ default' = default
      /\ UNCHANGED <<keyed, scope, cache, env>>
    BY DEF PostCalendar, Becomes
<1>2. /\ Typed /\ req \in [Request -> ReqState] /\ Running(r) /\ RunningAt(r, q) /\ q \in ReqState
      /\ Local(q) /\ q.failed = NoCal /\ q.op \in {"update", "create", "delete"}
    BY <1>1, WriterFacts DEF Busy
<1>3. c \in Cal /\ c \notin unborn' /\ unborn' \subseteq unborn /\ q.name \in Name
    <2>1. unborn \subseteq Cal
        BY <1>2 DEF Typed
    <2>2. unborn \subseteq Nat
        BY <2>1, CalAssumption
    <2>3. c \in unborn
        BY <1>1, <2>2, MinIsIn
    <2>4. QED BY <1>1, <1>2, <2>1, <2>3 DEF ReqState
<1>4. Typed'
    <2> HIDE DEF c, q
    <2>1. /\ [names EXCEPT ![c] = q.name] \in Lists
          /\ unborn' \subseteq unborn => \A k \in unborn' : [names EXCEPT ![c] = q.name][k] = Gone
        BY <1>2, <1>3, NamesType, Zenon
    <2>2. QED BY <1>1, <1>2, <1>3, <2>1 DEF Typed, cache
<1>5. CASE req' = [req EXCEPT ![r] = [q EXCEPT !.pc = "keys", !.cals = {c}]]
    <2> DEFINE next == [q EXCEPT !.pc = "keys", !.cals = {c}]
    <2> HIDE DEF c
    <2>1. next \in ReqState
        BY <1>2, <1>3 DEF ReqState, Pc
    <2>2. /\ next.pc = "keys" /\ next.op = q.op /\ (next.lost <=> q.lost) /\ next.what = q.what
          /\ next.failed = q.failed /\ next.cals = {c} /\ next.end = q.end
        BY <1>2 DEF ReqState
    <2> HIDE DEF next
    <2>3. Local(next)
        BY <1>1, <1>2, <2>2 DEF Local, Busy
    <2>4. ~overtaken[r] => CachesSeen(next, since[r], mem', disk')
        BY <1>2, <2>2 DEF CachesSeen, NamesKnown, DefaultKnown
    <2>5. TypeOK' /\ \A k \in Request : RequestInv(k)'
        BY <1>1, <1>4, <1>5, <2>1, <2>2, <2>3, <2>4, WriteKeeps DEF Busy, next
    <2>6. ScopeHeld'
        BY <1>1, <1>2, <1>5, <2>2, ScopeStays DEF IInv, next
    <2>7. QED BY <2>5, <2>6 DEF IInv
<1>6. CASE req' = [req EXCEPT ![r] = Ended(q, "error")]
    <2>1. "error" \in End /\ q.op # "detail"
        BY <1>2 DEF End
    <2> HIDE DEF q, c
    <2>2. QED BY <1>1, <1>2, <1>4, <1>6, <2>1, EndsQuietly DEF q
<1>7. QED BY <1>5, <1>6 DEF PostCalendar, Set

\* Its keys are made.
LEMMA PostKeysKeeps ==
    ASSUME IInv, History, NEW r \in Request, PostKeys(r)
    PROVE  IInv'
<1> DEFINE q == req[r]
<1>1. /\ q.pc = "keys" /\ keyed' = keyed \cup q.cals
      /\ UNCHANGED <<names, default, unborn, scope, cache, env>>
    BY DEF PostKeys
<1>2. /\ Typed /\ req \in [Request -> ReqState] /\ Running(r) /\ q \in ReqState
      /\ q.op # "detail" /\ q.cals \in SUBSET Cal
    BY <1>1, WriterFacts, BusyFacts DEF Busy
<1>3. Typed'
    BY <1>1, <1>2 DEF Typed, cache
<1>4. CASE req' = [req EXCEPT ![r] = [q EXCEPT !.pc = "metaDone"]]
    <2> DEFINE next == [q EXCEPT !.pc = "metaDone"]
    <2>1. Moves(q, next, "metaDone")
        BY <1>2, MovesFields DEF Pc
    <2> HIDE DEF next
    <2>2. TypeOK' /\ \A k \in Request : RequestInv(k)'
        BY <1>1, <1>3, <1>4, <2>1, WrittenKeeps DEF Moves, next
    <2>3. ScopeHeld'
        BY <1>1, <1>2, <1>4, <2>1, ScopeStays DEF IInv, Moves, next
    <2>4. QED BY <2>2, <2>3 DEF IInv
<1>5. CASE req' = [req EXCEPT ![r] = Ended(q, "keyless")]
    <2>1. "keyless" \in End
        BY DEF End
    <2> HIDE DEF q
    <2>2. QED BY <1>1, <1>2, <1>3, <1>5, <2>1, EndsQuietly DEF q
<1>6. QED BY <1>4, <1>5 DEF PostKeys, Set

\* The request that gains the scope answers for it, or has lost a reply.
LEMMA ScopeTaken ==
    ASSUME NEW r \in Request, NEW next, req \in [Request -> ReqState],
           req' = [req EXCEPT ![r] = next],
           \/ next.lost \/ next.pc = "relock"
           \/ next.pc = "delete" /\ Kind[The(next.cals)] = "owned"
    PROVE  ScopeHeld'
<1>1. req'[r] = next
    OBVIOUS
<1>2. QED BY <1>1 DEF ScopeHeld

LEMMA UnlockScopeKeeps ==
    ASSUME IInv, History, NEW r \in Request, UnlockScope(r)
    PROVE  IInv'
<1> DEFINE q == req[r]
<1>1. /\ q.pc = "unlock" /\ scope' = TRUE
      /\ UNCHANGED <<names, default, unborn, keyed, cache, env>>
    BY DEF UnlockScope
<1>2. /\ Typed /\ req \in [Request -> ReqState] /\ Running(r) /\ RunningAt(r, q) /\ q \in ReqState
      /\ Local(q) /\ q.op \in {"update", "create", "delete"} /\ q.failed = NoCal
    BY <1>1, WriterFacts DEF Busy
<1>3. Typed'
    BY <1>1, <1>2 DEF Typed, cache
<1>4. CASE req' = [req EXCEPT ![r] = [q EXCEPT !.pc = "delete"]]
    <2> DEFINE next == [q EXCEPT !.pc = "delete"]
    <2>1. Moves(q, next, "delete")
        BY <1>2, MovesFields DEF Pc
    <2> HIDE DEF next
    <2>2. Local(next) /\ Kind[The(next.cals)] = "owned"
        BY <1>1, <1>2, <2>1 DEF Moves, Local, Busy
    <2>3. ~overtaken[r] => CachesSeen(next, since[r], mem', disk')
        BY <1>2, <2>1 DEF CachesSeen, NamesKnown, DefaultKnown, Moves
    <2>4. TypeOK' /\ \A k \in Request : RequestInv(k)'
        BY <1>1, <1>3, <1>4, <2>1, <2>2, <2>3, WriteKeeps DEF Busy, Moves, next
    <2>5. ScopeHeld'
        BY <1>2, <1>4, <2>1, <2>2, ScopeTaken DEF Moves, next
    <2>6. QED BY <2>4, <2>5 DEF IInv
<1>5. CASE req' = [req EXCEPT ![r] = Ended([q EXCEPT !.lost = TRUE], "error")]
    <2> DEFINE lost == [q EXCEPT !.lost = TRUE]
               next == Ended(lost, "error")
    <2>1. lost \in ReqState /\ lost.op = q.op /\ lost.lost /\ "error" \in End
        BY <1>2 DEF ReqState, End
    <2>2. next.lost
        BY <2>1 DEF Ended, Blank
    <2> HIDE DEF lost
    <2>3. TypeOK' /\ \A k \in Request : RequestInv(k)'
        BY <1>2, <1>3, <1>5, <2>1, EndKeeps DEF lost
    <2> HIDE DEF next
    <2>4. ScopeHeld'
        BY <1>2, <1>5, <2>2, ScopeTaken DEF next, lost
    <2>5. QED BY <2>3, <2>4 DEF IInv
<1>6. QED BY <1>4, <1>5 DEF UnlockScope, Set

\* What a deletion goes on with once the scope is behind it.
LEMMA AfterScopeKeeps ==
    ASSUME IInv, History, NEW r \in Request, NEW tried \in ReqState,
           req[r].pc \in {"delete", "relock"}, Typed',
           req' = [req EXCEPT ![r] = AfterScope(tried)],
           tried.end # "unknown", tried.failed = NoCal,
           tried.op = req[r].op, tried.cals = req[r].cals
    PROVE  TypeOK' /\ \A k \in Request : RequestInv(k)'
<1> DEFINE next == AfterScope(tried)
<1>1. /\ Running(r) /\ req[r].op \in {"update", "create", "delete"} /\ req[r].cals # {}
      /\ req[r].pc \in (Busy \cup {"post"}) \ {"act"}
    BY WriterFacts DEF Busy, Local
<1>2. CASE tried.end = "ok"
    <2>1. Moves(tried, next, "deleted")
        BY <1>2, MovesFields DEF Pc, AfterScope
    <2> HIDE DEF next
    <2>2. next \in ReqState /\ Local(next) /\ next.pc = "deleted"
        BY <1>1, <1>2, <2>1 DEF Moves, Local, Busy
    <2>3. CachesSeen(next, since[r], mem', disk')
        BY <1>1, <2>1, <2>2 DEF CachesSeen, NamesKnown, DefaultKnown, Moves
    <2>4. QED BY <1>1, <2>2, <2>3, WriteKeeps DEF Busy, next
<1>3. CASE tried.end # "ok"
    <2>1. next = Ended(tried, tried.end)
        BY <1>3 DEF AfterScope
    <2>2. tried.end \in End
        BY DEF ReqState
    <2>3. QED BY <1>1, <1>3, <2>1, <2>2, EndKeeps
<1>4. QED BY <1>2, <1>3

LEMMA AfterScopeFields ==
    ASSUME NEW q \in ReqState
    PROVE  /\ AfterScope(q).lost <=> q.lost
           /\ AfterScope(q).pc \in {"deleted", "done"}
BY DEF AfterScope, Ended, Blank, ReqState

LEMMA AfterDeleteKeeps ==
    ASSUME IInv, History, NEW r \in Request, NEW end \in End, end # "unknown",
           req[r].pc = "delete", Typed', scope' => scope,
           req' = [req EXCEPT ![r] = AfterDelete(req[r], end)]
    PROVE  IInv'
<1> DEFINE q == req[r]
           tried == [q EXCEPT !.end = end]
           next == AfterDelete(q, end)
<1>1. /\ req \in [Request -> ReqState] /\ q \in ReqState
      /\ Local(q) /\ q.op \in {"update", "create", "delete"} /\ q.failed = NoCal /\ q.cals # {}
      /\ q.pc \in (Busy \cup {"post"}) \ {"act"}
    BY WriterFacts DEF Busy, Local
<1>2. tried \in ReqState
    BY <1>1 DEF ReqState
<1>3. /\ tried.pc = "delete" /\ tried.op = q.op /\ (tried.lost <=> q.lost) /\ tried.what = q.what
      /\ tried.failed = NoCal /\ tried.cals = q.cals /\ tried.end = end
    BY <1>1 DEF ReqState
<1>4. CASE Kind[The(q.cals)] = "owned"
    <2>1. next = [tried EXCEPT !.pc = "relock"]
        BY <1>4 DEF AfterDelete
    <2> HIDE DEF tried, next
    <2>2. Moves(tried, next, "relock")
        BY <1>2, <2>1, MovesFields DEF Pc
    <2>3. next \in ReqState /\ Local(next) /\ next.pc = "relock"
        BY <1>1, <1>3, <1>4, <2>2 DEF Moves, Local, Busy
    <2>4. CachesSeen(next, since[r], mem', disk')
        BY <1>1, <1>3, <2>2 DEF CachesSeen, NamesKnown, DefaultKnown, Moves
    <2>5. TypeOK' /\ \A k \in Request : RequestInv(k)'
        BY <1>1, <2>3, <2>4, WriteKeeps DEF Busy, next
    <2>6. ScopeHeld'
        BY <1>1, <1>3, <2>2, ScopeStays DEF IInv, Moves, next
    <2>7. QED BY <2>5, <2>6 DEF IInv
<1>5. CASE Kind[The(q.cals)] # "owned"
    <2>1. next = AfterScope(tried)
        BY <1>5 DEF AfterDelete
    <2> HIDE DEF tried, next
    <2>2. TypeOK' /\ \A k \in Request : RequestInv(k)'
        BY <1>1, <1>2, <1>3, <2>1, AfterScopeKeeps DEF next
    <2>3. next.lost <=> tried.lost
        BY <1>2, <2>1, AfterScopeFields
    <2>4. ScopeHeld'
        BY <1>1, <1>3, <1>5, <2>3, ScopeStays DEF IInv, next
    <2>5. QED BY <2>2, <2>4 DEF IInv
<1>6. QED BY <1>4, <1>5

\* The calendar is deleted, or the server refuses.
LEMMA DeleteCalendarKeeps ==
    ASSUME IInv, History, NEW r \in Request, DeleteCalendar(r)
    PROVE  IInv'
<1> DEFINE c == The(req[r].cals)
<1>1. /\ req[r].pc = "delete" /\ keyed' = keyed \ {c} /\ names' = [names EXCEPT ![c] = Gone]
      /\ UNCHANGED <<unborn, scope, cache, env>>
    BY DEF DeleteCalendar, Becomes
<1>2. default' \in {default, NoCal}
    BY DEF DeleteCalendar, Becomes
<1>3. PICK end \in {"ok", "error"} : req' = [req EXCEPT ![r] = AfterDelete(req[r], end)]
    BY DEF DeleteCalendar, Set
<1>4. Typed /\ c \in Cal
    BY <1>1, BusyFacts, TypedFacts DEF Busy
<1> HIDE DEF c
<1>5. Typed'
    BY <1>1, <1>2, <1>4 DEF Typed, cache, Lists, Defaults
<1>6. end \in End /\ end # "unknown"
    BY DEF End
<1>7. QED BY <1>1, <1>3, <1>5, <1>6, AfterDeleteKeeps

LEMMA DeleteRefusedKeeps ==
    ASSUME IInv, History, NEW r \in Request, DeleteRefused(r)
    PROVE  IInv'
<1>1. req[r].pc = "delete" /\ UNCHANGED <<server, cache, env>>
    BY DEF DeleteRefused
<1>2. PICK end \in {"notfound", "refused"} : req' = [req EXCEPT ![r] = AfterDelete(req[r], end)]
    BY DEF DeleteRefused, Set
<1>3. Typed' /\ (scope' => scope)
    BY <1>1, TypedFacts DEF Typed, server, cache
<1>4. end \in End /\ end # "unknown"
    BY DEF End
<1>5. QED BY <1>1, <1>2, <1>3, <1>4, AfterDeleteKeeps

\* The scope is given up, or a reply is lost.
LEMMA RelockKeeps ==
    ASSUME IInv, History, NEW r \in Request, Relock(r)
    PROVE  IInv'
<1> DEFINE q == req[r]
<1>1. q.pc = "relock" /\ UNCHANGED <<names, default, unborn, keyed, cache, env>>
    BY DEF Relock
<1>2. /\ Typed /\ req \in [Request -> ReqState] /\ q \in ReqState
      /\ q.end # "unknown" /\ q.failed = NoCal /\ q.cals # {}
    BY <1>1, WriterFacts DEF Busy, Local
<1>3. CASE scope' = FALSE /\ req' = [req EXCEPT ![r] = AfterScope(q)]
    <2>1. Typed'
        BY <1>1, <1>2, <1>3 DEF Typed, cache
    <2> HIDE DEF q
    <2>2. TypeOK' /\ \A k \in Request : RequestInv(k)'
        BY <1>1, <1>2, <1>3, <2>1, AfterScopeKeeps DEF q
    <2>3. QED BY <1>3, <2>2 DEF IInv, ScopeHeld
<1>4. CASE scope' = scope /\ \E end \in {q.end, "error"} :
              req' = [req EXCEPT ![r] = AfterScope([q EXCEPT !.lost = TRUE, !.end = end])]
    <2>1. PICK end \in {q.end, "error"} :
              req' = [req EXCEPT ![r] = AfterScope([q EXCEPT !.lost = TRUE, !.end = end])]
        BY <1>4
    <2> DEFINE tried == [q EXCEPT !.lost = TRUE, !.end = end]
               next == AfterScope(tried)
    <2>2. tried \in ReqState
        BY <1>2 DEF ReqState, End
    <2>3. /\ tried.op = q.op /\ tried.lost /\ tried.failed = NoCal /\ tried.cals = q.cals
          /\ tried.end # "unknown"
        BY <1>2 DEF ReqState
    <2>4. Typed'
        BY <1>1, <1>2, <1>4 DEF Typed, cache
    <2> HIDE DEF tried
    <2>5. TypeOK' /\ \A k \in Request : RequestInv(k)'
        BY <1>1, <2>1, <2>2, <2>3, <2>4, AfterScopeKeeps DEF tried
    <2>6. next.lost
        BY <2>2, <2>3, AfterScopeFields
    <2> HIDE DEF next
    <2>7. ScopeHeld'
        BY <1>2, <2>1, <2>6, ScopeTaken DEF next, tried
    <2>8. QED BY <2>5, <2>7 DEF IInv
<1>5. QED BY <1>3, <1>4 DEF Relock, Set

\* A deletion ends, and drops the caches.
LEMMA DeletedKeeps ==
    ASSUME IInv, History, NEW r \in Request, Deleted(r)
    PROVE  IInv'
<1> DEFINE q == req[r]
<1>1. /\ q.pc = "deleted" /\ req' = [req EXCEPT ![r] = Ended(q, "ok")]
      /\ InvalidateCalendarList /\ UNCHANGED server
    BY DEF Deleted, Set
<1>2. Typed /\ Running(r) /\ q \in ReqState /\ q.op # "detail" /\ "ok" \in End
    BY <1>1, WriterFacts DEF Busy, End
<1>3. Typed' /\ (scope' => scope)
    BY <1>1, <1>2, ListInvalidated DEF Typed, server
<1> HIDE DEF q
<1>4. QED BY <1>1, <1>2, <1>3, EndsQuietly DEF q

-----------------------------------------------------------------------------
(* The app, other processes, and the whole.                                *)

\* A step outside the requests.
LEMMA OutsideKeeps ==
    ASSUME IInv, History, Typed', UNCHANGED <<scope, req>>
    PROVE  IInv'
<1>1. \A k \in Request : RequestInv(k)'
    BY Frame
<1>2. TypeOK'
    <2>1. TypeOK /\ names' \in Lists /\ default' \in Defaults
        BY DEF IInv, Typed
    <2>2. since' \in [Request -> Seen] /\ overtaken' \in [Request -> BOOLEAN]
        BY <2>1, SeenType
    <2>3. req' \in [Request -> ReqState]
        BY <2>1 DEF TypeOK
    <2>4. QED BY <2>2, <2>3 DEF TypeOK, Typed
<1>3. ScopeHeld'
    BY DEF IInv, ScopeHeld
<1>4. QED BY <1>1, <1>2, <1>3 DEF IInv

LEMMA AppKeeps ==
    ASSUME IInv, History, App
    PROVE  IInv'
<1>1. Typed /\ UNCHANGED <<scope, cache, req>> /\ env' \in 0..MaxEnv
    BY TypedFacts, BoundAssumption DEF App, Environment, Typed
<1>2. SUFFICES Typed'
    BY <1>1, OutsideKeeps
<1>3. ASSUME NEW n \in AppName, AppCreates(n)
      PROVE  Typed'
    <2> DEFINE c == Min(unborn)
    <2>1. /\ unborn # {} /\ unborn' = unborn \ {c} /\ keyed' = keyed \cup {c}
          /\ names' = [names EXCEPT ![c] = n] /\ default' = default
        BY <1>3 DEF AppCreates, Becomes
    <2>2. unborn \subseteq Cal
        BY <1>1 DEF Typed
    <2>3. c \in unborn
        BY <2>1, <2>2, CalAssumption, MinIsIn
    <2>4. n \in Name
        BY NameAssumption
    <2> HIDE DEF c
    <2>5. c \in Cal /\ c \notin unborn' /\ unborn' \subseteq unborn
        BY <2>1, <2>2, <2>3
    <2>6. /\ [names EXCEPT ![c] = n] \in Lists
          /\ unborn' \subseteq unborn => \A k \in unborn' : [names EXCEPT ![c] = n][k] = Gone
        BY <1>1, <2>4, <2>5, NamesType, Zenon
    <2>7. QED BY <1>1, <2>1, <2>2, <2>5, <2>6 DEF Typed, cache
<1>4. ASSUME NEW c \in Cal, AppDeletes(c)
      PROVE  Typed'
    <2>1. /\ names' = [names EXCEPT ![c] = Gone] /\ default' \in {default, NoCal}
          /\ keyed' = keyed \ {c} /\ unborn' = unborn
        BY <1>4 DEF AppDeletes, Becomes
    <2>2. QED BY <1>1, <2>1 DEF Typed, cache, Lists, Defaults
<1>5. ASSUME NEW c \in Cal, AppMakesDefault(c)
      PROVE  Typed'
    BY <1>1, <1>5 DEF AppMakesDefault, Becomes, Typed, cache, Defaults
<1>6. ASSUME NEW c \in Cal, NEW n \in AppName, AppRenames(c, n)
      PROVE  Typed'
    <2>1. names[c] # Gone /\ names' = [names EXCEPT ![c] = n] /\ UNCHANGED <<default, unborn, keyed>>
        BY <1>6 DEF AppRenames, Becomes
    <2>2. c \notin unborn' /\ n \in Name
        BY <1>1, <2>1, NameAssumption DEF Typed
    <2>3. /\ [names EXCEPT ![c] = n] \in Lists
          /\ unborn' \subseteq unborn => \A k \in unborn' : [names EXCEPT ![c] = n][k] = Gone
        BY <1>1, <2>2, NamesType, Zenon
    <2>4. QED BY <1>1, <2>1, <2>3 DEF Typed, cache
<1>7. QED BY <1>3, <1>4, <1>5, <1>6 DEF App

LEMMA OtherStoresKeeps ==
    ASSUME IInv, History, OtherStores
    PROVE  IInv'
<1>1. /\ Typed /\ env' \in 0..MaxEnv /\ file' = [list |-> names, default |-> default]
      /\ UNCHANGED <<server, mem, disk, served, req>>
    BY TypedFacts, BoundAssumption DEF OtherStores, Environment, Typed
<1>2. Typed' /\ UNCHANGED scope
    BY <1>1 DEF Typed, server
<1>3. QED BY <1>1, <1>2, OutsideKeeps

LEMMA PutElsewhereKeeps ==
    ASSUME IInv, History, PutElsewhere
    PROVE  IInv'
<1>1. Typed /\ disk' = file /\ UNCHANGED <<server, mem, file, served, req, env>>
    BY TypedFacts DEF PutElsewhere
<1>2. Typed' /\ UNCHANGED scope
    BY <1>1 DEF Typed, server
<1>3. QED BY <1>1, <1>2, OutsideKeeps

LEMMA InitEstablishes ==
    ASSUME Init
    PROVE  IInv
<1>1. PICK m \in Menu :
          req = [r \in Request |-> [Blank EXCEPT !.op = m[r].op, !.sel = m[r].sel,
                                                !.what = m[r].what, !.name = m[r].name]]
    BY DEF Init
<1>2. /\ names \in Lists /\ default \in Defaults /\ unborn = Cal \ Listed(names)
      /\ keyed \subseteq Cal /\ scope = FALSE /\ mem = None /\ env = 0 /\ served = {}
      /\ disk \in Cached /\ file = disk
      /\ since = [r \in Request |-> Nothing] /\ overtaken = [r \in Request |-> FALSE]
    BY DEF Init, Lists, Defaults, Listed
<1>3. \A c \in unborn : names[c] = Gone
    BY <1>2 DEF Listed
<1>4. ASSUME NEW r \in Request
      PROVE  /\ req[r] \in ReqState /\ req[r].pc = "idle" /\ req[r].failed = NoCal
             /\ req[r].op # "detail" /\ ~req[r].fresh /\ req[r].round = "first"
             /\ req[r].end = "none" /\ req[r].cals = {}
    <2> DEFINE s == m[r]
               q == [Blank EXCEPT !.op = s.op, !.sel = s.sel, !.what = s.what, !.name = s.name]
    <2>1. req[r] = q
        BY <1>1
    <2>2. s \in Shape
        BY MenuAssumption
    <2>3. /\ s.op \in Op /\ s.op # "detail" /\ s.sel \in Selection
          /\ s.what \in SUBSET {"meta", "default"} /\ s.name \in Name
        BY <2>2 DEF Shape, Op
    <2> HIDE DEF s
    <2>4. /\ q.pc = "idle" /\ q.op = s.op /\ q.failed = NoCal /\ ~q.fresh
          /\ q.round = "first" /\ q.end = "none" /\ q.cals = {}
        BY DEF Blank
    <2>5. Blank \in ReqState
        <3>1. NewName \in Name
            BY <2>3 DEF NewName
        <3>2. NoCal \in Defaults /\ {} \in Selection
            BY DEF Defaults, Selection
        <3>3. QED BY <3>1, <3>2 DEF Blank, ReqState, Pc, Op, End
    <2> HIDE DEF Blank
    <2>6. q \in ReqState
        BY <2>3, <2>5 DEF ReqState
    <2>7. QED BY <2>1, <2>3, <2>4, <2>6
<1>5. req \in [Request -> ReqState]
    BY <1>1, <1>4
<1>6. TypeOK
    <2>1. Nothing \in Seen
        BY DEF Nothing, Seen
    <2>2. 0 \in 0..MaxEnv
        BY BoundAssumption
    <2>3. since \in [Request -> Seen] /\ overtaken \in [Request -> BOOLEAN]
        BY <1>2, <2>1
    <2>4. QED BY <1>2, <1>3, <1>5, <2>2, <2>3 DEF TypeOK
<1>7. ASSUME NEW r \in Request
      PROVE  RequestInv(r)
    <2>1. Local(req[r])
        BY <1>4 DEF Local, Busy
    <2>2. Known(req[r], since[r], overtaken[r], served)
        BY <1>4, KnownByNone DEF Reading
    <2>3. ~Running(r)
        BY <1>4 DEF Running
    <2>4. QED BY <2>1, <2>2, <2>3 DEF RequestInv
<1>8. QED BY <1>2, <1>6, <1>7 DEF IInv, ScopeHeld

LEMMA ResolutionKeeps ==
    ASSUME IInv, History, NEW r \in Request, ResolutionNext(r)
    PROVE  IInv'
<1>1. CASE ListFromMemory(r) \/ ListHit(r) \/ KeepList(r)
    BY <1>1, ListFromMemoryKeeps, ListHitKeeps, KeepListKeeps
<1>2. CASE ListMiss(r) \/ DefaultMiss(r)
    <2>1. CASE ListMiss(r)
        <3>1. /\ req[r].pc = "list" /\ req' = [req EXCEPT ![r] = [req[r] EXCEPT !.pc = "getList"]]
              /\ UNCHANGED <<server, cache, env>>
            BY <2>1 DEF ListMiss, Set
        <3>2. QED BY <3>1, MissKeeps
    <2>2. CASE DefaultMiss(r)
        <3>1. /\ req[r].pc = "dflt" /\ req' = [req EXCEPT ![r] = [req[r] EXCEPT !.pc = "getDflt"]]
              /\ UNCHANGED <<server, cache, env>>
            BY <2>2 DEF DefaultMiss, Set
        <3>2. QED BY <3>1, MissKeeps
    <2>3. QED BY <1>2, <2>1, <2>2
<1>3. CASE ListAnswered(r) \/ StoreList(r) \/ ListFails(r)
    BY <1>3, ListAnsweredKeeps, StoreListKeeps, ListFailsKeeps
<1>4. CASE DefaultHit(r) \/ DefaultAnswered(r) \/ StoreDefault(r)
    BY <1>4, DefaultHitKeeps, DefaultAnsweredKeeps, StoreDefaultKeeps
<1>5. CASE DefaultFails(r) \/ CheckDefault(r)
    BY <1>5, DefaultFailsKeeps, CheckDefaultKeeps
<1>6. QED BY <1>1, <1>2, <1>3, <1>4, <1>5 DEF ResolutionNext

LEMMA EventKeeps ==
    ASSUME IInv, History, NEW r \in Request, EventNext(r)
    PROVE  IInv'
BY NotFoundKeeps, DegradedKeeps, ActEndsKeeps DEF EventNext

LEMMA WriteNextKeeps ==
    ASSUME IInv, History, NEW r \in Request, WriteNext(r)
    PROVE  IInv'
BY PutMemberKeeps, MemberPutKeeps, PutDefaultKeeps, DefaultPutKeeps, PutFailsKeeps,
   PostCalendarKeeps, PostKeysKeeps, UnlockScopeKeeps, DeleteCalendarKeeps,
   DeleteRefusedKeeps, RelockKeeps, DeletedKeeps DEF WriteNext

LEMMA NextKeeps ==
    ASSUME IInv, [Next]_vars
    PROVE  IInv'
<1>1. CASE UNCHANGED vars
    BY <1>1 DEF IInv, TypeOK, ScopeHeld, RequestInv, Running, vars, server, cache
<1>2. ASSUME History, NEW r \in Request, Begin(r) \/ ResolutionNext(r) \/ EventNext(r) \/ WriteNext(r)
      PROVE  IInv'
    BY <1>2, BeginKeeps, ResolutionKeeps, EventKeeps, WriteNextKeeps
<1>3. ASSUME History, App \/ OtherStores \/ PutElsewhere
      PROVE  IInv'
    BY <1>3, AppKeeps, OtherStoresKeeps, PutElsewhereKeeps
<1>4. QED BY <1>1, <1>2, <1>3 DEF Next, Terminating

\* The invariant that the theorems below rest on holds of every behaviour.
LEMMA Inductive == Spec => []IInv
<1>1. Init => IInv
    BY InitEstablishes
<1>2. IInv /\ [Next]_vars => IInv'
    BY NextKeeps
<1>3. QED BY <1>1, <1>2, PTL DEF Spec

-----------------------------------------------------------------------------
(* What holds of every behaviour.                                          *)

\* The state keeps its types, and an ID the server has not used yet names no
\* calendar.
THEOREM ResolutionTypes == Spec => []TypeOK
<1>1. IInv => TypeOK
    BY DEF IInv
<1>2. QED BY <1>1, Inductive, PTL

\* A selector is reported as unknown, and the account's default is passed over,
\* only when the server's calendars gave cause for it while the request ran:
\* whatever the caches held before, resolveWith (service.go:180-206) has read
\* again what could have been old.
THEOREM ResolutionCurrent == Spec => []ResolutionIsCurrent
<1>1. ASSUME IInv
      PROVE  UnknownIsReal
    <2> SUFFICES ASSUME NEW r \in Request, req[r].end = "unknown", ~overtaken[r]
                 PROVE  \E list \in since[r].names, d \in since[r].default :
                           ResolveMany(list, req[r].sel, d) = {}
        BY DEF UnknownIsReal
    <2>1. Unknown(req[r], since[r])
        BY <1>1 DEF IInv, RequestInv, Known
    <2>2. QED BY <2>1 DEF Unknown
<1>2. ASSUME IInv
      PROVE  DefaultIsPassedOverForCause
    <2> SUFFICES ASSUME NEW r \in Request, req[r].pc = "act", req[r].sel = {},
                        req[r].dflt \notin req[r].cals \cup {NoCal},
                        ~overtaken[r], ~req[r].lost
                 PROVE  /\ req[r].dflt \in since[r].default
                        /\ \E list \in since[r].names : req[r].dflt \notin Listed(list)
        BY DEF DefaultIsPassedOverForCause
    <2>1. PassedOver(req[r], since[r])
        BY <1>2 DEF IInv, RequestInv, Known
    <2>2. QED BY <2>1 DEF PassedOver
<1>3. IInv => ResolutionIsCurrent
    BY <1>1, <1>2 DEF ResolutionIsCurrent
<1>4. QED BY <1>3, Inductive, PTL

\* The second attempt of withAccess (service.go:420-450) works on another
\* calendar than the one that was "not found", and on what its selector stood
\* for after that answer.
THEOREM ReplayElsewhere == Spec => []ReplayIsElsewhere
<1>1. ASSUME IInv
      PROVE  ReplayIsElsewhere
    <2> SUFFICES ASSUME NEW r \in Request, req[r].pc = "act", req[r].failed # NoCal,
                        ~overtaken[r], ~req[r].lost
                 PROVE  /\ req[r].failed \notin req[r].cals
                        /\ \E list \in since[r].names, d \in since[r].default :
                              ResolveMany(list, req[r].sel, d) = req[r].cals
        BY DEF ReplayIsElsewhere
    <2>1. Replayed(req[r], since[r])
        BY <1>1 DEF IInv, RequestInv, Known
    <2>2. QED BY <2>1 DEF Replayed
<1>2. QED BY <1>1, Inductive, PTL

\* The detail an update or a create returns (calendar_ops.go:104-128) shows a
\* name the calendar had after the metadata was written, and is the default or
\* not as it was after the last write.
THEOREM DetailFresh == Spec => []DetailIsFresh
<1>1. ASSUME IInv
      PROVE  DetailIsFresh
    <2> SUFFICES ASSUME NEW r \in Request, req[r].op = "detail", req[r].end = "ok",
                        ~overtaken[r], ~req[r].lost
                 PROVE  /\ \E d \in since[r].default :
                              (d = The(req[r].cals)) = (req[r].dflt = The(req[r].cals))
                        /\ "meta" \in req[r].what =>
                              \E list \in since[r].names :
                                 list[The(req[r].cals)] = req[r].list[The(req[r].cals)]
        BY DEF DetailIsFresh
    <2>1. Detailed(req[r], since[r])
        BY <1>1 DEF IInv, RequestInv, Known
    <2>2. QED BY <2>1 DEF Detailed
<1>2. QED BY <1>1, Inductive, PTL

\* The session keeps the locked scope only as long as a request is deleting a
\* calendar, unless a reply was lost (auth.go:206-216), however many deletions
\* and other requests run at once.
THEOREM ScopeLeft == Spec => []ScopeIsLeft
<1>1. IInv => ScopeIsLeft
    BY DEF IInv, ScopeHeld, ScopeIsLeft
<1>2. QED BY <1>1, Inductive, PTL
=============================================================================
